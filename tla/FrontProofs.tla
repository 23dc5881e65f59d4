---------------------------- MODULE FrontProofs ----------------------------
(***************************************************************************)
(* Theorems about the parts around a task run: the connection to a daemon, *)
(* the caches and leftovers, and an invocation.  DisplayProofs has those   *)
(* about the displays, and the induction that the last of these needs.     *)
(***************************************************************************)
EXTENDS DisplayProofs, Upkeep, Connection, Invocation

----------------------------------------------------------------------------
(* The connection.                                                         *)

DialFields ==
    {"ask", "at", "config", "host", "context", "tls", "warned", "note", "how", "said"}
FileKinds == {"ca", "cert", "key"}

DialOK ==
    /\ DOMAIN dial = DialFields
    /\ dial.at \in {"check", "context", "meta", "enable", "certificates", "over"} \cup Looking
    /\ dial.how \in {None, "refused", "failed", "plain", "tls"}
    /\ dial.how # None <=> dial.at = "over"
    /\ dial.at # "over" => dial.said = None
    /\ {"dirs", "files", "vanished"} \subseteq DOMAIN disk /\ None \notin disk.files

\* A directory that has gone does not come back.
GoneInv == gone \cap disk.dirs = {}

\* Past the choice of a context, and not refused or failed.
Chosen == dial.at \notin {"check", "context", "over"} \/ dial.how \in {"plain", "tls"}

AskedHost == First(dial.ask.host, Given(dial.ask.envHost))

\* What was chosen is what was asked for.
ChoiceInv ==
    Chosen =>
        LET ask == dial.ask
        IN /\ dial.config = First(ChosenConfigDirectory(ask), "home")
           /\ ask.context \notin {None, "default"} => dial.context = ask.context
           /\ ask.context = "default" \/ (ask.context = None /\ AskedHost # None) =>
                 dial.context = None
           /\ /\ ask.context = None /\ AskedHost = None
              /\ ask.envContext \notin {None, "", "default"}
              => dial.context = ask.envContext
           /\ dial.context = None => dial.host = AskedHost
           /\ dial.at \in {"enable", "certificates"} => dial.context = None
           /\ dial.at = "meta" => dial.context # None

\* Where no context was chosen, TLS is as the options and the address say.
TlsInv ==
    Chosen /\ dial.context = None =>
        /\ dial.at \in {"certificates"} \cup Looking \/ dial.how = "tls" =>
              \/ TlsEnabled(dial.ask) = "on"
              \/ TlsEnabled(dial.ask) = "off" /\ dial.host = "https"
        /\ dial.how = "plain" => TlsEnabled(dial.ask) = "off" /\ dial.host # "https"

\* The kinds of files that have been looked for.
Seen(what) ==
    \/ dial.at \in {"looked", "read"} \/ dial.how = "tls"
    \/ what = "ca" /\ dial.at \in {"cert", "key"}
    \/ what = "cert" /\ dial.at = "key"

DirectoryThere ==
    dial.context = None /\ None \in {dial.ask.ca, dial.ask.cert, dial.ask.key} =>
        First(First(dial.ask.certPath, Given(dial.ask.envCert)), dial.config) \notin gone

\* The certificates looked for so far are as named, and their directory was there.
LookInv ==
    /\ dial.at \in Looking \/ dial.how = "tls" =>
          DOMAIN dial.tls = FileKinds /\ DirectoryThere
    /\ \A what \in FileKinds : Seen(what) => AsNamed(what)
    /\ dial.at = "read" \/ dial.how = "tls" => (dial.tls.cert = None) = (dial.tls.key = None)

\* What is said of a failure to connect is the note, if it is about trust.
NoteInv ==
    /\ dial.at \notin {"read", "over"} => dial.note # "system trust"
    /\ dial.at = "read" \/ dial.how = "tls" => (dial.note = "system trust" => dial.tls.ca = None)
    /\ dial.said = "system trust" => dial.note = "system trust"

PlainContextInv ==
    dial.how = "plain" /\ dial.context # None =>
        /\ dial.host # "https" /\ dial.note = None
        /\ \A what \in FileKinds : Place(what) \notin disk.files

ConnectionInv ==
    /\ DialOK /\ GoneInv /\ ChoiceInv /\ TlsInv /\ LookInv /\ NoteInv
    /\ PlainContextInv

LEMMA InitConnection == ConnectionInit => ConnectionInv
<1> SUFFICES ASSUME ConnectionInit PROVE ConnectionInv
  OBVIOUS
<1>1. PICK machine \in Machines : \E asked \in machine.askings :
          /\ dial = [ask |-> asked, at |-> "check", config |-> None, host |-> None, context |-> None,
                     tls |-> None, warned |-> FALSE, note |-> None, how |-> None, said |-> None]
          /\ disk \in machine.disks
  BY DEF ConnectionInit
<1>2. /\ DOMAIN dial = DialFields /\ dial.at = "check" /\ dial.how = None /\ dial.said = None
      /\ dial.note = None
  BY <1>1 DEF DialFields
<1>3. {"dirs", "files", "vanished"} \subseteq DOMAIN disk /\ None \notin disk.files
  BY <1>1, MachinesAssumption
<1>4. ~Chosen
  BY <1>2, MachinesAssumption DEF Chosen
<1>5. DialOK
  BY <1>2, <1>3 DEF DialOK
<1>6. GoneInv
  BY DEF ConnectionInit, GoneInv
<1>7. ChoiceInv /\ TlsInv
  BY <1>4 DEF ChoiceInv, TlsInv
<1>8. LookInv
  BY <1>2, MachinesAssumption DEF LookInv, Seen, Looking
<1>9. NoteInv /\ PlainContextInv
  BY <1>2, MachinesAssumption DEF NoteInv, PlainContextInv
<1> QED BY <1>5, <1>6, <1>7, <1>8, <1>9 DEF ConnectionInv

\* What a step that looks for no file leaves as it was.
Settled ==
    /\ dial'.ask = dial.ask /\ dial'.config = dial.config /\ dial'.host = dial.host
    /\ dial'.context = dial.context /\ dial'.tls = dial.tls
    /\ DOMAIN dial' = DialFields

\* A file as named stays so, while files can only go.
LEMMA AsNamedKept ==
    ASSUME NEW what, dial'.ask = dial.ask, dial'.config = dial.config,
           dial'.context = dial.context, dial'.tls[what] = dial.tls[what],
           disk'.files \subseteq disk.files
    PROVE  /\ AsNamed(what) => AsNamed(what)'
           /\ Place(what)' = Place(what)
BY DEF AsNamed, Place

LEMMA SameLooks ==
    ASSUME ConnectionInv, Settled, dial'.at = dial.at, dial'.how = dial.how,
           dial'.note = dial.note, UNCHANGED <<disk, gone>>
    PROVE  LookInv' /\ PlainContextInv'
<1>1. DirectoryThere' = DirectoryThere
  BY DEF DirectoryThere, Settled
<1>2. \A what \in FileKinds : Seen(what)' = Seen(what)
  BY DEF Seen
<1>3. ASSUME NEW what \in FileKinds
      PROVE  (AsNamed(what) => AsNamed(what)') /\ Place(what)' = Place(what)
  BY AsNamedKept DEF Settled
<1>4. LookInv'
  BY <1>1, <1>2, <1>3 DEF ConnectionInv, LookInv, Settled
<1>5. PlainContextInv'
  BY <1>3 DEF ConnectionInv, PlainContextInv, Settled
<1> QED BY <1>4, <1>5

LEMMA DialEndsEffects ==
    ASSUME DialOK, NEW how, DialEnds(how)
    PROVE  Settled /\ dial'.at = "over" /\ dial'.how = how /\ dial'.said = dial.said
           /\ dial'.note = dial.note
BY DEF DialOK, DialFields, DialEnds, Settled

\* Refusing and failing are the ends nothing is promised of.
LEMMA DialGivesUp ==
    ASSUME ConnectionInv, NEW how \in {"refused", "failed"}, DialEnds(how), dial.at # "over",
           UNCHANGED <<disk, gone>>
    PROVE  ConnectionInv'
<1>1. Settled /\ dial'.at = "over" /\ dial'.how = how /\ dial'.said = dial.said
      /\ dial'.note = dial.note
  BY DialEndsEffects DEF ConnectionInv
<1>2. DialOK' /\ GoneInv'
  BY <1>1, MachinesAssumption DEF ConnectionInv, DialOK, GoneInv, Settled
<1>3. ~Chosen'
  BY <1>1 DEF Chosen
<1>4. LookInv'
  BY <1>1 DEF LookInv, Seen, Looking
<1>5. NoteInv' /\ PlainContextInv'
  BY <1>1, MachinesAssumption DEF ConnectionInv, NoteInv, PlainContextInv, DialOK
<1> QED BY <1>2, <1>3, <1>4, <1>5 DEF ConnectionInv, ChoiceInv, TlsInv

\* A step on the way that looks for no file.
LEMMA DialMoves ==
    ASSUME ConnectionInv, NEW there \in {"context", "certificates"}, UNCHANGED <<disk, gone>>,
           dial.at # "over", dial' = [dial EXCEPT !.at = there]
    PROVE  /\ Settled /\ dial'.at = there /\ dial'.how = None /\ dial'.said = None
           /\ DialOK' /\ GoneInv' /\ LookInv' /\ PlainContextInv'
           /\ dial.at \notin {"read"} => NoteInv'
<1>1. /\ Settled /\ dial'.at = there /\ dial'.how = None /\ dial'.said = None
      /\ dial'.note = dial.note
  BY DEF Settled, ConnectionInv, DialOK, DialFields
<1>2. DialOK' /\ GoneInv'
  BY <1>1 DEF ConnectionInv, DialOK, GoneInv, Settled
<1>3. LookInv' /\ PlainContextInv'
  BY <1>1, MachinesAssumption DEF LookInv, Seen, Looking, PlainContextInv
<1>4. dial.at \notin {"read"} => NoteInv'
  BY <1>1, MachinesAssumption DEF ConnectionInv, NoteInv
<1> QED BY <1>1, <1>2, <1>3, <1>4

LEMMA CheckOptionsKept ==
    ASSUME ConnectionInv, CheckOptions
    PROVE  ConnectionInv'
<1>1. CASE DialEnds("refused")
  BY <1>1, DialGivesUp DEF CheckOptions
<1>2. CASE dial' = [dial EXCEPT !.at = "context"]
  <2>1. dial.at = "check" /\ UNCHANGED <<disk, gone>>
    BY DEF CheckOptions
  <2>2. /\ dial'.at = "context" /\ dial'.how = None
        /\ DialOK' /\ GoneInv' /\ LookInv' /\ PlainContextInv' /\ NoteInv'
    BY <1>2, <2>1, DialMoves
  <2>3. ~Chosen'
    BY <2>2, MachinesAssumption DEF Chosen
  <2> QED BY <2>2, <2>3 DEF ConnectionInv, ChoiceInv, TlsInv
<1> QED BY <1>1, <1>2 DEF CheckOptions

LEMMA ChooseContextKept ==
    ASSUME ConnectionInv, ChooseContext
    PROVE  ConnectionInv'
<1> DEFINE ask == dial.ask
           config == First(ChosenConfigDirectory(ask), "home")
           host == First(ask.host, Given(ask.envHost))
           active == ActiveContext(config)
           name == ContextName(ask, host, IF active = "unreadable" THEN None ELSE active)
<1>1. /\ DOMAIN dial' = DialFields /\ dial.at = "context"
      /\ dial'.at = IF name = None THEN "enable" ELSE "meta"
      /\ dial'.config = config /\ dial'.host = host /\ dial'.context = name
      /\ dial'.ask = dial.ask /\ dial'.how = dial.how /\ dial'.said = dial.said
      /\ dial'.note = dial.note /\ UNCHANGED <<disk, gone>>
  BY DEF ConnectionInv, DialOK, DialFields, ChooseContext
<1>2. dial'.how = None /\ dial'.said = None
  BY <1>1 DEF ConnectionInv, DialOK
<1>3. DialOK' /\ GoneInv'
  BY <1>1, <1>2 DEF ConnectionInv, DialOK, GoneInv
<1>4. ChoiceInv'
  BY <1>1, <1>2, MachinesAssumption DEF ChoiceInv, Chosen, AskedHost, ContextName, First, Given
<1>5. dial'.at \in {"enable", "meta"}
  BY <1>1
<1>6. TlsInv'
  BY <1>2, <1>5, MachinesAssumption DEF TlsInv, Looking
<1>7. LookInv'
  BY <1>2, <1>5, MachinesAssumption DEF LookInv, Seen, Looking
<1>8. NoteInv' /\ PlainContextInv'
  BY <1>1, <1>2, <1>5, MachinesAssumption DEF ConnectionInv, NoteInv, PlainContextInv
<1> QED BY <1>3, <1>4, <1>6, <1>7, <1>8 DEF ConnectionInv

LEMMA ReadContextKept ==
    ASSUME ConnectionInv, ReadContext
    PROVE  ConnectionInv'
<1>1. CASE DialEnds("failed")
  BY <1>1, DialGivesUp DEF ReadContext
<1>2. CASE ~DialEnds("failed")
  <2>1. /\ DOMAIN dial' = DialFields /\ dial.at = "meta" /\ dial'.at = "ca"
        /\ dial'.note \in {"context asked to skip", None} /\ dial'.tls = NoFiles
        /\ dial'.config = dial.config /\ dial'.context = dial.context
        /\ dial'.ask = dial.ask /\ dial'.how = dial.how /\ dial'.said = dial.said
        /\ UNCHANGED <<disk, gone>>
    BY <1>2 DEF ConnectionInv, DialOK, DialFields, ReadContext
  <2>2. dial'.how = None /\ dial.context # None /\ dial'.said = None
    BY <2>1 DEF ConnectionInv, DialOK, ChoiceInv, Chosen
  <2>3. DialOK' /\ GoneInv'
    BY <2>1, <2>2 DEF ConnectionInv, DialOK, GoneInv, Looking
  <2>4. ChoiceInv'
    BY <2>1, <2>2, MachinesAssumption DEF ConnectionInv, ChoiceInv, Chosen, AskedHost
  <2>5. TlsInv' /\ PlainContextInv'
    BY <2>1, <2>2, MachinesAssumption DEF TlsInv, PlainContextInv
  <2>6. DOMAIN dial'.tls = FileKinds /\ DirectoryThere'
    BY <2>1, <2>2 DEF NoFiles, FileKinds, DirectoryThere
  <2>7. LookInv'
    BY <2>1, <2>2, <2>6, MachinesAssumption DEF LookInv, Seen
  <2>8. NoteInv'
    BY <2>1, <2>2, MachinesAssumption DEF NoteInv
  <2> QED BY <2>3, <2>4, <2>5, <2>7, <2>8 DEF ConnectionInv
<1> QED BY <1>1, <1>2

LEMMA DialPlain ==
    ASSUME ConnectionInv, DialEnds("plain"), UNCHANGED <<disk, gone>>,
           dial.at \in {"looked", "enable"},
           dial.context = None => TlsEnabled(dial.ask) = "off" /\ dial.host # "https",
           dial.context # None =>
               /\ dial.host # "https" /\ dial.note = None
               /\ \A what \in FileKinds : Place(what) \notin disk.files
    PROVE  ConnectionInv'
<1>1. /\ Settled /\ dial'.at = "over" /\ dial'.how = "plain" /\ dial'.said = dial.said
      /\ dial'.note = dial.note
  BY DialEndsEffects DEF ConnectionInv
<1>2. DialOK' /\ GoneInv'
  BY <1>1, MachinesAssumption DEF ConnectionInv, DialOK, GoneInv, Settled
<1>3. ChoiceInv'
  BY <1>1 DEF ConnectionInv, ChoiceInv, Chosen, AskedHost, Settled
<1>4. TlsInv'
  BY <1>1 DEF TlsInv, Settled, Looking
<1>5. LookInv'
  BY <1>1 DEF LookInv, Seen, Looking
<1>6. \A what \in FileKinds : Place(what)' = Place(what)
  BY <1>1 DEF Place, Settled
<1>7. PlainContextInv'
  BY <1>1, <1>6 DEF PlainContextInv, Settled
<1>8. NoteInv'
  BY <1>1, MachinesAssumption DEF ConnectionInv, NoteInv, DialOK
<1> QED BY <1>2, <1>3, <1>4, <1>5, <1>7, <1>8 DEF ConnectionInv

\* The looks are over, and the files found are to be read.
LEMMA DialReads ==
    ASSUME ConnectionInv, UNCHANGED <<disk, gone>>, dial.at = "looked", ~HalfPair,
           Settled, dial'.at = "read", dial'.how = dial.how, dial'.said = dial.said,
           dial'.note = "system trust" => dial.tls.ca = None
    PROVE  ConnectionInv'
<1>1. /\ Settled /\ dial'.at = "read" /\ dial'.how = None /\ dial'.said = None
      /\ dial.how = None
  BY DEF ConnectionInv, DialOK
<1>2. DialOK' /\ GoneInv'
  BY <1>1 DEF ConnectionInv, DialOK, GoneInv, Settled, Looking
<1>3. ChoiceInv' /\ TlsInv'
  BY <1>1, MachinesAssumption DEF ConnectionInv, ChoiceInv, TlsInv, Chosen, AskedHost, Settled, Looking
<1>4. /\ DOMAIN dial'.tls = FileKinds /\ DirectoryThere'
      /\ (dial'.tls.cert = None) = (dial'.tls.key = None)
  <2>1. DOMAIN dial.tls = FileKinds /\ DirectoryThere
    BY DEF ConnectionInv, LookInv, Looking
  <2>2. (dial.tls.cert = None) = (dial.tls.key = None)
    BY DEF HalfPair
  <2>3. DirectoryThere' = DirectoryThere
    BY <1>1 DEF DirectoryThere, Settled
  <2> QED BY <1>1, <2>1, <2>2, <2>3 DEF Settled
<1>5. ASSUME NEW what \in FileKinds PROVE AsNamed(what)'
  BY <1>1, AsNamedKept DEF ConnectionInv, LookInv, Seen, Settled
<1>6. LookInv'
  BY <1>4, <1>5 DEF LookInv
<1>7. NoteInv' /\ PlainContextInv'
  BY <1>1, MachinesAssumption DEF NoteInv, PlainContextInv, Settled
<1> QED BY <1>2, <1>3, <1>6, <1>7 DEF ConnectionInv

LEMMA ContextTlsKept ==
    ASSUME ConnectionInv, ContextTls
    PROVE  ConnectionInv'
<1>0. dial.at = "looked" /\ UNCHANGED <<disk, gone>> /\ dial.context # None
  BY DEF ContextTls
<1>1. CASE DialEnds("failed")
  BY <1>0, <1>1, DialGivesUp
<1>2. CASE /\ DialEnds("plain") /\ dial.note = None /\ dial.host # "https" /\ ~HalfPair
           /\ dial.tls.ca = None /\ dial.tls.cert = None
  <2>1. dial.tls.key = None
    BY <1>2 DEF HalfPair
  <2>2. ASSUME NEW what \in FileKinds PROVE Place(what) \notin disk.files
    <3>1. AsNamed(what) /\ dial.tls[what] = None
      BY <1>0, <1>2, <2>1 DEF ConnectionInv, LookInv, Seen, FileKinds
    <3> QED BY <1>0, <3>1 DEF AsNamed, ConnectionInv, DialOK
  <2> QED BY <1>0, <1>2, <2>2, DialPlain
<1>3. CASE dial' = [dial EXCEPT !.at = "read"] /\ ~HalfPair
  <2>1. /\ Settled /\ dial'.at = "read" /\ dial'.how = dial.how /\ dial'.said = dial.said
        /\ dial'.note = dial.note
    BY <1>3 DEF ConnectionInv, DialOK, DialFields, Settled
  <2>2. dial.note # "system trust"
    BY <1>0 DEF ConnectionInv, NoteInv
  <2> QED BY <1>0, <1>3, <2>1, <2>2, DialReads
<1> QED BY <1>1, <1>2, <1>3 DEF ContextTls, ConnectPlain

LEMMA EnableTlsKept ==
    ASSUME ConnectionInv, EnableTls
    PROVE  ConnectionInv'
<1>0. dial.at = "enable" /\ UNCHANGED <<disk, gone>> /\ dial.context = None
  BY DEF EnableTls, ConnectionInv, ChoiceInv, Chosen
<1>1. CASE DialEnds("failed") \/ DialEnds("refused")
  BY <1>0, <1>1, DialGivesUp
<1>2. CASE DialEnds("plain") /\ TlsEnabled(dial.ask) = "off" /\ dial.host # "https"
  BY <1>0, <1>2, DialPlain
<1>3. CASE /\ dial' = [dial EXCEPT !.at = "certificates"]
           /\ TlsEnabled(dial.ask) # "invalid"
           /\ ~(TlsEnabled(dial.ask) = "off" /\ dial.host # "https")
  <2>1. /\ Settled /\ dial'.at = "certificates" /\ dial'.how = None
        /\ DialOK' /\ GoneInv' /\ LookInv' /\ PlainContextInv' /\ NoteInv'
    BY <1>0, <1>3, DialMoves
  <2>2. ChoiceInv'
    BY <1>0, <2>1, MachinesAssumption
       DEF ConnectionInv, ChoiceInv, Chosen, AskedHost, Settled
  <2>3. TlsEnabled(dial.ask) \in {"on", "off", "invalid"}
    BY DEF TlsEnabled
  <2>4. TlsInv'
    BY <1>0, <1>3, <2>1, <2>3, MachinesAssumption DEF TlsInv, Settled
  <2> QED BY <2>1, <2>2, <2>4 DEF ConnectionInv
<1> QED BY <1>1, <1>2, <1>3 DEF EnableTls, ConnectPlain

LEMMA LookForDirectoryKept ==
    ASSUME ConnectionInv, LookForDirectory
    PROVE  ConnectionInv'
<1>0. dial.at = "certificates" /\ UNCHANGED <<disk, gone>> /\ dial.context = None
  BY DEF LookForDirectory, ConnectionInv, ChoiceInv, Chosen
<1>1. CASE DialEnds("failed")
  BY <1>0, <1>1, DialGivesUp
<1>2. CASE /\ dial' = [dial EXCEPT !.tls = NoFiles, !.at = "ca"]
           /\ ~(/\ None \in {dial.ask.ca, dial.ask.cert, dial.ask.key}
                /\ CertDirectory(dial.ask) \notin disk.dirs)
  <2>1. /\ DOMAIN dial' = DialFields /\ dial'.at = "ca" /\ dial'.how = dial.how
        /\ dial'.config = dial.config /\ dial'.context = dial.context /\ dial'.host = dial.host
        /\ dial'.ask = dial.ask /\ dial'.said = dial.said /\ dial'.note = dial.note
        /\ dial'.tls = NoFiles
    BY <1>2 DEF ConnectionInv, DialOK, DialFields
  <2>2. dial'.how = None /\ dial'.said = None
    BY <1>0, <2>1 DEF ConnectionInv, DialOK
  <2>3. DialOK' /\ GoneInv'
    BY <1>0, <2>1, <2>2 DEF ConnectionInv, DialOK, GoneInv, Looking
  <2>4. ChoiceInv' /\ TlsInv'
    BY <1>0, <2>1, <2>2, MachinesAssumption
       DEF ConnectionInv, ChoiceInv, TlsInv, Chosen, AskedHost
  <2>5. CertDirectory(dial.ask) = First(First(dial.ask.certPath, Given(dial.ask.envCert)), dial.config)
    BY <1>0 DEF CertDirectory, ConnectionInv, ChoiceInv, Chosen
  <2>6. DOMAIN dial'.tls = FileKinds /\ DirectoryThere'
    BY <1>0, <1>2, <2>1, <2>5 DEF NoFiles, FileKinds, DirectoryThere, ConnectionInv, GoneInv
  <2>7. LookInv'
    BY <2>1, <2>2, <2>6, MachinesAssumption DEF LookInv, Seen
  <2>8. NoteInv' /\ PlainContextInv'
    BY <1>0, <2>1, <2>2, MachinesAssumption DEF ConnectionInv, NoteInv, PlainContextInv
  <2> QED BY <2>3, <2>4, <2>7, <2>8 DEF ConnectionInv
<1> QED BY <1>1, <1>2 DEF LookForDirectory

\* One look, whichever, finds what is named or what is in its place.
LEMMA LookKept ==
    ASSUME ConnectionInv, NEW what \in FileKinds, NEW there \in {"cert", "key", "looked"},
           Look(what, there),
           there = "cert" => what = "ca", there = "key" => what = "cert",
           there = "looked" => what = "key"
    PROVE  ConnectionInv'
<1> DEFINE named == IF dial.context = None THEN dial.ask[what] ELSE None
           own == OwnFile(what)
           found == IF named # None THEN named ELSE IF own \in disk.files THEN own ELSE None
<1>0. dial.at = what /\ UNCHANGED <<disk, gone>> /\ dial.at \in Looking /\ dial.how = None
  BY DEF Look, Looking, FileKinds, ConnectionInv, DialOK
<1>1. CASE DialEnds("failed")
  BY <1>0, <1>1, DialGivesUp DEF FileKinds
<1>2. CASE dial' = [dial EXCEPT !.at = there, !.tls[what] = found]
  <2>1. DOMAIN dial.tls = FileKinds /\ DirectoryThere
    BY <1>0 DEF ConnectionInv, LookInv
  <2>2. /\ DOMAIN dial' = DialFields /\ dial'.at = there /\ dial'.how = dial.how
        /\ dial'.config = dial.config /\ dial'.context = dial.context /\ dial'.host = dial.host
        /\ dial'.ask = dial.ask /\ dial'.said = dial.said /\ dial'.note = dial.note
        /\ dial'.tls = [dial.tls EXCEPT ![what] = found]
    BY <1>2 DEF ConnectionInv, DialOK, DialFields
  <2>3. dial'.how = None /\ dial'.said = None
    BY <1>0, <2>2 DEF ConnectionInv, DialOK, Looking
  <2>4. DialOK' /\ GoneInv'
    BY <1>0, <2>2, <2>3 DEF ConnectionInv, DialOK, GoneInv, Looking
  <2>5. ChoiceInv' /\ TlsInv'
    BY <1>0, <2>2, <2>3, MachinesAssumption
       DEF ConnectionInv, ChoiceInv, TlsInv, Chosen, AskedHost, Looking
  <2>6. DOMAIN dial'.tls = FileKinds /\ DirectoryThere'
    BY <1>0, <2>1, <2>2 DEF DirectoryThere
  <2>7. own = Place(what)
    BY <1>0 DEF OwnFile, Place, CertDirectory, ConnectionInv, ChoiceInv, Chosen, Looking
  <2>8. dial'.tls[what] = found
    BY <2>1, <2>2
  <2>9. Place(what)' = Place(what)
    BY <2>2 DEF Place
  <2>10. AsNamed(what)'
    <3> HIDE DEF own
    <3>1. CASE dial.context = None /\ dial.ask[what] # None
      BY <3>1, <2>2, <2>8 DEF AsNamed
    <3>2. CASE ~(dial.context = None /\ dial.ask[what] # None)
      <4>1. found = IF own \in disk.files THEN own ELSE None
        BY <3>2
      <4> QED BY <1>0, <2>2, <2>7, <2>8, <2>9, <3>2, <4>1 DEF AsNamed
    <3> QED BY <3>1, <3>2
  <2>11. ASSUME NEW k \in FileKinds, k # what, Seen(k)' PROVE AsNamed(k)'
    <3>1. Seen(k)
      BY <1>0, <2>2, <2>3, <2>11, MachinesAssumption DEF Seen, FileKinds
    <3>2. dial'.tls[k] = dial.tls[k]
      BY <2>1, <2>2, <2>11
    <3>3. AsNamed(k)
      BY <3>1 DEF ConnectionInv, LookInv
    <3> QED BY <1>0, <2>2, <3>2, <3>3, AsNamedKept
  <2>12. LookInv'
    BY <2>2, <2>3, <2>6, <2>10, <2>11, MachinesAssumption DEF LookInv
  <2>13. NoteInv' /\ PlainContextInv'
    BY <1>0, <2>2, <2>3, MachinesAssumption DEF ConnectionInv, NoteInv, PlainContextInv, FileKinds
  <2> QED BY <2>4, <2>5, <2>12, <2>13 DEF ConnectionInv
<1> QED BY <1>1, <1>2 DEF Look

LEMMA FlagTlsKept ==
    ASSUME ConnectionInv, FlagTls
    PROVE  ConnectionInv'
<1>0. dial.at = "looked" /\ UNCHANGED <<disk, gone>>
  BY DEF FlagTls
<1>1. CASE DialEnds("failed")
  BY <1>0, <1>1, DialGivesUp
<1>2. CASE /\ ~HalfPair
           /\ dial' = [dial EXCEPT !.at = "read",
                        !.note = IF dial.tls.ca = None THEN "system trust" ELSE None]
  <2>1. /\ Settled /\ dial'.at = "read" /\ dial'.how = dial.how /\ dial'.said = dial.said
        /\ dial'.note = "system trust" => dial.tls.ca = None
    BY <1>2, MachinesAssumption DEF ConnectionInv, DialOK, DialFields, Settled
  <2> QED BY <1>0, <1>2, <2>1, DialReads
<1> QED BY <1>1, <1>2 DEF FlagTls

LEMMA ReadCertificatesKept ==
    ASSUME ConnectionInv, ReadCertificates
    PROVE  ConnectionInv'
<1>0. dial.at = "read" /\ UNCHANGED <<disk, gone>>
  BY DEF ReadCertificates
<1>1. CASE DialEnds("failed")
  BY <1>0, <1>1, DialGivesUp
<1>2. CASE DialEnds("tls")
  <2>1. /\ Settled /\ dial'.at = "over" /\ dial'.how = "tls" /\ dial'.said = dial.said
        /\ dial'.note = dial.note
    BY <1>2, DialEndsEffects DEF ConnectionInv
  <2>2. DialOK' /\ GoneInv'
    BY <1>0, <2>1, MachinesAssumption DEF ConnectionInv, DialOK, GoneInv, Settled
  <2>3. ChoiceInv' /\ TlsInv'
    BY <1>0, <2>1 DEF ConnectionInv, ChoiceInv, TlsInv, Chosen, AskedHost, Settled, Looking
  <2>4. ASSUME NEW what \in FileKinds PROVE AsNamed(what)'
    BY <1>0, <2>1, AsNamedKept DEF ConnectionInv, LookInv, Seen, Settled
  <2>5. DirectoryThere' = DirectoryThere
    BY <1>0, <2>1 DEF DirectoryThere, Settled
  <2>6. LookInv'
    BY <1>0, <2>1, <2>4, <2>5 DEF ConnectionInv, LookInv, Settled, Looking
  <2>7. NoteInv' /\ PlainContextInv'
    BY <1>0, <2>1 DEF ConnectionInv, NoteInv, PlainContextInv, Settled
  <2> QED BY <2>2, <2>3, <2>6, <2>7 DEF ConnectionInv
<1> QED BY <1>1, <1>2 DEF ReadCertificates

\* The first requests change only what is said of them.
LEMMA RequestsKept ==
    ASSUME ConnectionInv, Negotiate \/ CheckDaemonOs
    PROVE  ConnectionInv'
<1>1. PICK said :
          /\ dial' = [dial EXCEPT !.said = said]
          /\ said = "system trust" => dial.note = "system trust"
  BY MachinesAssumption DEF Negotiate, CheckDaemonOs, Explain
<1>2. /\ Settled /\ dial'.at = dial.at /\ dial'.how = dial.how /\ dial'.said = said
      /\ dial'.note = dial.note /\ UNCHANGED <<disk, gone>>
  BY <1>1 DEF ConnectionInv, DialOK, DialFields, Settled, Negotiate, CheckDaemonOs
<1>3. dial.at = "over"
  BY MachinesAssumption DEF Negotiate, CheckDaemonOs, ConnectionInv, DialOK
<1>4. DialOK' /\ GoneInv'
  BY <1>2, <1>3 DEF ConnectionInv, DialOK, GoneInv, Settled
<1>5. ChoiceInv' /\ TlsInv'
  BY <1>2 DEF ConnectionInv, ChoiceInv, TlsInv, Chosen, AskedHost, Settled
<1>6. NoteInv'
  BY <1>1, <1>2, <1>3 DEF ConnectionInv, NoteInv, Settled
<1>7. LookInv' /\ PlainContextInv'
  BY <1>2, SameLooks
<1> QED BY <1>4, <1>5, <1>6, <1>7 DEF ConnectionInv

\* What goes away while the certificates are looked for was there when the first
\* look was made.
LEMMA VanishKept ==
    ASSUME ConnectionInv, Vanish
    PROVE  ConnectionInv'
<1>1. /\ UNCHANGED dial /\ dial.at # "over" /\ disk'.dirs \cap gone' = {}
      /\ dial.at \in Looking => gone' = gone
      /\ {"dirs", "files", "vanished"} \subseteq DOMAIN disk'
      /\ disk'.files \subseteq disk.files
  BY DEF ConnectionInv, DialOK, GoneInv, Vanish
<1>2. DialOK' /\ GoneInv'
  BY <1>1 DEF ConnectionInv, DialOK, GoneInv
<1>3. ChoiceInv' /\ TlsInv'
  BY <1>1 DEF ConnectionInv, ChoiceInv, TlsInv, Chosen, AskedHost
<1>4. dial.how = None
  BY <1>1 DEF ConnectionInv, DialOK
<1>5. LookInv'
  <2>1. dial.at \in Looking => DirectoryThere' = DirectoryThere
    BY <1>1 DEF DirectoryThere
  <2>2. ASSUME NEW what \in FileKinds, Seen(what) PROVE AsNamed(what)'
    BY <1>1, <2>2, AsNamedKept DEF ConnectionInv, LookInv
  <2>3. \A what \in FileKinds : Seen(what)' = Seen(what)
    BY <1>1 DEF Seen
  <2> QED BY <1>1, <1>4, <2>1, <2>2, <2>3, MachinesAssumption DEF ConnectionInv, LookInv
<1>6. NoteInv' /\ PlainContextInv'
  BY <1>1, <1>4, MachinesAssumption DEF ConnectionInv, NoteInv, PlainContextInv
<1> QED BY <1>2, <1>3, <1>5, <1>6 DEF ConnectionInv

LEMMA ConnectionInvariant == ConnectionSpec => []ConnectionInv
<1>1. ConnectionInv /\ [ConnectionStep]_connectionVars => ConnectionInv'
  <2> SUFFICES ASSUME ConnectionInv, [ConnectionStep]_connectionVars PROVE ConnectionInv'
    OBVIOUS
  <2>1. CASE UNCHANGED connectionVars
    <3>1. UNCHANGED <<dial, disk, gone>>
      BY <2>1 DEF connectionVars
    <3>2. DialOK' /\ GoneInv' /\ NoteInv'
      BY <3>1 DEF ConnectionInv, DialOK, GoneInv, NoteInv
    <3>3. ChoiceInv' /\ TlsInv'
      BY <3>1 DEF ConnectionInv, ChoiceInv, TlsInv, Chosen, AskedHost
    <3>4. Settled
      BY <3>1 DEF ConnectionInv, DialOK, Settled
    <3>5. LookInv' /\ PlainContextInv'
      BY <3>1, <3>4, SameLooks
    <3> QED BY <3>2, <3>3, <3>5 DEF ConnectionInv
  <2>2. CASE LookForCa
    BY <2>2, LookKept DEF LookForCa, FileKinds
  <2>3. CASE LookForCert
    BY <2>3, LookKept DEF LookForCert, FileKinds
  <2>4. CASE LookForKey
    BY <2>4, LookKept DEF LookForKey, FileKinds
  <2> QED BY <2>1, <2>2, <2>3, <2>4, CheckOptionsKept, ChooseContextKept, ReadContextKept,
          ContextTlsKept, EnableTlsKept, LookForDirectoryKept, FlagTlsKept,
          ReadCertificatesKept, RequestsKept, VanishKept
          DEF ConnectionStep
<1> QED BY InitConnection, <1>1, PTL DEF ConnectionSpec

\* Whatever options, variables and contexts a machine has, and whatever goes from
\* its disk between one look at it and the next, a connection that is made is to the
\* daemon that was asked for, over TLS if TLS was, with the certificates that were
\* named (resolve_host, resolve_context_name, tls_enabled, docker_context_endpoint,
\* flag_tls_settings, connect).
THEOREM ConnectionAsAskedHolds == ConnectionSpec => []ConnectionAsAsked
<1>1. ConnectionInv => ConnectionAsAsked
  <2> SUFFICES ASSUME ConnectionInv, dial.how \in {"plain", "tls"} PROVE ConnectionAsAsked
    BY DEF ConnectionAsAsked
  <2>1. Chosen
    BY DEF Chosen
  <2>2. ASSUME dial.context = None
        PROVE  /\ dial.how = "tls" <=>
                    dial.ask.tls \/ dial.ask.envVerify = "yes" \/ dial.host = "https"
               /\ dial.ask.tls \/ dial.ask.envVerify \in {None, "", "yes", "no"}
    BY <2>1, <2>2, MachinesAssumption DEF ConnectionInv, TlsInv, TlsEnabled, Given
  <2>3. dial.how = "tls" => CertificatesAsNamed
    <3> SUFFICES ASSUME dial.how = "tls" PROVE CertificatesAsNamed
      OBVIOUS
    <3>1. \A what \in FileKinds : AsNamed(what)
      BY DEF ConnectionInv, LookInv, Seen
    <3>2. DirectoryThere /\ (dial.tls.cert = None) = (dial.tls.key = None)
      BY DEF ConnectionInv, LookInv
    <3>3. dial.said = "system trust" => dial.tls.ca = None
      BY DEF ConnectionInv, NoteInv
    <3> QED BY <3>1, <3>2, <3>3 DEF CertificatesAsNamed, DirectoryThere, FileKinds
  <2>4. dial.context # None /\ dial.how = "plain" =>
            /\ dial.host # "https" /\ dial.note = None
            /\ \A what \in {"ca", "cert", "key"} : Place(what) \notin disk.files
    BY DEF ConnectionInv, PlainContextInv, FileKinds
  <2> QED BY <2>1, <2>2, <2>3, <2>4 DEF ConnectionAsAsked, ConnectionInv, ChoiceInv, AskedHost
<1> QED BY ConnectionInvariant, <1>1, PTL


----------------------------------------------------------------------------
(* Caches and leftovers.                                                   *)

ProcFields == {"ask", "at", "key", "found", "todo", "chosen", "done", "failed", "how"}

\* Before a process has its key, and before a run has created what it creates.
Early(x) == x.at \in {"begin", "key", "no key", "writing"}
Unmounted(x) == Early(x) \/ x.at = "run"

PlaceInv(x) ==
    /\ x.ask.verb \in {"run", "caches", "resources"}
    /\ \/ x.at \in {"begin", "over"}
       \/ x.at \in {"key", "no key", "writing"} /\ x.ask.verb # "resources"
       \/ x.at \in {"run", "running"} /\ x.ask.verb = "run"
       \/ x.at \in {"caches", "decide", "remove caches"} /\ x.ask.verb = "caches"
       \/ x.at \in {"resources", "networks", "remove"} /\ x.ask.verb = "resources"
    /\ x.at # "over" => x.how = None
    /\ x.at \in {"decide", "remove caches"} => x.ask.clean

KeyInv(x) == x.key # "shared" /\ (Early(x) => x.key = None)

CacheAsAsked(x, c, held) ==
    /\ c.owner = "shared" => x.ask.scope = "shared" /\ c.name \in x.ask.names
    /\ c.owner # "shared" =>
          /\ x.ask.scope # "shared"
          /\ c.owner = IF c.store = "volume" THEN x.key ELSE "here"
          /\ x.ask.names = {} \/ c.name \in x.ask.names
    /\ c.store = "directory" => c \notin held.caches

LeftoverAsAsked(x, r) ==
    /\ Leftover(r).project # None
    /\ x.ask.project \in {None, Leftover(r).project}
    /\ Leftover(r).age >= x.ask.older

\* What is chosen is as asked for.
ChosenInv(x, held) ==
    /\ x.ask.verb = "caches" => \A c \in x.chosen : CacheAsAsked(x, c, held)
    /\ x.ask.verb = "resources" => \A r \in x.found \cup x.chosen : LeftoverAsAsked(x, r)

\* What is chosen is what has been removed, what could not be and what is to be.
WorkInv(x) ==
    /\ x.done \cup x.todo \subseteq x.chosen
    /\ x.at \notin {"remove caches", "remove", "over"} =>
          x.chosen = {} /\ x.done = {} /\ x.todo = {} /\ x.failed = {}
    /\ x.at = "remove caches" => x.chosen = x.done \cup x.todo /\ x.failed = {}
    /\ x.at = "remove" /\ x.ask.clean => x.chosen = x.done \cup x.failed \cup x.todo
    /\ x.ask.verb = "run" => x.done = {}

EndInv(x) ==
    /\ x.how = "ok" /\ x.ask.verb # "run" /\ x.ask.clean => x.done = x.chosen
    /\ x.how = "failed" /\ x.ask.verb # "run" => x.failed # {} \/ x.key = None

\* A network that could not be removed is stuck, or a container is on it that has
\* not been removed, and never will be: the containers have all had their turn.
BlockedInv(x, held) ==
    x.ask.verb = "resources" =>
        \A r \in x.failed :
            \/ r \in held.resources
            \/ \E c \in EverThere : r \in Leftover(c).on /\ c \notin x.done \cup x.todo

ProcInv(x, held) ==
    /\ DOMAIN x = ProcFields
    /\ PlaceInv(x) /\ KeyInv(x) /\ ChosenInv(x, held) /\ WorkInv(x) /\ EndInv(x)
    /\ BlockedInv(x, held)

ThingOK(c) ==
    /\ c \in EverThere
    /\ \A r \in Leftover(c).on : ~Leftover(c).network /\ Leftover(r).network

\* What there is and what there may be.
ThingsInv ==
    /\ \A c \in resources : ThingOK(c)
    /\ \A p \in Procs : \A c \in proc[p].ask.creates : ThingOK(c)

\* What a run creates is new, to every other process.
NewInv ==
    \A p \in Procs : Unmounted(proc[p]) =>
        \A c \in proc[p].ask.creates :
            /\ c \notin resources
            /\ \A q \in Procs : proc[q].ask.verb = "resources" =>
                                    c \notin proc[q].found \cup proc[q].chosen
CreatesInv ==
    \A p, q \in Procs : p # q => proc[p].ask.creates \cap proc[q].ask.creates = {}

\* What has been removed does not come back.
RemovedInv ==
    \A p \in Procs : proc[p].ask.verb = "resources" => proc[p].done \cap resources = {}

UpkeepInv ==
    /\ DOMAIN proc = Procs /\ proc = [p \in Procs |-> proc[p]]
    /\ keyFile # "shared"
    /\ \A p \in Procs : ProcInv(proc[p], stuck)
    /\ ThingsInv /\ NewInv /\ CreatesInv /\ RemovedInv

LEMMA InitUpkeep == UpkeepInit => UpkeepInv
<1> SUFFICES ASSUME UpkeepInit PROVE UpkeepInv
  OBVIOUS
<1>1. PICK s \in Situations :
        /\ keyFile = s.keyFile /\ resources = s.resources /\ stuck = s.stuck
        /\ proc = [p \in Procs |->
              [ask |-> s.asks[p], at |-> "begin", key |-> None, found |-> {}, todo |-> {},
               chosen |-> {}, done |-> {}, failed |-> {}, how |-> None]]
  BY DEF UpkeepInit
<1>2. SituationOK(s)
  BY <1>1, UpkeepAssumption
<1>3. ASSUME NEW p \in Procs
      PROVE  /\ DOMAIN proc[p] = ProcFields /\ proc[p].ask = s.asks[p] /\ proc[p].at = "begin"
             /\ proc[p].key = None /\ proc[p].found = {} /\ proc[p].todo = {}
             /\ proc[p].chosen = {} /\ proc[p].done = {} /\ proc[p].failed = {}
             /\ proc[p].how = None
  <2>1. proc[p] = [ask |-> s.asks[p], at |-> "begin", key |-> None, found |-> {}, todo |-> {},
                   chosen |-> {}, done |-> {}, failed |-> {}, how |-> None]
    BY <1>1
  <2> QED BY <2>1 DEF ProcFields
<1>4. ASSUME NEW p \in Procs PROVE ProcInv(proc[p], stuck)
  <2>1. s.asks[p].verb \in {"run", "caches", "resources"}
    BY <1>2 DEF SituationOK
  <2>2. PlaceInv(proc[p]) /\ KeyInv(proc[p])
    BY <1>3, <2>1, UpkeepAssumption DEF PlaceInv, KeyInv, Early
  <2>3. ChosenInv(proc[p], stuck) /\ WorkInv(proc[p]) /\ BlockedInv(proc[p], stuck)
    BY <1>3, <2>1 DEF ChosenInv, WorkInv, BlockedInv
  <2>4. EndInv(proc[p])
    BY <1>3 DEF EndInv
  <2> QED BY <1>3, <2>2, <2>3, <2>4 DEF ProcInv
<1>5. ThingsInv
  <2>1. \A c \in resources : ThingOK(c)
    BY <1>1, <1>2 DEF ThingOK, EverThere, SituationOK
  <2>2. ASSUME NEW p \in Procs, NEW c \in s.asks[p].creates PROVE ThingOK(c)
    BY <1>2 DEF ThingOK, EverThere, SituationOK
  <2> QED BY <1>3, <2>1, <2>2 DEF ThingsInv
<1>6. CreatesInv
  BY <1>2, <1>3 DEF CreatesInv, SituationOK
<1>7. NewInv /\ RemovedInv
  BY <1>1, <1>2, <1>3 DEF NewInv, RemovedInv, SituationOK
<1>8. keyFile # "shared"
  BY <1>1, <1>2 DEF SituationOK
<1> QED BY <1>1, <1>4, <1>5, <1>6, <1>7, <1>8 DEF UpkeepInv

\* A step of one process, as the others see it.
Moved(p, y) ==
    /\ proc' = [proc EXCEPT ![p] = y]
    /\ stuck' = stuck /\ keyFile' # "shared"
    /\ y.ask = proc[p].ask
    /\ Unmounted(y) => Unmounted(proc[p])
    /\ \A c \in resources' :
          c \notin resources => c \in y.ask.creates /\ Unmounted(proc[p]) /\ ~Unmounted(y)
    /\ y.ask.verb = "resources" =>
          /\ y.found \cup y.chosen \subseteq proc[p].found \cup proc[p].chosen \cup resources
          /\ y.done \cap resources' = {}

LEMMA MovedKept ==
    ASSUME UpkeepInv, NEW p \in Procs, NEW y, Moved(p, y), ProcInv(y, stuck)
    PROVE  UpkeepInv'
<1>1. /\ DOMAIN proc' = Procs /\ proc'[p] = y
      /\ \A q \in Procs : q # p => proc'[q] = proc[q]
      /\ proc' = [q \in Procs |-> proc'[q]]
  BY DEF UpkeepInv, Moved
<1>2. \A q \in Procs : ProcInv(proc'[q], stuck')
  BY <1>1 DEF UpkeepInv, Moved
<1>3. \A q \in Procs : proc'[q].ask = proc[q].ask
  BY <1>1 DEF Moved
<1>4. ThingsInv' /\ CreatesInv'
  BY <1>1, <1>3 DEF UpkeepInv, ThingsInv, CreatesInv, Moved
<1>5. NewInv'
  <2> SUFFICES ASSUME NEW a \in Procs, Unmounted(proc'[a]), NEW c \in proc[a].ask.creates
               PROVE  /\ c \notin resources'
                      /\ \A q \in Procs : proc[q].ask.verb = "resources" =>
                                              c \notin proc'[q].found \cup proc'[q].chosen
    BY <1>3 DEF NewInv
  <2>1. Unmounted(proc[a])
    BY <1>1 DEF Moved
  <2>2. /\ c \notin resources
        /\ \A q \in Procs : proc[q].ask.verb = "resources" =>
                                c \notin proc[q].found \cup proc[q].chosen
    BY <2>1 DEF UpkeepInv, NewInv
  <2>3. a # p => c \notin proc[p].ask.creates
    BY DEF UpkeepInv, CreatesInv
  <2>4. c \notin resources'
    BY <1>1, <2>2, <2>3 DEF Moved
  <2>5. ASSUME NEW q \in Procs, proc[q].ask.verb = "resources"
        PROVE  c \notin proc'[q].found \cup proc'[q].chosen
    <3>1. CASE q = p
      BY <1>1, <2>2, <2>5, <3>1 DEF Moved
    <3>2. CASE q # p
      BY <1>1, <2>2, <2>5, <3>2
    <3> QED BY <3>1, <3>2
  <2> QED BY <2>4, <2>5
<1>6. RemovedInv'
  <2> SUFFICES ASSUME NEW q \in Procs, proc[q].ask.verb = "resources"
               PROVE  proc'[q].done \cap resources' = {}
    BY <1>3 DEF RemovedInv
  <2>1. CASE q = p
    BY <1>1, <2>1 DEF Moved
  <2>2. CASE q # p
    <3>1. proc[q].done \cap resources = {} /\ proc[q].done \subseteq proc[q].chosen
      BY DEF UpkeepInv, RemovedInv, ProcInv, WorkInv
    <3>2. \A c \in resources' \ resources : c \notin proc[q].chosen
      BY DEF UpkeepInv, NewInv, Moved
    <3> QED BY <1>1, <2>2, <3>1, <3>2
  <2> QED BY <2>1, <2>2
<1> QED BY <1>1, <1>2, <1>4, <1>5, <1>6 DEF UpkeepInv, Moved


\* Steps that change nothing of what is chosen or removed: where a process is,
\* and with what key.
LEMMA ProcGoes ==
    ASSUME UpkeepInv, NEW p \in Procs, NEW y,
           DOMAIN y = ProcFields, y.ask = proc[p].ask, y.found = proc[p].found,
           y.todo = proc[p].todo, y.chosen = proc[p].chosen, y.done = proc[p].done,
           y.failed = proc[p].failed, PlaceInv(y), KeyInv(y), EndInv(y),
           proc[p].chosen # {} => y.key = proc[p].key,
           y.at \in {"remove caches", "remove"} => y.at = proc[p].at,
           y.at = "over" \/ proc[p].at \notin {"remove caches", "remove", "over"}
    PROVE  ProcInv(y, stuck)
<1>1. ProcInv(proc[p], stuck)
  BY DEF UpkeepInv
<1>2. WorkInv(y)
  BY <1>1 DEF ProcInv, WorkInv
<1>3. BlockedInv(y, stuck)
  BY <1>1 DEF ProcInv, BlockedInv
<1>4. \A c \in y.chosen : y.key = proc[p].key
  OBVIOUS
<1>5. ChosenInv(y, stuck)
  BY <1>1, <1>4 DEF ProcInv, ChosenInv, CacheAsAsked, LeftoverAsAsked
<1> QED BY <1>2, <1>3, <1>5 DEF ProcInv

LEMMA MovesQuietly ==
    ASSUME UpkeepInv, NEW p \in Procs, NEW y,
           proc' = [proc EXCEPT ![p] = y], UNCHANGED <<resources, stuck>>, keyFile' # "shared",
           y.ask = proc[p].ask, y.found = proc[p].found, y.chosen = proc[p].chosen,
           y.done = proc[p].done, Unmounted(y) => Unmounted(proc[p])
    PROVE  Moved(p, y)
<1>1. y.ask.verb = "resources" => y.done \cap resources' = {}
  BY DEF UpkeepInv, RemovedInv
<1> QED BY <1>1 DEF Moved

LEMMA BeginKept ==
    ASSUME UpkeepInv, NEW p \in Procs, Begin(p)
    PROVE  UpkeepInv'
<1> DEFINE place == IF NeedsKey(Ask(p)) THEN "key" ELSE Ask(p).verb
           y == [proc[p] EXCEPT !.at = place]
<1>1. ProcInv(proc[p], stuck) /\ proc[p].at = "begin"
  BY DEF UpkeepInv, Begin, At
<1>2. /\ DOMAIN y = ProcFields /\ y.ask = proc[p].ask /\ y.at = place /\ y.key = proc[p].key
      /\ y.found = proc[p].found /\ y.todo = proc[p].todo /\ y.chosen = proc[p].chosen
      /\ y.done = proc[p].done /\ y.failed = proc[p].failed /\ y.how = proc[p].how
  BY <1>1 DEF ProcInv, ProcFields
<1>3. proc' = [proc EXCEPT ![p] = y] /\ UNCHANGED <<keyFile, resources, stuck>>
  BY DEF Begin, Goes
<1>4. \/ place = "key" /\ proc[p].ask.verb # "resources"
      \/ place = proc[p].ask.verb /\ place \in {"run", "caches", "resources"}
  BY <1>1 DEF ProcInv, PlaceInv, NeedsKey, Ask
<1> HIDE DEF y, place
<1>5. PlaceInv(y) /\ KeyInv(y) /\ EndInv(y)
  BY <1>1, <1>2, <1>4 DEF ProcInv, PlaceInv, KeyInv, EndInv, Early
<1>6. ProcInv(y, stuck)
  BY <1>1, <1>2, <1>4, <1>5, ProcGoes DEF ProcInv, WorkInv
<1>7. Moved(p, y)
  <2>1. Unmounted(proc[p]) /\ keyFile' # "shared"
    BY <1>1, <1>3 DEF Unmounted, Early, UpkeepInv
  <2> QED BY <1>2, <1>3, <2>1, MovesQuietly
<1> QED BY <1>6, <1>7, MovedKept


\* Reading, opening and writing the key are steps of a process that has none.
LEMMA KeyKept ==
    ASSUME UpkeepInv, NEW p \in Procs, NEW y, proc' = [proc EXCEPT ![p] = y],
           UNCHANGED <<resources, stuck>>, keyFile' # "shared",
           DOMAIN y = ProcFields, y.ask = proc[p].ask, y.found = proc[p].found,
           y.todo = proc[p].todo, y.chosen = proc[p].chosen, y.done = proc[p].done,
           y.failed = proc[p].failed, y.key # "shared",
           proc[p].at \in {"key", "no key", "writing"},
           \/ y.at = proc[p].ask.verb /\ y.how = proc[p].how
           \/ y.at \in {"no key", "writing"} /\ y.how = proc[p].how /\ y.key = proc[p].key
           \/ y.at = "over" /\ y.how = "failed" /\ y.key = proc[p].key
    PROVE  UpkeepInv'
<1>1. ProcInv(proc[p], stuck)
  BY DEF UpkeepInv
<1>2. /\ proc[p].ask.verb \in {"run", "caches"} /\ proc[p].key = None /\ proc[p].how = None
      /\ proc[p].chosen = {} /\ proc[p].done = {} /\ proc[p].failed = {}
  BY <1>1 DEF ProcInv, PlaceInv, KeyInv, Early, WorkInv
<1>3. PlaceInv(y) /\ KeyInv(y)
  BY <1>1, <1>2 DEF ProcInv, PlaceInv, KeyInv, Early
<1>4. EndInv(y)
  BY <1>1, <1>2, UpkeepAssumption DEF ProcInv, EndInv
<1>5. ProcInv(y, stuck)
  BY <1>2, <1>3, <1>4, ProcGoes
<1>6. Unmounted(proc[p])
  BY DEF Unmounted, Early
<1>7. Moved(p, y)
  BY <1>6, MovesQuietly
<1> QED BY <1>5, <1>7, MovedKept

LEMMA ReadKeyKept ==
    ASSUME UpkeepInv, NEW p \in Procs, ReadKey(p)
    PROVE  UpkeepInv'
<1>1. /\ ProcInv(proc[p], stuck) /\ proc[p].at = "key" /\ keyFile # "shared"
      /\ UNCHANGED <<keyFile, resources, stuck>> /\ proc[p].key # "shared"
  BY DEF UpkeepInv, ReadKey, At, ProcInv, KeyInv
<1>2. CASE Goes(p, "no key")
  <2> DEFINE y == [proc[p] EXCEPT !.at = "no key"]
  <2>1. /\ DOMAIN y = ProcFields /\ y.ask = proc[p].ask /\ y.at = "no key"
        /\ y.key = proc[p].key /\ y.found = proc[p].found /\ y.todo = proc[p].todo
        /\ y.chosen = proc[p].chosen /\ y.done = proc[p].done /\ y.failed = proc[p].failed
        /\ y.how = proc[p].how
    BY <1>1 DEF ProcInv, ProcFields
  <2>2. proc' = [proc EXCEPT ![p] = y]
    BY <1>2 DEF Goes
  <2> HIDE DEF y
  <2> QED BY <1>1, <2>1, <2>2, KeyKept
<1>3. CASE Ends(p, "failed")
  <2> DEFINE y == [proc[p] EXCEPT !.at = "over", !.how = "failed"]
  <2>1. /\ DOMAIN y = ProcFields /\ y.ask = proc[p].ask /\ y.at = "over" /\ y.key = proc[p].key
        /\ y.found = proc[p].found /\ y.todo = proc[p].todo /\ y.chosen = proc[p].chosen
        /\ y.done = proc[p].done /\ y.failed = proc[p].failed /\ y.how = "failed"
    BY <1>1 DEF ProcInv, ProcFields
  <2>2. proc' = [proc EXCEPT ![p] = y]
    BY <1>3 DEF Ends
  <2> HIDE DEF y
  <2> QED BY <1>1, <2>1, <2>2, KeyKept
<1>4. CASE proc' = [proc EXCEPT ![p].key = keyFile, ![p].at = Ask(p).verb]
  <2> DEFINE y == [proc[p] EXCEPT !.key = keyFile, !.at = proc[p].ask.verb]
  <2>1. /\ DOMAIN y = ProcFields /\ y.ask = proc[p].ask /\ y.at = proc[p].ask.verb
        /\ y.key = keyFile /\ y.found = proc[p].found /\ y.todo = proc[p].todo
        /\ y.chosen = proc[p].chosen /\ y.done = proc[p].done /\ y.failed = proc[p].failed
        /\ y.how = proc[p].how
    BY <1>1 DEF ProcInv, ProcFields
  <2>2. proc' = [proc EXCEPT ![p] = y]
    BY <1>4 DEF Ask
  <2> HIDE DEF y
  <2> QED BY <1>1, <2>1, <2>2, KeyKept
<1> QED BY <1>2, <1>3, <1>4 DEF ReadKey

LEMMA OpenKeyKept ==
    ASSUME UpkeepInv, NEW p \in Procs, OpenKey(p)
    PROVE  UpkeepInv'
<1>1. /\ ProcInv(proc[p], stuck) /\ proc[p].at = "no key" /\ keyFile' # "shared"
      /\ UNCHANGED <<resources, stuck>> /\ proc[p].key # "shared"
  BY DEF UpkeepInv, OpenKey, At, ProcInv, KeyInv
<1>2. CASE Goes(p, "writing")
  <2> DEFINE y == [proc[p] EXCEPT !.at = "writing"]
  <2>1. /\ DOMAIN y = ProcFields /\ y.ask = proc[p].ask /\ y.at = "writing"
        /\ y.key = proc[p].key /\ y.found = proc[p].found /\ y.todo = proc[p].todo
        /\ y.chosen = proc[p].chosen /\ y.done = proc[p].done /\ y.failed = proc[p].failed
        /\ y.how = proc[p].how
    BY <1>1 DEF ProcInv, ProcFields
  <2>2. proc' = [proc EXCEPT ![p] = y]
    BY <1>2 DEF Goes
  <2> HIDE DEF y
  <2> QED BY <1>1, <2>1, <2>2, KeyKept
<1>3. CASE Ends(p, "failed")
  <2> DEFINE y == [proc[p] EXCEPT !.at = "over", !.how = "failed"]
  <2>1. /\ DOMAIN y = ProcFields /\ y.ask = proc[p].ask /\ y.at = "over" /\ y.key = proc[p].key
        /\ y.found = proc[p].found /\ y.todo = proc[p].todo /\ y.chosen = proc[p].chosen
        /\ y.done = proc[p].done /\ y.failed = proc[p].failed /\ y.how = "failed"
    BY <1>1 DEF ProcInv, ProcFields
  <2>2. proc' = [proc EXCEPT ![p] = y]
    BY <1>3 DEF Ends
  <2> HIDE DEF y
  <2> QED BY <1>1, <2>1, <2>2, KeyKept
<1> QED BY <1>2, <1>3 DEF OpenKey

LEMMA WriteKeyKept ==
    ASSUME UpkeepInv, NEW p \in Procs, WriteKey(p)
    PROVE  UpkeepInv'
<1> DEFINE y == [proc[p] EXCEPT !.key = KeyOf(p), !.at = proc[p].ask.verb]
<1>1. /\ ProcInv(proc[p], stuck) /\ proc[p].at = "writing" /\ keyFile' # "shared"
      /\ UNCHANGED <<resources, stuck>> /\ KeyOf(p) # "shared"
  BY UpkeepAssumption DEF UpkeepInv, WriteKey, At
<1>2. /\ DOMAIN y = ProcFields /\ y.ask = proc[p].ask /\ y.at = proc[p].ask.verb
      /\ y.key = KeyOf(p) /\ y.found = proc[p].found /\ y.todo = proc[p].todo
      /\ y.chosen = proc[p].chosen /\ y.done = proc[p].done /\ y.failed = proc[p].failed
      /\ y.how = proc[p].how
  BY <1>1 DEF ProcInv, ProcFields
<1>3. proc' = [proc EXCEPT ![p] = y]
  BY DEF WriteKey, Ask
<1> HIDE DEF y
<1> QED BY <1>1, <1>2, <1>3, KeyKept

LEMMA MountKept ==
    ASSUME UpkeepInv, NEW p \in Procs, Mount(p)
    PROVE  UpkeepInv'
<1> DEFINE y == [proc[p] EXCEPT !.at = "running"]
<1>1. ProcInv(proc[p], stuck) /\ proc[p].at = "run" /\ proc[p].ask.verb = "run"
  BY DEF UpkeepInv, Mount, At, ProcInv, PlaceInv
<1>2. /\ DOMAIN y = ProcFields /\ y.ask = proc[p].ask /\ y.at = "running" /\ y.key = proc[p].key
      /\ y.found = proc[p].found /\ y.todo = proc[p].todo /\ y.chosen = proc[p].chosen
      /\ y.done = proc[p].done /\ y.failed = proc[p].failed /\ y.how = proc[p].how
  BY <1>1 DEF ProcInv, ProcFields
<1>3. /\ proc' = [proc EXCEPT ![p] = y] /\ UNCHANGED <<keyFile, stuck>>
      /\ resources' = resources \cup proc[p].ask.creates
  BY DEF Mount, Goes, Ask
<1> HIDE DEF y
<1>4. PlaceInv(y) /\ KeyInv(y) /\ EndInv(y)
  BY <1>1, <1>2 DEF ProcInv, PlaceInv, KeyInv, EndInv, Early
<1>5. ProcInv(y, stuck)
  BY <1>1, <1>2, <1>4, ProcGoes
<1>6. Moved(p, y)
  BY <1>1, <1>2, <1>3 DEF UpkeepInv, Moved, Unmounted, Early
<1> QED BY <1>5, <1>6, MovedKept

LEMMA RunOverKept ==
    ASSUME UpkeepInv, NEW p \in Procs, RunOver(p)
    PROVE  UpkeepInv'
<1> DEFINE y == [proc[p] EXCEPT !.at = "over", !.how = "ok"]
<1>1. ProcInv(proc[p], stuck) /\ proc[p].at = "running" /\ proc[p].ask.verb = "run"
  BY DEF UpkeepInv, RunOver, At, ProcInv, PlaceInv
<1>2. /\ DOMAIN y = ProcFields /\ y.ask = proc[p].ask /\ y.at = "over" /\ y.key = proc[p].key
      /\ y.found = proc[p].found /\ y.todo = proc[p].todo /\ y.chosen = proc[p].chosen
      /\ y.done = proc[p].done /\ y.failed = proc[p].failed /\ y.how = "ok"
  BY <1>1 DEF ProcInv, ProcFields
<1>3. /\ proc' = [proc EXCEPT ![p] = y] /\ UNCHANGED <<keyFile, stuck>>
      /\ resources' \subseteq resources
  BY DEF RunOver, Ends
<1> HIDE DEF y
<1>4. PlaceInv(y) /\ KeyInv(y) /\ EndInv(y)
  BY <1>1, <1>2 DEF ProcInv, PlaceInv, KeyInv, EndInv, Early
<1>5. ProcInv(y, stuck)
  BY <1>1, <1>2, <1>4, ProcGoes
<1>6. Moved(p, y)
  BY <1>1, <1>2, <1>3 DEF UpkeepInv, Moved, Unmounted, Early
<1> QED BY <1>5, <1>6, MovedKept


\* A step of a clean of caches concerns no container or network.
LEMMA CachesKept ==
    ASSUME UpkeepInv, NEW p \in Procs, NEW y, proc' = [proc EXCEPT ![p] = y],
           UNCHANGED <<keyFile, resources, stuck>>, DOMAIN y = ProcFields,
           y.ask = proc[p].ask, y.ask.verb = "caches", y.key = proc[p].key,
           proc[p].at \in {"caches", "decide", "remove caches"},
           y.at \in {"decide", "remove caches", "over"}, PlaceInv(y), WorkInv(y), EndInv(y),
           \A c \in y.chosen : CacheAsAsked(proc[p], c, stuck)
    PROVE  UpkeepInv'
<1>1. KeyInv(y) /\ BlockedInv(y, stuck)
  BY DEF UpkeepInv, ProcInv, KeyInv, Early, BlockedInv
<1>2. ChosenInv(y, stuck)
  BY DEF ChosenInv, CacheAsAsked
<1>3. ProcInv(y, stuck)
  BY <1>1, <1>2 DEF ProcInv
<1>4. Moved(p, y)
  BY DEF UpkeepInv, Moved, Unmounted, Early
<1> QED BY <1>3, <1>4, MovedKept

LEMMA ListCachesKept ==
    ASSUME UpkeepInv, NEW p \in Procs, ListCaches(p)
    PROVE  UpkeepInv'
<1>1. PICK found : proc' = [proc EXCEPT ![p].found = found,
                               ![p].at = IF Ask(p).clean THEN "decide" ELSE "over",
                               ![p].how = IF Ask(p).clean THEN None ELSE "ok"]
  BY DEF ListCaches
<1> DEFINE y == [proc[p] EXCEPT !.found = found,
                                !.at = IF proc[p].ask.clean THEN "decide" ELSE "over",
                                !.how = IF proc[p].ask.clean THEN None ELSE "ok"]
<1>2. /\ ProcInv(proc[p], stuck) /\ proc[p].at = "caches" /\ proc[p].ask.verb = "caches"
      /\ UNCHANGED <<keyFile, resources, stuck>>
  BY DEF UpkeepInv, ListCaches, At, ProcInv, PlaceInv
<1>3. /\ DOMAIN y = ProcFields /\ y.ask = proc[p].ask
      /\ y.at = (IF proc[p].ask.clean THEN "decide" ELSE "over") /\ y.key = proc[p].key
      /\ y.found = found /\ y.todo = proc[p].todo /\ y.chosen = proc[p].chosen
      /\ y.done = proc[p].done /\ y.failed = proc[p].failed
      /\ y.how = (IF proc[p].ask.clean THEN None ELSE "ok")
  BY <1>2 DEF ProcInv, ProcFields
<1>4. proc' = [proc EXCEPT ![p] = y]
  BY <1>1 DEF Ask
<1> HIDE DEF y
<1>5. PlaceInv(y)
  BY <1>2, <1>3 DEF PlaceInv
<1>6. WorkInv(y) /\ EndInv(y)
  BY <1>2, <1>3, UpkeepAssumption DEF ProcInv, WorkInv, EndInv
<1>7. y.chosen = {}
  BY <1>2, <1>3 DEF ProcInv, WorkInv
<1> QED BY <1>2, <1>3, <1>4, <1>5, <1>6, <1>7, CachesKept

\* Storage may have changed since it was listed: what is selected is as asked for
\* whatever is there now.
LEMMA SelectAsAsked ==
    ASSUME UpkeepInv, NEW p \in Procs, ~Refused(p), NEW c \in Select(p)
    PROVE  CacheAsAsked(proc[p], c, stuck)
<1>1. proc[p].key # "shared"
  BY DEF UpkeepInv, ProcInv, KeyInv
<1>2. CASE proc[p].ask.scope = "shared"
  <2>1. c \in Matching(Shared(p), proc[p].ask.names) /\ proc[p].ask.names # {}
    BY <1>2 DEF Select, Refused, Ask
  <2> QED BY <1>2, <2>1 DEF Matching, Shared, InStore, CacheAsAsked
<1>3. CASE proc[p].ask.scope # "shared"
  <2>1. c \in Matching(Projects(p), proc[p].ask.names)
    BY <1>3 DEF Select, Ask
  <2>2. /\ c.store = proc[p].ask.store
        /\ c.owner = IF c.store = "volume" THEN proc[p].key ELSE "here"
        /\ c.store = "directory" => c \notin stuck.caches
        /\ proc[p].ask.names = {} \/ c.name \in proc[p].ask.names
    BY <2>1 DEF Matching, Projects, InStore, Ask
  <2> QED BY <1>1, <1>3, <2>2 DEF CacheAsAsked
<1> QED BY <1>2, <1>3

LEMMA DecideCachesKept ==
    ASSUME UpkeepInv, NEW p \in Procs, DecideCaches(p)
    PROVE  UpkeepInv'
<1>1. /\ ProcInv(proc[p], stuck) /\ proc[p].at = "decide" /\ proc[p].ask.verb = "caches"
      /\ UNCHANGED <<keyFile, resources, stuck>> /\ proc[p].ask.clean
  BY DEF UpkeepInv, DecideCaches, At, ProcInv, PlaceInv
<1>2. /\ proc[p].chosen = {} /\ proc[p].done = {} /\ proc[p].todo = {} /\ proc[p].failed = {}
      /\ proc[p].how = None
  BY <1>1 DEF ProcInv, WorkInv, PlaceInv
<1>3. CASE Refused(p)
  <2> DEFINE y == [proc[p] EXCEPT !.at = "over", !.how = "refused"]
  <2>1. /\ DOMAIN y = ProcFields /\ y.ask = proc[p].ask /\ y.at = "over" /\ y.key = proc[p].key
        /\ y.found = proc[p].found /\ y.todo = proc[p].todo /\ y.chosen = proc[p].chosen
        /\ y.done = proc[p].done /\ y.failed = proc[p].failed /\ y.how = "refused"
    BY <1>1 DEF ProcInv, ProcFields
  <2>2. proc' = [proc EXCEPT ![p] = y]
    BY <1>3 DEF DecideCaches, Ends
  <2> HIDE DEF y
  <2>3. PlaceInv(y) /\ WorkInv(y) /\ EndInv(y)
    BY <1>1, <1>2, <2>1 DEF PlaceInv, WorkInv, EndInv
  <2> QED BY <1>1, <1>2, <2>1, <2>2, <2>3, CachesKept
<1>4. CASE ~Refused(p)
  <2> DEFINE selected == Select(p)
             y == [proc[p] EXCEPT !.todo = selected, !.chosen = selected,
                                  !.at = "remove caches"]
  <2>0. \A c \in selected : CacheAsAsked(proc[p], c, stuck)
    BY <1>4, SelectAsAsked
  <2>1. /\ DOMAIN y = ProcFields /\ y.ask = proc[p].ask /\ y.at = "remove caches"
        /\ y.key = proc[p].key /\ y.found = proc[p].found /\ y.todo = selected
        /\ y.chosen = selected /\ y.done = proc[p].done /\ y.failed = proc[p].failed
        /\ y.how = proc[p].how
    BY <1>1 DEF ProcInv, ProcFields
  <2>2. proc' = [proc EXCEPT ![p] = y]
    BY <1>4 DEF DecideCaches
  <2> HIDE DEF y, selected
  <2>3. PlaceInv(y) /\ WorkInv(y) /\ EndInv(y)
    BY <1>1, <1>2, <2>1, UpkeepAssumption DEF PlaceInv, WorkInv, EndInv
  <2> QED BY <1>1, <2>0, <2>1, <2>2, <2>3, CachesKept
<1> QED BY <1>3, <1>4

LEMMA RemoveCacheKept ==
    ASSUME UpkeepInv, NEW p \in Procs, RemoveCache(p)
    PROVE  UpkeepInv'
<1>1. /\ ProcInv(proc[p], stuck) /\ proc[p].at = "remove caches"
      /\ proc[p].ask.verb = "caches" /\ UNCHANGED <<keyFile, resources, stuck>>
  BY DEF UpkeepInv, RemoveCache, At, ProcInv, PlaceInv
<1>2. /\ proc[p].chosen = proc[p].done \cup proc[p].todo /\ proc[p].failed = {}
      /\ proc[p].how = None /\ proc[p].ask.clean
      /\ \A c \in proc[p].chosen : CacheAsAsked(proc[p], c, stuck)
  BY <1>1 DEF ProcInv, WorkInv, PlaceInv, ChosenInv
<1>3. CASE proc[p].todo = {} /\ Ends(p, "ok")
  <2> DEFINE y == [proc[p] EXCEPT !.at = "over", !.how = "ok"]
  <2>1. /\ DOMAIN y = ProcFields /\ y.ask = proc[p].ask /\ y.at = "over" /\ y.key = proc[p].key
        /\ y.found = proc[p].found /\ y.todo = proc[p].todo /\ y.chosen = proc[p].chosen
        /\ y.done = proc[p].done /\ y.failed = proc[p].failed /\ y.how = "ok"
    BY <1>1 DEF ProcInv, ProcFields
  <2>2. proc' = [proc EXCEPT ![p] = y]
    BY <1>3 DEF Ends
  <2> HIDE DEF y
  <2>3. PlaceInv(y) /\ WorkInv(y) /\ EndInv(y)
    BY <1>1, <1>2, <1>3, <2>1 DEF PlaceInv, WorkInv, EndInv
  <2> QED BY <1>1, <1>2, <2>1, <2>2, <2>3, CachesKept
<1>4. CASE \E c \in proc[p].todo :
              proc' = [proc EXCEPT ![p].failed = {c}, ![p].at = "over", ![p].how = "failed"]
  <2>0. PICK c \in proc[p].todo :
              proc' = [proc EXCEPT ![p].failed = {c}, ![p].at = "over", ![p].how = "failed"]
    BY <1>4
  <2> DEFINE y == [proc[p] EXCEPT !.failed = {c}, !.at = "over", !.how = "failed"]
  <2>1. /\ DOMAIN y = ProcFields /\ y.ask = proc[p].ask /\ y.at = "over" /\ y.key = proc[p].key
        /\ y.found = proc[p].found /\ y.todo = proc[p].todo /\ y.chosen = proc[p].chosen
        /\ y.done = proc[p].done /\ y.failed = {c} /\ y.how = "failed"
    BY <1>1 DEF ProcInv, ProcFields
  <2>2. proc' = [proc EXCEPT ![p] = y]
    BY <2>0
  <2> HIDE DEF y
  <2>3. PlaceInv(y) /\ WorkInv(y) /\ EndInv(y)
    BY <1>1, <1>2, <2>1 DEF PlaceInv, WorkInv, EndInv
  <2> QED BY <1>1, <1>2, <2>1, <2>2, <2>3, CachesKept
<1>5. CASE \E c \in proc[p].todo :
              proc' = [proc EXCEPT ![p].done = @ \cup {c}, ![p].todo = @ \ {c}]
  <2>0. PICK c \in proc[p].todo :
              proc' = [proc EXCEPT ![p].done = @ \cup {c}, ![p].todo = @ \ {c}]
    BY <1>5
  <2> DEFINE y == [proc[p] EXCEPT !.done = proc[p].done \cup {c},
                                  !.todo = proc[p].todo \ {c}]
  <2>1. /\ DOMAIN y = ProcFields /\ y.ask = proc[p].ask /\ y.at = proc[p].at
        /\ y.key = proc[p].key /\ y.found = proc[p].found /\ y.todo = proc[p].todo \ {c}
        /\ y.chosen = proc[p].chosen /\ y.done = proc[p].done \cup {c}
        /\ y.failed = proc[p].failed /\ y.how = proc[p].how
    BY <1>1 DEF ProcInv, ProcFields
  <2>2. proc' = [proc EXCEPT ![p] = y]
    BY <1>1, <2>0 DEF UpkeepInv, ProcInv, ProcFields
  <2> HIDE DEF y
  <2>3. PlaceInv(y) /\ WorkInv(y) /\ EndInv(y)
    BY <1>1, <1>2, <2>1, UpkeepAssumption DEF PlaceInv, WorkInv, EndInv
  <2> QED BY <1>1, <1>2, <2>1, <2>2, <2>3, CachesKept
<1> QED BY <1>3, <1>4, <1>5 DEF RemoveCache


\* A step of a "resources" verb.
LEMMA ResourcesKept ==
    ASSUME UpkeepInv, NEW p \in Procs, NEW y, proc' = [proc EXCEPT ![p] = y],
           UNCHANGED <<keyFile, stuck>>, resources' \subseteq resources, DOMAIN y = ProcFields,
           y.ask = proc[p].ask, y.ask.verb = "resources", y.key = proc[p].key,
           proc[p].at \in {"resources", "networks", "remove"},
           y.at \in {"networks", "remove", "over"}, PlaceInv(y), WorkInv(y), EndInv(y),
           BlockedInv(y, stuck), y.done \cap resources' = {},
           \A r \in y.found \cup y.chosen :
               \/ r \in proc[p].found \cup proc[p].chosen
               \/ r \in resources /\ LeftoverAsAsked(proc[p], r)
    PROVE  UpkeepInv'
<1>1. KeyInv(y)
  BY DEF UpkeepInv, ProcInv, KeyInv, Early
<1>2. \A r \in proc[p].found \cup proc[p].chosen : LeftoverAsAsked(proc[p], r)
  BY DEF UpkeepInv, ProcInv, ChosenInv
<1>3. ChosenInv(y, stuck)
  BY <1>2 DEF ChosenInv, LeftoverAsAsked
<1>4. ProcInv(y, stuck)
  BY <1>1, <1>3 DEF ProcInv
<1>5. Moved(p, y)
  BY DEF UpkeepInv, Moved, Unmounted, Early
<1> QED BY <1>4, <1>5, MovedKept

LEMMA FindContainersKept ==
    ASSUME UpkeepInv, NEW p \in Procs, FindContainers(p)
    PROVE  UpkeepInv'
<1> DEFINE there == {r \in resources : IsLeftover(p, r) /\ ~Leftover(r).network}
           y == [proc[p] EXCEPT !.at = "networks", !.found = there]
<1>1. /\ ProcInv(proc[p], stuck) /\ proc[p].at = "resources"
      /\ proc[p].ask.verb = "resources" /\ UNCHANGED <<keyFile, resources, stuck>>
  BY DEF UpkeepInv, FindContainers, At, ProcInv, PlaceInv
<1>2. /\ DOMAIN y = ProcFields /\ y.ask = proc[p].ask /\ y.at = "networks"
      /\ y.key = proc[p].key /\ y.found = there /\ y.todo = proc[p].todo
      /\ y.chosen = proc[p].chosen /\ y.done = proc[p].done /\ y.failed = proc[p].failed
      /\ y.how = proc[p].how
  BY <1>1 DEF ProcInv, ProcFields
<1>3. proc' = [proc EXCEPT ![p] = y]
  BY DEF FindContainers
<1>4. \A r \in there : r \in resources /\ LeftoverAsAsked(proc[p], r)
  BY DEF IsLeftover, LeftoverAsAsked, Ask
<1>5. /\ proc[p].chosen = {} /\ proc[p].done = {} /\ proc[p].todo = {} /\ proc[p].failed = {}
      /\ proc[p].how = None
  BY <1>1 DEF ProcInv, WorkInv, PlaceInv
<1> HIDE DEF y, there
<1>6. PlaceInv(y) /\ WorkInv(y) /\ EndInv(y) /\ BlockedInv(y, stuck)
  BY <1>1, <1>2, <1>5, UpkeepAssumption DEF PlaceInv, WorkInv, EndInv, BlockedInv
<1> QED BY <1>1, <1>2, <1>3, <1>4, <1>5, <1>6, ResourcesKept

LEMMA FindNetworksKept ==
    ASSUME UpkeepInv, NEW p \in Procs, FindNetworks(p)
    PROVE  UpkeepInv'
<1> DEFINE there == proc[p].found \cup {r \in resources : IsLeftover(p, r) /\ Leftover(r).network}
           left == IF proc[p].ask.clean THEN there ELSE {}
           y == [proc[p] EXCEPT !.chosen = there, !.todo = left, !.at = "remove"]
<1>1. /\ ProcInv(proc[p], stuck) /\ proc[p].at = "networks"
      /\ proc[p].ask.verb = "resources" /\ UNCHANGED <<keyFile, resources, stuck>>
  BY DEF UpkeepInv, FindNetworks, At, ProcInv, PlaceInv
<1>2. /\ DOMAIN y = ProcFields /\ y.ask = proc[p].ask /\ y.at = "remove" /\ y.key = proc[p].key
      /\ y.found = proc[p].found /\ y.todo = left /\ y.chosen = there /\ y.done = proc[p].done
      /\ y.failed = proc[p].failed /\ y.how = proc[p].how
  BY <1>1 DEF ProcInv, ProcFields
<1>3. proc' = [proc EXCEPT ![p] = y]
  BY DEF FindNetworks, Ask
<1>4. \A r \in there : r \in proc[p].found \/ (r \in resources /\ LeftoverAsAsked(proc[p], r))
  BY DEF IsLeftover, LeftoverAsAsked, Ask
<1>5. left \subseteq there /\ (proc[p].ask.clean => left = there)
  OBVIOUS
<1>6. /\ proc[p].done = {} /\ proc[p].failed = {} /\ proc[p].how = None
  BY <1>1 DEF ProcInv, WorkInv, PlaceInv
<1> HIDE DEF y, there, left
<1>7. PlaceInv(y) /\ WorkInv(y) /\ EndInv(y) /\ BlockedInv(y, stuck)
  BY <1>1, <1>2, <1>5, <1>6, UpkeepAssumption DEF PlaceInv, WorkInv, EndInv, BlockedInv
<1> QED BY <1>1, <1>2, <1>3, <1>4, <1>6, <1>7, ResourcesKept

\* What cannot be removed when its turn comes is stuck, or a network with a
\* container on it that is not among what is left.
LEMMA NotRemovable ==
    ASSUME UpkeepInv, NEW p \in Procs, proc[p].ask.verb = "resources",
           NEW r \in RemovedNext(proc[p].todo), r \in resources, ~Removable(r)
    PROVE  \/ r \in stuck.resources
           \/ \E c \in EverThere : r \in Leftover(c).on /\ c \notin proc[p].done \cup proc[p].todo
<1> SUFFICES ASSUME r \notin stuck.resources
             PROVE  \E c \in EverThere : /\ r \in Leftover(c).on
                                         /\ c \notin proc[p].done \cup proc[p].todo
  OBVIOUS
<1>1. PICK c \in resources : r \in Leftover(c).on
  BY DEF Removable
<1>2. c \in EverThere /\ ~Leftover(c).network /\ Leftover(r).network
  BY <1>1 DEF UpkeepInv, ThingsInv, ThingOK
<1>3. c \notin proc[p].todo
  BY <1>2 DEF RemovedNext
<1>4. c \notin proc[p].done
  BY <1>1 DEF UpkeepInv, RemovedInv
<1> QED BY <1>1, <1>2, <1>3, <1>4

LEMMA RemoveResourceKept ==
    ASSUME UpkeepInv, NEW p \in Procs, RemoveResource(p)
    PROVE  UpkeepInv'
<1>1. /\ ProcInv(proc[p], stuck) /\ proc[p].at = "remove"
      /\ proc[p].ask.verb = "resources" /\ UNCHANGED <<keyFile, stuck>>
  BY DEF UpkeepInv, RemoveResource, At, ProcInv, PlaceInv
<1>2. /\ proc[p].done \cup proc[p].todo \subseteq proc[p].chosen
      /\ proc[p].ask.clean => proc[p].chosen = proc[p].done \cup proc[p].failed \cup proc[p].todo
      /\ proc[p].how = None /\ proc[p].done \cap resources = {}
  BY <1>1 DEF ProcInv, WorkInv, PlaceInv, UpkeepInv, RemovedInv
<1>3. \A r \in proc[p].failed :
            \/ r \in stuck.resources
            \/ \E c \in EverThere : r \in Leftover(c).on /\ c \notin proc[p].done \cup proc[p].todo
  BY <1>1 DEF ProcInv, BlockedInv
<1>4. CASE /\ proc[p].todo = {} /\ resources' = resources
           /\ Ends(p, IF proc[p].failed = {} THEN "ok" ELSE "failed")
  <2> DEFINE end == IF proc[p].failed = {} THEN "ok" ELSE "failed"
             y == [proc[p] EXCEPT !.at = "over", !.how = end]
  <2>1. /\ DOMAIN y = ProcFields /\ y.ask = proc[p].ask /\ y.at = "over" /\ y.key = proc[p].key
        /\ y.found = proc[p].found /\ y.todo = proc[p].todo /\ y.chosen = proc[p].chosen
        /\ y.done = proc[p].done /\ y.failed = proc[p].failed /\ y.how = end
    BY <1>1 DEF ProcInv, ProcFields
  <2>2. proc' = [proc EXCEPT ![p] = y]
    BY <1>4 DEF Ends
  <2>3. \/ end = "ok" /\ proc[p].failed = {}
        \/ end = "failed" /\ proc[p].failed # {}
    OBVIOUS
  <2> HIDE DEF y, end
  <2>4. PlaceInv(y) /\ WorkInv(y)
    BY <1>1, <1>2, <1>4, <2>1 DEF PlaceInv, WorkInv
  <2>5. EndInv(y)
    BY <1>1, <1>2, <1>4, <2>1, <2>3 DEF EndInv
  <2>6. BlockedInv(y, stuck)
    BY <1>3, <2>1 DEF BlockedInv
  <2> QED BY <1>1, <1>2, <1>4, <2>1, <2>2, <2>4, <2>5, <2>6, ResourcesKept
<1>5. ASSUME NEW r \in RemovedNext(proc[p].todo), r \in resources /\ ~Removable(r),
             proc' = [proc EXCEPT ![p].failed = @ \cup {r}, ![p].todo = @ \ {r}],
             resources' = resources
      PROVE  UpkeepInv'
  <2> DEFINE y == [proc[p] EXCEPT !.failed = proc[p].failed \cup {r},
                                  !.todo = proc[p].todo \ {r}]
  <2>1. /\ DOMAIN y = ProcFields /\ y.ask = proc[p].ask /\ y.at = proc[p].at
        /\ y.key = proc[p].key /\ y.found = proc[p].found /\ y.todo = proc[p].todo \ {r}
        /\ y.chosen = proc[p].chosen /\ y.done = proc[p].done
        /\ y.failed = proc[p].failed \cup {r} /\ y.how = proc[p].how
    BY <1>1 DEF ProcInv, ProcFields
  <2>2. proc' = [proc EXCEPT ![p] = y]
    BY <1>1, <1>5 DEF UpkeepInv, ProcInv, ProcFields
  <2>3. r \in proc[p].todo
    BY <1>5 DEF RemovedNext
  <2> HIDE DEF y
  <2>4. PlaceInv(y) /\ EndInv(y)
    BY <1>1, <1>2, <2>1, UpkeepAssumption DEF PlaceInv, EndInv
  <2>5. WorkInv(y)
    BY <1>1, <1>2, <2>1, <2>3 DEF WorkInv
  <2>6. \/ r \in stuck.resources
        \/ \E c \in EverThere : r \in Leftover(c).on /\ c \notin proc[p].done \cup proc[p].todo
    BY <1>1, <1>5, NotRemovable
  <2>7. BlockedInv(y, stuck)
    BY <1>3, <2>1, <2>6 DEF BlockedInv
  <2> QED BY <1>1, <1>2, <1>5, <2>1, <2>2, <2>4, <2>5, <2>7, ResourcesKept
<1>6. ASSUME NEW r \in RemovedNext(proc[p].todo),
             proc' = [proc EXCEPT ![p].done = @ \cup {r}, ![p].todo = @ \ {r}],
             resources' = resources \ {r}
      PROVE  UpkeepInv'
  <2> DEFINE y == [proc[p] EXCEPT !.done = proc[p].done \cup {r},
                                  !.todo = proc[p].todo \ {r}]
  <2>1. /\ DOMAIN y = ProcFields /\ y.ask = proc[p].ask /\ y.at = proc[p].at
        /\ y.key = proc[p].key /\ y.found = proc[p].found /\ y.todo = proc[p].todo \ {r}
        /\ y.chosen = proc[p].chosen /\ y.done = proc[p].done \cup {r}
        /\ y.failed = proc[p].failed /\ y.how = proc[p].how
    BY <1>1 DEF ProcInv, ProcFields
  <2>2. proc' = [proc EXCEPT ![p] = y]
    BY <1>1, <1>6 DEF UpkeepInv, ProcInv, ProcFields
  <2>3. r \in proc[p].todo
    BY <1>6 DEF RemovedNext
  <2> HIDE DEF y
  <2>4. PlaceInv(y) /\ EndInv(y)
    BY <1>1, <1>2, <2>1, UpkeepAssumption DEF PlaceInv, EndInv
  <2>5. WorkInv(y)
    BY <1>1, <1>2, <2>1, <2>3 DEF WorkInv
  <2>6. y.done \cup y.todo = proc[p].done \cup proc[p].todo
    BY <2>1, <2>3
  <2>7. BlockedInv(y, stuck)
    BY <1>3, <2>1, <2>6 DEF BlockedInv
  <2> QED BY <1>1, <1>2, <1>6, <2>1, <2>2, <2>4, <2>5, <2>7, ResourcesKept
<1> QED BY <1>4, <1>5, <1>6 DEF RemoveResource

LEMMA UpkeepInvariant == UpkeepSpec => []UpkeepInv
<1>1. UpkeepInv /\ [\E p \in Procs : UpkeepStep(p)]_upkeepVars => UpkeepInv'
  <2> SUFFICES ASSUME UpkeepInv, [\E p \in Procs : UpkeepStep(p)]_upkeepVars PROVE UpkeepInv'
    OBVIOUS
  <2>1. CASE UNCHANGED upkeepVars
    <3>1. UNCHANGED <<proc, keyFile, stuck, resources>>
      BY <2>1 DEF upkeepVars
    <3>2. ThingsInv' /\ NewInv' /\ CreatesInv' /\ RemovedInv'
      BY <3>1 DEF UpkeepInv, ThingsInv, NewInv, CreatesInv, RemovedInv
    <3> QED BY <3>1, <3>2 DEF UpkeepInv
  <2>2. ASSUME NEW p \in Procs, UpkeepStep(p) PROVE UpkeepInv'
    BY <2>2, BeginKept, ReadKeyKept, OpenKeyKept, WriteKeyKept, MountKept, RunOverKept,
       ListCachesKept, DecideCachesKept, RemoveCacheKept, FindContainersKept, FindNetworksKept,
       RemoveResourceKept DEF UpkeepStep
  <2> QED BY <2>1, <2>2
<1> QED BY InitUpkeep, <1>1, PTL DEF UpkeepSpec

\* However many processes run, list and clean in one project at once, each clean
\* removes only what it was asked to, succeeds only when it has taken all that it
\* chose, and fails on a network only for a container it was not given or could
\* not take (CacheStore::remove, find, remove).
THEOREM CleanIsAsAskedHolds == UpkeepSpec => []CleanIsAsAsked
<1>1. UpkeepInv => CleanIsAsAsked
  <2> SUFFICES ASSUME UpkeepInv PROVE CleanIsAsAsked
    OBVIOUS
  <2>1. ASSUME NEW p \in Procs
        PROVE  /\ proc[p].ask.verb \in {"run", "caches", "resources"}
               /\ EndInv(proc[p]) /\ WorkInv(proc[p]) /\ ChosenInv(proc[p], stuck)
               /\ BlockedInv(proc[p], stuck)
    BY DEF UpkeepInv, ProcInv, PlaceInv
  <2>2. ASSUME NEW p \in Procs, NEW x \in proc[p].done
        PROVE  IF proc[p].ask.verb = "caches" THEN CacheAsAsked(proc[p], x, stuck)
               ELSE LeftoverAsAsked(proc[p], x)
    BY <2>1, <2>2 DEF WorkInv, ChosenInv
  <2>3. ASSUME NEW p \in Procs, proc[p].ask.verb = "resources", NEW r \in proc[p].failed
        PROVE  \/ r \in stuck.resources
               \/ \E c \in EverThere : r \in Leftover(c).on /\ c \notin proc[p].done
    BY <2>1, <2>3 DEF BlockedInv
  <2> QED BY <2>1, <2>2, <2>3
          DEF CleanIsAsAsked, EndInv, CacheAsAsked, LeftoverAsAsked, Ask
<1> QED BY UpkeepInvariant, <1>1, PTL


----------------------------------------------------------------------------
(* An invocation.                                                          *)

InvFields ==
    {"compat", "line", "verb", "at", "isRun", "stages", "begun", "error", "truth", "said",
     "exit", "todo", "written", "force"}

ChecksFor(more) ==
    {"log file", "tag and override", "vars file", "cache type", "docker options", "config file"}
        \cup more
VerbStages ==
    {"tag and override", "docker options", "written for", "vars", "load", "sink", "connect",
     "settings", "list", "clean caches", "includes", "project name", "resources", "doctor",
     "config file", "convert", "findings", "script"}

\* What an invocation goes through never mixes a run with anything else.
PlanOK(plan, compat, isRun) ==
    /\ "run" \in plan => isRun
    /\ compat /\ ~isRun => "connect" \notin plan
    /\ compat /\ "list" \in plan => {"clean caches", "notice", "sweep"} \cap plan = {}

LEMMA Joined ==
    ASSUME NEW S, NEW a \in Seq(S), NEW b \in Seq(S)
    PROVE  a \o b \in Seq(S)
OBVIOUS

LEMMA CompatPlan ==
    ASSUME NEW given
    PROVE  \E plan : /\ CompatStages(given) \in Seq(plan)
                     /\ PlanOK(plan, TRUE, given \cap VerbOptions = {})
<1>1. \A more : OptionChecks \in Seq(ChecksFor(more))
  BY DEF OptionChecks, ChecksFor
<1>2. CASE {"list-tasks", "T"} \cap given # {}
  <2>1. CompatStages(given) = OptionChecks \o <<"load", "list">>
    BY <1>2 DEF CompatStages
  <2>2. <<"load", "list">> \in Seq(ChecksFor({"load", "list"}))
    BY DEF ChecksFor
  <2>3. CompatStages(given) \in Seq(ChecksFor({"load", "list"}))
    BY <1>1, <2>1, <2>2, Joined
  <2> QED BY <1>2, <2>3 DEF PlanOK, ChecksFor
<1>3. CASE {"list-tasks", "T"} \cap given = {} /\ "upgrade" \in given
  <2>1. CompatStages(given) = OptionChecks \o <<"notice">>
    BY <1>3 DEF CompatStages
  <2>2. <<"notice">> \in Seq(ChecksFor({"notice"}))
    BY DEF ChecksFor
  <2>3. CompatStages(given) \in Seq(ChecksFor({"notice"}))
    BY <1>1, <2>1, <2>2, Joined
  <2> QED BY <1>3, <2>3 DEF PlanOK, ChecksFor
<1>4. CASE /\ {"list-tasks", "T", "upgrade"} \cap given = {}
           /\ {"clean", "clean-cache"} \cap given # {}
  <2>1. CompatStages(given) = OptionChecks \o <<"clean caches">>
    BY <1>4 DEF CompatStages
  <2>2. <<"clean caches">> \in Seq(ChecksFor({"clean caches"}))
    BY DEF ChecksFor
  <2>3. CompatStages(given) \in Seq(ChecksFor({"clean caches"}))
    BY <1>1, <2>1, <2>2, Joined
  <2> QED BY <1>4, <2>3 DEF PlanOK, ChecksFor
<1>5. CASE given \cap VerbOptions = {}
  <2> DEFINE plan == ChecksFor({"load", "sweep", "vars", "sink", "connect", "settings", "run"})
  <2>0. /\ {"list-tasks", "T"} \cap given = {} /\ "upgrade" \notin given
        /\ {"clean", "clean-cache"} \cap given = {}
    BY <1>5 DEF VerbOptions
  <2>1. CompatStages(given) = OptionChecks \o (<<"load", "sweep">> \o RunStages)
    BY <2>0 DEF CompatStages
  <2>2. <<"load", "sweep">> \in Seq(plan) /\ RunStages \in Seq(plan)
    BY DEF ChecksFor, RunStages
  <2>3. OptionChecks \in Seq(plan)
    BY <1>1
  <2>4. "list" \notin plan
    BY DEF ChecksFor
  <2> HIDE DEF plan
  <2>5. CompatStages(given) \in Seq(plan)
    BY <2>1, <2>2, <2>3
  <2> QED BY <1>5, <2>4, <2>5 DEF PlanOK
<1> QED BY <1>2, <1>3, <1>4, <1>5 DEF VerbOptions

LEMMA NativePlan ==
    ASSUME NEW verb \in Verbs
    PROVE  \E plan : NativeStages(verb) \in Seq(plan) /\ PlanOK(plan, FALSE, verb = "run")
<1>1. CASE verb = "run"
  <2>1. NativeStages(verb) \in Seq(VerbStages \cup {"run"})
    BY <1>1 DEF NativeStages, VerbStages
  <2> QED BY <1>1, <2>1 DEF PlanOK
<1>2. CASE verb # "run"
  <2>1. ASSUME verb = "tasks" PROVE NativeStages(verb) \in Seq(VerbStages)
    <3>1. NativeStages(verb) = <<"written for", "load", "list">>
      BY <2>1 DEF NativeStages
    <3>2. <<"written for", "load", "list">> \in Seq(VerbStages)
      BY DEF VerbStages
    <3> QED BY <3>1, <3>2
  <2>2. ASSUME verb = "caches" PROVE NativeStages(verb) \in Seq(VerbStages)
    <3>1. NativeStages(verb) = <<"docker options", "connect", "clean caches">>
      BY <2>2 DEF NativeStages
    <3>2. <<"docker options", "connect", "clean caches">> \in Seq(VerbStages)
      BY DEF VerbStages
    <3> QED BY <3>1, <3>2
  <2>3. ASSUME verb = "includes" PROVE NativeStages(verb) \in Seq(VerbStages)
    <3>1. NativeStages(verb) = <<"includes">>
      BY <2>3 DEF NativeStages
    <3>2. <<"includes">> \in Seq(VerbStages)
      BY DEF VerbStages
    <3> QED BY <3>1, <3>2
  <2>4. ASSUME verb = "resources" PROVE NativeStages(verb) \in Seq(VerbStages)
    <3>1. NativeStages(verb) = <<"project name", "connect", "resources">>
      BY <2>4 DEF NativeStages
    <3>2. <<"project name", "connect", "resources">> \in Seq(VerbStages)
      BY DEF VerbStages
    <3> QED BY <3>1, <3>2
  <2>5. ASSUME verb = "doctor" PROVE NativeStages(verb) \in Seq(VerbStages)
    <3>1. NativeStages(verb) = <<"doctor">>
      BY <2>5 DEF NativeStages
    <3>2. <<"doctor">> \in Seq(VerbStages)
      BY DEF VerbStages
    <3> QED BY <3>1, <3>2
  <2>6. ASSUME verb = "convert" PROVE NativeStages(verb) \in Seq(VerbStages)
    <3>1. NativeStages(verb) = <<"config file", "load", "convert">>
      BY <2>6 DEF NativeStages
    <3>2. <<"config file", "load", "convert">> \in Seq(VerbStages)
      BY DEF VerbStages
    <3> QED BY <3>1, <3>2
  <2>7. ASSUME verb \in {"validate", "completions"} PROVE NativeStages(verb) \in Seq(VerbStages)
    <3>1. NativeStages(verb) = <<"findings">> \/ NativeStages(verb) = <<"script">>
      BY <2>7 DEF NativeStages
    <3>2. <<"findings">> \in Seq(VerbStages) /\ <<"script">> \in Seq(VerbStages)
      BY DEF VerbStages
    <3> QED BY <3>1, <3>2
  <2>8. NativeStages(verb) \in Seq(VerbStages)
    BY <1>2, <2>1, <2>2, <2>3, <2>4, <2>5, <2>6, <2>7, InvocationAssumption
  <2> QED BY <2>8 DEF PlanOK, VerbStages
<1> QED BY <1>1, <1>2


ShapeInv ==
    /\ DOMAIN inv = InvFields
    /\ inv.at \in {"parse", "stages", "convert", "failed", "exited"}
    /\ ~inv.compat => inv.verb \in Verbs
    /\ inv.at = "parse" => inv.begun = {} /\ inv.stages = <<>>
    /\ inv.at = "convert" => inv.stages # <<>> /\ Head(inv.stages) = "convert"

\* What has been gone through and what is left are of one plan.
PlanInv ==
    \E plan : inv.stages \in Seq(plan) /\ inv.begun \subseteq plan
              /\ PlanOK(plan, inv.compat, inv.isRun)

\* What has been said of a failure, and what its error will be made of.
TellInv ==
    /\ inv.at \in {"parse", "stages", "convert"} => inv.said = 0
    /\ inv.at = "failed" =>
          /\ inv.truth.as # "ok" /\ inv.said = IF AlreadyReported(inv.error) THEN 1 ELSE 0
          /\ ForFailure(inv.error, inv.isRun) = CodeOf(inv.truth, inv.isRun)

OutcomeInv == ShapeInv /\ PlanInv /\ TellInv /\ OutcomeTold

LEMMA InitOutcome == InvocationInit => OutcomeInv
<1> SUFFICES ASSUME InvocationInit PROVE OutcomeInv
  OBVIOUS
<1>1. /\ DOMAIN inv = InvFields /\ inv.at = "parse" /\ inv.begun = {} /\ inv.stages = <<>>
      /\ inv.said = 0 /\ (~inv.compat => inv.verb \in Verbs)
  BY DEF InvocationInit, InvFields
<1>2. PlanInv
  <2>1. inv.stages \in Seq({}) /\ inv.begun \subseteq {} /\ PlanOK({}, inv.compat, inv.isRun)
    BY <1>1 DEF PlanOK
  <2> QED BY <2>1 DEF PlanInv
<1> QED BY <1>1, <1>2 DEF OutcomeInv, ShapeInv, TellInv, OutcomeTold

\* What is made of an error, and what is said of it, are the truth.
Told(error, truth, said) ==
    /\ truth.as # "ok" /\ said = IF AlreadyReported(error) THEN 1 ELSE 0
    /\ ForFailure(error, inv.isRun) = CodeOf(truth, inv.isRun)

LEMMA ErrorsTold ==
    /\ Told([as |-> "other"], [as |-> "ratect"], 0)
    /\ Told([as |-> "option"], [as |-> "invocation"], 0)
    /\ Told([as |-> "verb failures"], [as |-> "ratect"], 1)
    /\ Told([as |-> "cleanup"], [as |-> "ratect"], 1)
    /\ Told(Reported([as |-> "other"]), [as |-> "ratect"], 1)
<1>1. /\ CodeOf([as |-> "ratect"], inv.isRun) = IF inv.isRun THEN 125 ELSE 1
      /\ CodeOf([as |-> "invocation"], inv.isRun) = IF inv.isRun THEN 125 ELSE 2
  BY DEF CodeOf
<1>2. Told([as |-> "other"], [as |-> "ratect"], 0)
  BY <1>1 DEF Told, AlreadyReported, ForFailure, ForError
<1>3. Told([as |-> "option"], [as |-> "invocation"], 0)
  BY <1>1 DEF Told, AlreadyReported, ForFailure, ForError
<1>4. Told([as |-> "verb failures"], [as |-> "ratect"], 1)
  BY <1>1 DEF Told, AlreadyReported, ForFailure, ForError
<1>5. Told([as |-> "cleanup"], [as |-> "ratect"], 1)
  BY <1>1 DEF Told, AlreadyReported, ForFailure, ForError
<1>6. Told(Reported([as |-> "other"]), [as |-> "ratect"], 1)
  BY <1>1 DEF Told, AlreadyReported, ForFailure, ForError, Reported
<1> QED BY <1>2, <1>3, <1>4, <1>5, <1>6

LEMMA SignalsTold ==
    ASSUME inv.isRun, NEW s
    PROVE  /\ Told([as |-> "interrupted", signal |-> s], [as |-> "signal", signal |-> s], 1)
           /\ Told(Reported([as |-> "interrupted", signal |-> s]),
                   [as |-> "signal", signal |-> s], 1)
<1>1. CodeOf([as |-> "signal", signal |-> s], inv.isRun) = 128 + s
  BY DEF CodeOf
<1>2. Told([as |-> "interrupted", signal |-> s], [as |-> "signal", signal |-> s], 1)
  BY <1>1 DEF Told, AlreadyReported, ForFailure, ForError
<1>3. Reported([as |-> "interrupted", signal |-> s]) = [as |-> "interrupted", signal |-> s]
  BY DEF Reported
<1> QED BY <1>2, <1>3

LEMMA ClosedTold ==
    ASSUME inv.isRun
    PROVE  Told(Reported([as |-> "stdout closed"]), [as |-> "closed"], 1)
<1>1. CodeOf([as |-> "closed"], inv.isRun) = 141
  BY DEF CodeOf
<1> QED BY <1>1 DEF Told, AlreadyReported, ForFailure, ForError, Reported

LEMMA ExitCodesTold ==
    ASSUME inv.isRun, NEW c \in ExitCodes
    PROVE  Told([as |-> "container", code |-> c], [as |-> "container", code |-> c], 1)
<1>1. c % 256 = c
  BY InvocationAssumption
<1>2. CodeOf([as |-> "container", code |-> c], inv.isRun) = c
  BY DEF CodeOf
<1> QED BY <1>1, <1>2 DEF Told, AlreadyReported, ForFailure, ForError

\* A failure, told by its error as it happened.
LEMMA FailsKept ==
    ASSUME OutcomeInv, NEW error, NEW truth, NEW said, Fails(error, truth, said),
           inv.at \in {"stages", "convert"}, Told(error, truth, said)
    PROVE  OutcomeInv'
<1>1. /\ DOMAIN inv' = InvFields /\ inv'.at = "failed" /\ inv'.error = error
      /\ inv'.truth = truth /\ inv'.said = inv.said + said /\ inv'.compat = inv.compat
      /\ inv'.verb = inv.verb /\ inv'.isRun = inv.isRun /\ inv'.stages = inv.stages
      /\ inv'.begun = inv.begun
  BY DEF OutcomeInv, ShapeInv, InvFields, Fails
<1>2. inv.said = 0 /\ inv'.said = said
  BY <1>1 DEF OutcomeInv, TellInv, Told
<1>3. ShapeInv'
  BY <1>1 DEF OutcomeInv, ShapeInv
<1>4. PlanInv'
  BY <1>1 DEF OutcomeInv, PlanInv
<1>5. TellInv' /\ OutcomeTold'
  BY <1>1, <1>2 DEF TellInv, OutcomeTold, Told
<1> QED BY <1>3, <1>4, <1>5 DEF OutcomeInv

\* Only a run has a run to go through.
LEMMA RunsAreRuns ==
    ASSUME OutcomeInv, inv.stages # <<>>, CurrentStage = "run"
    PROVE  inv.isRun
<1>1. PICK plan : inv.stages \in Seq(plan) /\ PlanOK(plan, inv.compat, inv.isRun)
  BY DEF OutcomeInv, PlanInv
<1>2. Head(inv.stages) \in plan
  BY <1>1
<1> QED BY <1>1, <1>2 DEF PlanOK, CurrentStage


LEMMA StageFailsKept ==
    ASSUME OutcomeInv, StageFails \/ PartsFail \/ UnknownTask
    PROVE  OutcomeInv'
<1>0. inv.at \in {"stages", "convert"}
  BY DEF StageFails, PartsFail, UnknownTask
<1>1. CASE Fails([as |-> "other"], [as |-> "ratect"], 0)
  BY <1>0, <1>1, ErrorsTold, FailsKept
<1>2. CASE Fails([as |-> "option"], [as |-> "invocation"], 0)
  BY <1>0, <1>2, ErrorsTold, FailsKept
<1>3. CASE Fails([as |-> "verb failures"], [as |-> "ratect"], 1)
  BY <1>0, <1>3, ErrorsTold, FailsKept
<1>4. ASSUME StageFails
      PROVE  \/ Fails([as |-> "other"], [as |-> "ratect"], 0)
             \/ Fails([as |-> "option"], [as |-> "invocation"], 0)
  <2>1. PICK as \in StageErrors(CurrentStage) :
            Fails([as |-> as], [as |-> IF as = "option" THEN "invocation" ELSE "ratect"], 0)
    BY <1>4 DEF StageFails
  <2>2. as \in {"option", "other"}
    BY <2>1 DEF StageErrors
  <2> QED BY <2>1, <2>2
<1> QED BY <1>1, <1>2, <1>3, <1>4 DEF PartsFail, UnknownTask

LEMMA SignalledKept ==
    ASSUME OutcomeInv, SignalledWhileConnecting
    PROVE  OutcomeInv'
<1>1. PICK signal \in {1, 2, 15} :
          Fails([as |-> "interrupted", signal |-> signal], [as |-> "signal", signal |-> signal], 1)
  BY DEF SignalledWhileConnecting
<1>2. inv.at \in {"stages", "convert"} /\ inv.isRun
  BY DEF SignalledWhileConnecting
<1>3. Told([as |-> "interrupted", signal |-> signal], [as |-> "signal", signal |-> signal], 1)
  BY <1>2, SignalsTold
<1> QED BY <1>1, <1>2, <1>3, FailsKept

\* The next stage: what is left of the plan is shorter, and of the same plan.
LEMMA StageOver ==
    ASSUME OutcomeInv, inv.at \in {"stages", "convert"}, inv.stages # <<>>,
           inv' = [inv EXCEPT !.at = "stages", !.stages = Tail(@), !.begun = @ \cup {CurrentStage}]
    PROVE  OutcomeInv'
<1>1. /\ DOMAIN inv' = InvFields /\ inv'.at = "stages" /\ inv'.said = inv.said
      /\ inv'.compat = inv.compat /\ inv'.verb = inv.verb /\ inv'.isRun = inv.isRun
      /\ inv'.stages = Tail(inv.stages) /\ inv'.begun = inv.begun \cup {Head(inv.stages)}
  BY DEF OutcomeInv, ShapeInv, InvFields, CurrentStage
<1>2. PICK plan : inv.stages \in Seq(plan) /\ inv.begun \subseteq plan
                  /\ PlanOK(plan, inv.compat, inv.isRun)
  BY DEF OutcomeInv, PlanInv
<1>3. Head(inv.stages) \in plan /\ Tail(inv.stages) \in Seq(plan)
  BY <1>2
<1>4. PlanInv'
  BY <1>1, <1>2, <1>3 DEF PlanInv
<1>5. ShapeInv'
  BY <1>1 DEF OutcomeInv, ShapeInv
<1>6. TellInv' /\ OutcomeTold'
  BY <1>1 DEF OutcomeInv, TellInv, OutcomeTold
<1> QED BY <1>4, <1>5, <1>6 DEF OutcomeInv

LEMMA StagePassesKept ==
    ASSUME OutcomeInv, StagePasses \/ Converted
    PROVE  OutcomeInv'
<1>1. CASE StagePasses
  <2>1. inv' = [inv EXCEPT !.at = "stages", !.stages = Tail(@), !.begun = @ \cup {CurrentStage}]
    BY <1>1 DEF StagePasses, OutcomeInv, ShapeInv, InvFields
  <2> QED BY <1>1, <2>1, StageOver DEF StagePasses
<1>2. CASE Converted
  <2>1. inv.at = "convert" /\ inv.stages # <<>> /\ CurrentStage = "convert"
    BY <1>2 DEF Converted, OutcomeInv, ShapeInv, CurrentStage
  <2>2. inv' = [inv EXCEPT !.at = "stages", !.stages = Tail(@), !.begun = @ \cup {CurrentStage}]
    BY <1>2, <2>1 DEF Converted
  <2> QED BY <2>1, <2>2, StageOver
<1> QED BY <1>1, <1>2

LEMMA RunTaskKept ==
    ASSUME OutcomeInv, RunTask
    PROVE  OutcomeInv'
<1>0. /\ inv.at \in {"stages", "convert"} /\ inv.at = "stages" /\ inv.stages # <<>>
      /\ CurrentStage = "run" /\ inv.isRun
  BY RunsAreRuns DEF RunTask
<1>1. CASE inv' = [inv EXCEPT !.stages = Tail(@), !.begun = @ \cup {"run"}]
  <2>1. inv' = [inv EXCEPT !.at = "stages", !.stages = Tail(@), !.begun = @ \cup {CurrentStage}]
    BY <1>0, <1>1 DEF OutcomeInv, ShapeInv, InvFields
  <2> QED BY <1>0, <2>1, StageOver
<1>2. CASE Fails([as |-> "cleanup"], [as |-> "ratect"], 1)
  BY <1>0, <1>2, ErrorsTold, FailsKept
<1>3. ASSUME NEW code \in ExitCodes,
             Fails([as |-> "container", code |-> code], [as |-> "container", code |-> code], 1)
      PROVE  OutcomeInv'
  <2>1. Told([as |-> "container", code |-> code], [as |-> "container", code |-> code], 1)
    BY <1>0, ExitCodesTold
  <2> QED BY <1>0, <1>3, <2>1, FailsKept
<1>4. ASSUME NEW signal \in {1, 2, 15},
             Fails(Reported([as |-> "interrupted", signal |-> signal]),
                   [as |-> "signal", signal |-> signal], 1)
      PROVE  OutcomeInv'
  <2>1. Told(Reported([as |-> "interrupted", signal |-> signal]),
             [as |-> "signal", signal |-> signal], 1)
    BY <1>0, SignalsTold
  <2> QED BY <1>0, <1>4, <2>1, FailsKept
<1>5. CASE Fails(Reported([as |-> "stdout closed"]), [as |-> "closed"], 1)
  BY <1>0, <1>5, ClosedTold, FailsKept
<1>6. CASE Fails(Reported([as |-> "other"]), [as |-> "ratect"], 1)
  BY <1>0, <1>6, ErrorsTold, FailsKept
<1> QED BY <1>1, <1>2, <1>3, <1>4, <1>5, <1>6 DEF RunTask

LEMMA ConvertKept ==
    ASSUME OutcomeInv, ConvertChecks \/ WriteGeneratedConfig \/ SomebodyWrites
    PROVE  OutcomeInv'
<1>1. CASE Fails([as |-> "other"], [as |-> "ratect"], 0)
  <2>1. inv.at \in {"stages", "convert"}
    BY DEF ConvertChecks, WriteGeneratedConfig, SomebodyWrites
  <2> QED BY <1>1, <2>1, ErrorsTold, FailsKept
<1>2. CASE ~Fails([as |-> "other"], [as |-> "ratect"], 0)
  <2>1. /\ DOMAIN inv' = InvFields /\ inv'.said = inv.said /\ inv'.compat = inv.compat
        /\ inv'.verb = inv.verb /\ inv'.isRun = inv.isRun /\ inv'.stages = inv.stages
        /\ inv'.begun = inv.begun /\ inv.at \in {"stages", "convert"}
        /\ \/ inv'.at = inv.at
           \/ inv'.at = "convert" /\ inv.stages # <<>> /\ Head(inv.stages) = "convert"
    <3>1. CASE ConvertChecks
      BY <1>2, <3>1 DEF ConvertChecks, OutcomeInv, ShapeInv, InvFields, CurrentStage
    <3>2. CASE WriteGeneratedConfig
      BY <1>2, <3>2 DEF WriteGeneratedConfig, Writes, OutcomeInv, ShapeInv, InvFields
    <3>3. CASE SomebodyWrites
      BY <3>3 DEF SomebodyWrites, OutcomeInv, ShapeInv
    <3> QED BY <3>1, <3>2, <3>3
  <2>2. ShapeInv'
    BY <2>1 DEF OutcomeInv, ShapeInv
  <2>3. PlanInv'
    BY <2>1 DEF OutcomeInv, PlanInv
  <2>4. TellInv' /\ OutcomeTold'
    BY <2>1 DEF OutcomeInv, TellInv, OutcomeTold
  <2> QED BY <2>2, <2>3, <2>4 DEF OutcomeInv
<1> QED BY <1>1, <1>2


\* A line or a verb that is refused, or starts along its plan.
LEMMA RefuseKept ==
    ASSUME OutcomeInv, inv.at = "parse", NEW isRun, Refuse(isRun)
    PROVE  OutcomeInv'
<1>1. /\ DOMAIN inv' = InvFields /\ inv'.at = "exited" /\ inv'.truth = [as |-> "invocation"]
      /\ inv'.said = 1 /\ inv'.exit = (IF isRun THEN 125 ELSE 2) /\ inv'.isRun = isRun
      /\ inv'.compat = inv.compat /\ inv'.verb = inv.verb /\ inv'.stages = inv.stages
      /\ inv'.begun = inv.begun
  BY DEF OutcomeInv, ShapeInv, InvFields, Refuse
<1>2. inv.stages = <<>> /\ inv.begun = {}
  BY DEF OutcomeInv, ShapeInv
<1>3. PlanInv'
  <2>1. inv'.stages \in Seq({}) /\ inv'.begun \subseteq {} /\ PlanOK({}, inv'.compat, inv'.isRun)
    BY <1>1, <1>2 DEF PlanOK
  <2> QED BY <2>1 DEF PlanInv
<1>4. CodeOf([as |-> "invocation"], isRun) = IF isRun THEN 125 ELSE 2
  BY DEF CodeOf
<1>5. ShapeInv' /\ TellInv'
  BY <1>1 DEF OutcomeInv, ShapeInv, TellInv
<1>6. OutcomeTold'
  BY <1>1, <1>4 DEF OutcomeTold
<1> QED BY <1>3, <1>5, <1>6 DEF OutcomeInv

LEMMA StartsKept ==
    ASSUME OutcomeInv, inv.at = "parse", NEW isRun, NEW stages, Starts(isRun, stages),
           NEW plan, stages \in Seq(plan), PlanOK(plan, inv.compat, isRun)
    PROVE  OutcomeInv'
<1>1. /\ DOMAIN inv' = InvFields /\ inv'.at = "stages" /\ inv'.said = inv.said
      /\ inv'.isRun = isRun /\ inv'.compat = inv.compat /\ inv'.verb = inv.verb
      /\ inv'.stages = stages /\ inv'.begun = inv.begun
  BY DEF OutcomeInv, ShapeInv, InvFields, Starts
<1>2. inv.begun = {} /\ inv.said = 0
  BY DEF OutcomeInv, ShapeInv, TellInv
<1>3. PlanInv'
  BY <1>1, <1>2 DEF PlanInv
<1>4. ShapeInv' /\ TellInv' /\ OutcomeTold'
  BY <1>1, <1>2 DEF OutcomeInv, ShapeInv, TellInv, OutcomeTold
<1> QED BY <1>3, <1>4 DEF OutcomeInv

LEMMA ParseKept ==
    ASSUME OutcomeInv, ParseArgs \/ ParseCli
    PROVE  OutcomeInv'
<1>1. inv.at = "parse"
  BY DEF ParseArgs, ParseCli
<1>2. CASE \E isRun : Refuse(isRun)
  BY <1>1, <1>2, RefuseKept
<1>3. ASSUME inv.compat, NEW given, Starts(given \cap VerbOptions = {}, CompatStages(given))
      PROVE  OutcomeInv'
  <2>1. PICK plan : /\ CompatStages(given) \in Seq(plan)
                    /\ PlanOK(plan, TRUE, given \cap VerbOptions = {})
    BY CompatPlan
  <2>2. PlanOK(plan, inv.compat, given \cap VerbOptions = {})
    BY <1>3, <2>1 DEF PlanOK
  <2> QED BY <1>1, <1>3, <2>1, <2>2, StartsKept
<1>4. ASSUME ~inv.compat, Starts(inv.verb = "run", NativeStages(inv.verb))
      PROVE  OutcomeInv'
  <2>1. inv.verb \in Verbs
    BY <1>4 DEF OutcomeInv, ShapeInv
  <2>2. PICK plan : /\ NativeStages(inv.verb) \in Seq(plan)
                    /\ PlanOK(plan, FALSE, inv.verb = "run")
    BY <2>1, NativePlan
  <2>3. PlanOK(plan, inv.compat, inv.verb = "run")
    BY <1>4, <2>2 DEF PlanOK
  <2> QED BY <1>1, <1>4, <2>2, <2>3, StartsKept
<1>5. CASE ParseArgs
  <2> DEFINE split == SplitAtTask(inv.line)
             clap == ClapOptions(SubSeq(inv.line, 1, split.index))
  <2>1. \/ Refuse(IsARun(inv.line))
        \/ Starts(clap.given \cap VerbOptions = {}, CompatStages(clap.given))
    BY <1>5 DEF ParseArgs
  <2>2. inv.compat
    BY <1>5 DEF ParseArgs
  <2> HIDE DEF clap
  <2> QED BY <1>2, <1>3, <2>1, <2>2
<1>6. CASE ParseCli
  BY <1>2, <1>4, <1>6 DEF ParseCli
<1> QED BY <1>5, <1>6

LEMMA ExitKept ==
    ASSUME OutcomeInv, ExitFailed \/ ExitOk
    PROVE  OutcomeInv'
<1>1. /\ DOMAIN inv' = InvFields /\ inv'.at = "exited" /\ inv'.isRun = inv.isRun
      /\ inv'.compat = inv.compat /\ inv'.verb = inv.verb /\ inv'.stages = inv.stages
      /\ inv'.begun = inv.begun
  BY DEF OutcomeInv, ShapeInv, InvFields, ExitFailed, ExitOk
<1>2. ShapeInv' /\ TellInv'
  BY <1>1 DEF OutcomeInv, ShapeInv, TellInv
<1>3. PlanInv'
  BY <1>1 DEF OutcomeInv, PlanInv
<1>4. CASE ExitOk
  <2>1. inv'.truth = [as |-> "ok"] /\ inv'.exit = 0 /\ inv'.said = inv.said /\ inv.said = 0
    BY <1>4 DEF OutcomeInv, ShapeInv, InvFields, TellInv, ExitOk
  <2>2. CodeOf([as |-> "ok"], inv.isRun) = 0
    BY DEF CodeOf
  <2>3. OutcomeTold'
    BY <1>1, <2>1, <2>2 DEF OutcomeTold
  <2> QED BY <1>2, <1>3, <2>3 DEF OutcomeInv
<1>5. CASE ExitFailed
  <2>1. /\ inv'.truth = inv.truth /\ inv'.exit = ForFailure(inv.error, inv.isRun)
        /\ inv'.said = (IF AlreadyReported(inv.error) THEN inv.said ELSE inv.said + 1)
        /\ inv.at = "failed"
    BY <1>5 DEF OutcomeInv, ShapeInv, InvFields, ExitFailed
  <2>2. inv'.said = 1 /\ inv'.exit = CodeOf(inv.truth, inv.isRun) /\ inv.truth.as # "ok"
    BY <2>1 DEF OutcomeInv, TellInv
  <2>3. OutcomeTold'
    BY <1>1, <2>1, <2>2 DEF OutcomeTold
  <2> QED BY <1>2, <1>3, <2>3 DEF OutcomeInv
<1> QED BY <1>4, <1>5

LEMMA OutcomeInvariant == InvocationSpec => []OutcomeInv
<1>1. OutcomeInv /\ [InvocationStep]_invocationVars => OutcomeInv'
  <2> SUFFICES ASSUME OutcomeInv, [InvocationStep]_invocationVars PROVE OutcomeInv'
    OBVIOUS
  <2>1. CASE UNCHANGED invocationVars
    <3>1. inv' = inv
      BY <2>1 DEF invocationVars
    <3>2. ShapeInv' /\ PlanInv'
      BY <3>1 DEF OutcomeInv, ShapeInv, PlanInv
    <3>3. TellInv' /\ OutcomeTold'
      BY <3>1 DEF OutcomeInv, TellInv, OutcomeTold
    <3> QED BY <3>2, <3>3 DEF OutcomeInv
  <2> QED BY <2>1, ParseKept, StagePassesKept, StageFailsKept, SignalledKept, RunTaskKept,
          ConvertKept, ExitKept DEF InvocationStep
<1> QED BY InitOutcome, <1>1, PTL DEF InvocationSpec


----------------------------------------------------------------------------
(* The two readings of a line: command_line_words, and split_at_task with  *)
(* clap after it.                                                          *)

Names == STRING \ {"positional"}
Texts == Names \cup {"positional"}

LEMMA LeastNumber ==
    ASSUME NEW S, S \subseteq Nat, S # {}
    PROVE  \E n \in S : \A m \in S : n <= m
<1>1. IsWellFoundedOn({p \in Nat \X Nat : p[1] < p[2]}, Nat)
  BY NatLessThanWellFounded DEF OpToRel
<1>2. PICK n \in S : \A m \in S : <<m, n>> \notin {p \in Nat \X Nat : p[1] < p[2]}
  BY <1>1, WFMin
<1>3. ASSUME NEW m \in S PROVE n <= m
  <2>1. <<m, n>> \notin {p \in Nat \X Nat : p[1] < p[2]}
    BY <1>2
  <2>2. m \in Nat /\ n \in Nat
    OBVIOUS
  <2>3. ~(m < n)
    BY <2>1, <2>2
  <2> QED BY <2>2, <2>3
<1> QED BY <1>2, <1>3

LEMMA ShortsType ==
    ASSUME NEW w, IsWord(w), w.kind = "short"
    PROVE  ShortsOf(w) \in Seq(Names)
<1> DEFINE shorts == w.shorts
           S == {i \in DOMAIN shorts : TakesValue(shorts[i])}
<1>1. shorts \in Seq(Names)
  BY DEF IsWord, Names
<1> HIDE DEF shorts
<1>2. CASE S = {}
  <2>1. ValuePosition(shorts) = 0
    BY <1>2 DEF ValuePosition
  <2> QED BY <1>1, <2>1 DEF ShortsOf, shorts
<1>3. CASE S # {}
  <2>1. S \subseteq Nat
    BY <1>1
  <2>2. PICK n \in S : \A m \in S : n <= m
    <3> HIDE DEF S
    <3> QED BY <1>3, <2>1, LeastNumber
  <2>3. n \in DOMAIN shorts /\ TakesValue(shorts[n]) /\ \A j \in 1..n - 1 : ~TakesValue(shorts[j])
    BY <1>1, <2>2
  <2> DEFINE p == ValuePosition(shorts)
  <2>4. p \in DOMAIN shorts
    BY <2>3 DEF ValuePosition
  <2>5. p \in 1..Len(shorts)
    BY <1>1, <2>4
  <2> HIDE DEF p
  <2>6. SubSeq(shorts, 1, p) \in Seq(Names)
    BY <1>1, <2>5
  <2> QED BY <2>5, <2>6 DEF ShortsOf, p, shorts
<1> QED BY <1>2, <1>3

LEMMA WantsType == ASSUME NEW w PROVE WantsNext(w) \in BOOLEAN
BY DEF WantsNext

LEMMA DashedType == ASSUME NEW w PROVE Dashed(w) \in BOOLEAN
BY DEF Dashed

LEMMA EmptyType == ASSUME NEW w PROVE EmptyValue(w) \in BOOLEAN
BY DEF EmptyValue

Readings == [words : Seq(Texts), over : BOOLEAN, skip : BOOLEAN]
Splits == [index : Nat, over : BOOLEAN, skip : BOOLEAN, refused : BOOLEAN]

LEMMA ReadWordType ==
    ASSUME NEW r \in Readings, NEW w, IsWord(w)
    PROVE  ReadWord(r, w) \in Readings
<1>1. WantsNext(w) \in BOOLEAN
  BY WantsType
<1>2. CASE r.over \/ r.skip
  BY <1>2 DEF ReadWord, Readings
<1>3. CASE ~r.over /\ ~r.skip /\ w.kind = "dashes"
  BY <1>3 DEF ReadWord, Readings
<1>4. CASE ~r.over /\ ~r.skip /\ w.kind = "long"
  <2>1. ReadWord(r, w) = [r EXCEPT !.words = Append(@, w.name), !.skip = WantsNext(w)]
    BY <1>4 DEF ReadWord
  <2>2. Append(r.words, w.name) \in Seq(Texts)
    BY <1>4 DEF IsWord, Names, Texts, Readings
  <2> QED BY <1>1, <2>1, <2>2 DEF Readings
<1>5. CASE ~r.over /\ ~r.skip /\ w.kind = "short"
  <2>1. ReadWord(r, w) = [r EXCEPT !.words = @ \o ShortsOf(w), !.skip = WantsNext(w)]
    BY <1>5 DEF ReadWord
  <2>2. r.words \in Seq(Texts) /\ ShortsOf(w) \in Seq(Texts)
    <3>1. ShortsOf(w) \in Seq(Names) /\ Names \subseteq Texts
      BY <1>5, ShortsType DEF Texts
    <3> QED BY <3>1 DEF Readings
  <2>3. r.words \o ShortsOf(w) \in Seq(Texts)
    BY <2>2, Joined
  <2> QED BY <1>1, <2>1, <2>3 DEF Readings
<1>6. CASE ~r.over /\ ~r.skip /\ w.kind = "plain"
  <2>1. ReadWord(r, w) = [r EXCEPT !.words = Append(@, "positional")]
    BY <1>6 DEF ReadWord
  <2>2. r.words \in Seq(Texts)
    BY DEF Readings
  <2>3. Append(r.words, "positional") \in Seq(Texts)
    BY <2>2 DEF Texts
  <2> QED BY <2>1, <2>3 DEF Readings
<1> QED BY <1>2, <1>3, <1>4, <1>5, <1>6 DEF IsWord

LEMMA SplitWordType ==
    ASSUME NEW s \in Splits, NEW w
    PROVE  SplitWord(s, w) \in Splits
<1> DEFINE wants == WantsNext(w)
           first == s.refused \/ EmptyValue(w)
           second == s.refused \/ Dashed(w)
<1>1. wants \in BOOLEAN /\ first \in BOOLEAN /\ second \in BOOLEAN
  BY WantsType
<1>2. \/ SplitWord(s, w) = s
      \/ SplitWord(s, w) = [s EXCEPT !.skip = FALSE, !.index = @ + 1, !.refused = second]
      \/ SplitWord(s, w) = [s EXCEPT !.over = TRUE]
      \/ SplitWord(s, w) = [s EXCEPT !.index = @ + 1, !.skip = wants, !.refused = first]
  BY DEF SplitWord
<1> HIDE DEF wants, first, second
<1> DEFINE i == s.index + 1
<1>0. i \in Nat
  BY DEF Splits
<1> HIDE DEF i
<1>3. [s EXCEPT !.skip = FALSE, !.index = i, !.refused = second] \in Splits
  BY <1>0, <1>1 DEF Splits
<1>4. [s EXCEPT !.index = i, !.skip = wants, !.refused = first] \in Splits
  BY <1>0, <1>1 DEF Splits
<1>5. [s EXCEPT !.over = TRUE] \in Splits
  BY DEF Splits
<1> QED BY <1>2, <1>3, <1>4, <1>5 DEF i

\* All that could be called an option.
Called(options) == Names \cup UNION {Range(ShortsOf(options[i])) : i \in 1..Len(options)}
Claps(options) == [given : SUBSET Called(options), skip : BOOLEAN, wrong : BOOLEAN]

LEMMA ClapWordType ==
    ASSUME NEW options, NEW c \in Claps(options), NEW i \in 1..Len(options), IsWord(options[i])
    PROVE  ClapWord(c, options[i]) \in Claps(options)
<1> DEFINE w == options[i]
           C == Called(options)
           wants == WantsNext(w)
           shorts == Range(ShortsOf(w))
<1>1. wants \in BOOLEAN /\ (w.kind = "long" => w.name \in C) /\ shorts \subseteq C
  BY WantsType DEF IsWord, Called, Names
<1>2. \/ ClapWord(c, w) = [c EXCEPT !.wrong = TRUE]
      \/ ClapWord(c, w) = [c EXCEPT !.skip = FALSE]
      \/ w.kind = "long"
         /\ ClapWord(c, w) = [c EXCEPT !.given = @ \cup {w.name}, !.skip = wants]
      \/ ClapWord(c, w) = [c EXCEPT !.given = @ \cup shorts, !.skip = wants]
  BY DEF ClapWord
<1>3. c \in [given : SUBSET C, skip : BOOLEAN, wrong : BOOLEAN]
  BY DEF Claps
<1> HIDE DEF w, C, wants, shorts
<1>4. [c EXCEPT !.given = @ \cup shorts, !.skip = wants]
         \in [given : SUBSET C, skip : BOOLEAN, wrong : BOOLEAN]
  BY <1>1, <1>3
<1>5. w.kind = "long" => [c EXCEPT !.given = @ \cup {w.name}, !.skip = wants]
                            \in [given : SUBSET C, skip : BOOLEAN, wrong : BOOLEAN]
  BY <1>1, <1>3
<1>6. /\ [c EXCEPT !.wrong = TRUE] \in [given : SUBSET C, skip : BOOLEAN, wrong : BOOLEAN]
      /\ [c EXCEPT !.skip = FALSE] \in [given : SUBSET C, skip : BOOLEAN, wrong : BOOLEAN]
  BY <1>3
<1>7. ClapWord(c, w) \in [given : SUBSET C, skip : BOOLEAN, wrong : BOOLEAN]
  BY <1>2, <1>4, <1>5, <1>6
<1> QED BY <1>7 DEF Claps, C, w

LineWords(line) == Len(line) \in Nat /\ \A i \in 1..Len(line) : IsWord(line[i])

NoneRead == [words |-> <<>>, over |-> FALSE, skip |-> FALSE]
NoneSplit == [index |-> 0, over |-> FALSE, skip |-> FALSE, refused |-> FALSE]
NoneGiven == [given |-> {}, skip |-> FALSE, wrong |-> FALSE]

IsReading(line, f) ==
    /\ f \in [0..Len(line) -> Readings] /\ f[0] = NoneRead
    /\ \A i \in 1..Len(line) : f[i] = ReadWord(f[i - 1], line[i])
IsSplit(line, f) ==
    /\ f \in [0..Len(line) -> Splits] /\ f[0] = NoneSplit
    /\ \A i \in 1..Len(line) : f[i] = SplitWord(f[i - 1], line[i])
IsClap(line, f) ==
    /\ f \in [0..Len(line) -> Claps(line)] /\ f[0] = NoneGiven
    /\ \A i \in 1..Len(line) : f[i] = ClapWord(f[i - 1], line[i])

\* What satisfies a recursive definition from its first value on stays in its type.
LEMMA StaysTyped ==
    ASSUME NEW T, NEW N \in Nat, NEW f, f = [i \in 0..N |-> f[i]], f[0] \in T,
           \A i \in 1..N : f[i - 1] \in T => f[i] \in T
    PROVE  f \in [0..N -> T]
<1>1. \A i \in 0..N : f[i] \in T
  BY Along
<1> QED BY <1>1

LEMMA ReadingIs ==
    ASSUME NEW line, LineWords(line)
    PROVE  \E f : IsReading(line, f) /\ CommandLineWords(line) = f[Len(line)].words
<1> DEFINE N == Len(line)
           step == [i \in 1..N |-> [x \in Readings |-> ReadWord(x, line[i])]]
           Def(f) == [i \in 0..N |-> IF i = 0 THEN NoneRead ELSE ReadWord(f[i - 1], line[i])]
           read == CHOOSE f : f = Def(f)
<1>1. step \in [1..N -> [Readings -> Readings]] /\ N \in Nat
  BY ReadWordType DEF LineWords
<1>2. NoneRead \in Readings
  BY DEF NoneRead, Readings
<1>3. HasRun(Readings, N, NoneRead, step)
  <2> HIDE DEF step, N
  <2> QED BY <1>1, <1>2, Recursion
<1>4. PICK f \in [0..N -> Readings] : f[0] = NoneRead /\ \A i \in 1..N : f[i] = step[i][f[i - 1]]
  BY <1>3 DEF HasRun
<1>5. ASSUME NEW i \in 1..N PROVE f[i] = ReadWord(f[i - 1], line[i])
  <2>1. f[i - 1] \in Readings
    OBVIOUS
  <2>2. step[i][f[i - 1]] = ReadWord(f[i - 1], line[i])
    BY <2>1
  <2> QED BY <1>4, <2>2
<1>6. f = Def(f)
  BY <1>4, <1>5
<1>7. read = Def(read)
  BY <1>6
<1>8. CommandLineWords(line) = read[N].words
  BY DEF CommandLineWords, NoneRead
<1> HIDE DEF read, step
<1>9. read[0] = NoneRead /\ \A i \in 1..N : read[i] = ReadWord(read[i - 1], line[i])
  BY <1>1, <1>7
<1>10. \A i \in 1..N : read[i - 1] \in Readings => read[i] \in Readings
  BY <1>9, ReadWordType DEF LineWords
<1>11. read = [i \in 0..N |-> read[i]]
  BY <1>7
<1>12. read \in [0..N -> Readings]
  <2> HIDE DEF N
  <2> QED BY <1>1, <1>2, <1>9, <1>10, <1>11, StaysTyped
<1> QED BY <1>8, <1>9, <1>12 DEF IsReading

LEMMA SplitIs ==
    ASSUME NEW line, LineWords(line)
    PROVE  \E f : IsSplit(line, f) /\ SplitAtTask(line) = f[Len(line)]
<1> DEFINE N == Len(line)
           step == [i \in 1..N |-> [x \in Splits |-> SplitWord(x, line[i])]]
           Def(f) == [i \in 0..N |-> IF i = 0 THEN NoneSplit ELSE SplitWord(f[i - 1], line[i])]
           split == CHOOSE f : f = Def(f)
<1>1. step \in [1..N -> [Splits -> Splits]] /\ N \in Nat
  BY SplitWordType DEF LineWords
<1>2. NoneSplit \in Splits
  BY DEF NoneSplit, Splits
<1>3. HasRun(Splits, N, NoneSplit, step)
  <2> HIDE DEF step, N
  <2> QED BY <1>1, <1>2, Recursion
<1>4. PICK f \in [0..N -> Splits] : f[0] = NoneSplit /\ \A i \in 1..N : f[i] = step[i][f[i - 1]]
  BY <1>3 DEF HasRun
<1>5. ASSUME NEW i \in 1..N PROVE f[i] = SplitWord(f[i - 1], line[i])
  <2>1. f[i - 1] \in Splits
    OBVIOUS
  <2>2. step[i][f[i - 1]] = SplitWord(f[i - 1], line[i])
    BY <2>1
  <2> QED BY <1>4, <2>2
<1>6. f = Def(f)
  BY <1>4, <1>5
<1>7. split = Def(split)
  BY <1>6
<1>8. SplitAtTask(line) = split[N]
  BY DEF SplitAtTask, NoneSplit
<1> HIDE DEF split, step
<1>9. split[0] = NoneSplit /\ \A i \in 1..N : split[i] = SplitWord(split[i - 1], line[i])
  BY <1>1, <1>7
<1>10. \A i \in 1..N : split[i - 1] \in Splits => split[i] \in Splits
  BY <1>9, SplitWordType
<1>11. split = [i \in 0..N |-> split[i]]
  BY <1>7
<1>12. split \in [0..N -> Splits]
  <2> HIDE DEF N
  <2> QED BY <1>1, <1>2, <1>9, <1>10, <1>11, StaysTyped
<1> QED BY <1>8, <1>9, <1>12 DEF IsSplit

LEMMA ClapIs ==
    ASSUME NEW line, LineWords(line)
    PROVE  \E f : IsClap(line, f) /\ ClapOptions(line) = f[Len(line)]
<1> DEFINE N == Len(line)
           T == Claps(line)
           step == [i \in 1..N |-> [x \in T |-> ClapWord(x, line[i])]]
           Def(f) == [i \in 0..N |-> IF i = 0 THEN NoneGiven ELSE ClapWord(f[i - 1], line[i])]
           clap == CHOOSE f : f = Def(f)
<1>0. \A i \in 1..N : \A x \in T : ClapWord(x, line[i]) \in T
  BY ClapWordType DEF LineWords
<1>1. step \in [1..N -> [T -> T]] /\ N \in Nat
  <2> HIDE DEF T
  <2> QED BY <1>0 DEF LineWords
<1>2. NoneGiven \in T
  BY DEF NoneGiven, Claps
<1> HIDE DEF T
<1>3. HasRun(T, N, NoneGiven, step)
  <2> HIDE DEF step, N
  <2> QED BY <1>1, <1>2, Recursion
<1>4. PICK f \in [0..N -> T] : f[0] = NoneGiven /\ \A i \in 1..N : f[i] = step[i][f[i - 1]]
  BY <1>3 DEF HasRun
<1>5. ASSUME NEW i \in 1..N PROVE f[i] = ClapWord(f[i - 1], line[i])
  <2>1. f[i - 1] \in T
    OBVIOUS
  <2>2. step[i][f[i - 1]] = ClapWord(f[i - 1], line[i])
    BY <2>1
  <2> QED BY <1>4, <2>2
<1>6. f = Def(f)
  BY <1>4, <1>5
<1>7. clap = Def(clap)
  BY <1>6
<1>8. ClapOptions(line) = clap[N]
  BY DEF ClapOptions, NoneGiven
<1> HIDE DEF clap, step
<1>9. clap[0] = NoneGiven /\ \A i \in 1..N : clap[i] = ClapWord(clap[i - 1], line[i])
  BY <1>1, <1>7
<1>10. \A i \in 1..N : clap[i - 1] \in T => clap[i] \in T
  BY <1>0, <1>9
<1>11. clap = [i \in 0..N |-> clap[i]]
  BY <1>7
<1>12. clap \in [0..N -> T]
  <2> HIDE DEF N
  <2> QED BY <1>1, <1>2, <1>9, <1>10, <1>11, StaysTyped
<1> QED BY <1>8, <1>9, <1>12 DEF IsClap, T

\* Where split_at_task is after i words: at every one of them, or at the task.
Cut(s, i) ==
    /\ s[i].index <= i
    /\ \A j \in 0..s[i].index : ~s[j].over /\ s[j].index = j /\ (s[j].refused => s[i].refused)
    /\ s[i].over => s[i].index < i /\ s[s[i].index + 1].over
    /\ ~s[i].over => s[i].index = i

LEMMA CutStep ==
    ASSUME NEW line, LineWords(line), NEW s, IsSplit(line, s), NEW i \in 0..Len(line) - 1,
           Cut(s, i)
    PROVE  Cut(s, i + 1)
<1>1. /\ i \in Nat /\ i + 1 \in 1..Len(line) /\ (i + 1) - 1 = i
  BY DEF LineWords
<1>2. s[i] \in Splits /\ s[i + 1] = SplitWord(s[i], line[i + 1])
  BY <1>1 DEF IsSplit
<1>3. CASE s[i].over
  <2>1. s[i + 1] = s[i]
    BY <1>2, <1>3 DEF SplitWord
  <2> QED BY <1>1, <1>2, <1>3, <2>1 DEF Cut, Splits
<1>4. CASE ~s[i].over /\ s[i + 1].over
  <2>1. s[i + 1].index = i /\ (s[i].refused => s[i + 1].refused)
    BY <1>2, <1>4 DEF SplitWord, Splits, Cut
  <2>2. s[i].index = i
    BY <1>4 DEF Cut
  <2> QED BY <1>1, <1>4, <2>1, <2>2 DEF Cut
<1>5. CASE ~s[i].over /\ ~s[i + 1].over
  <2>1. s[i].index = i
    BY <1>5 DEF Cut
  <2>2. s[i + 1].index = i + 1
    BY <1>2, <1>5, <2>1 DEF SplitWord, Splits
  <2>3. s[i].refused => s[i + 1].refused
    BY <1>2, <1>5 DEF SplitWord, Splits
  <2>4. ASSUME NEW j \in 0..i + 1
        PROVE  ~s[j].over /\ s[j].index = j /\ (s[j].refused => s[i + 1].refused)
    <3>1. CASE j = i + 1
      BY <1>5, <2>2, <3>1
    <3>2. CASE j \in 0..i
      BY <2>1, <2>3, <3>2 DEF Cut
    <3> QED BY <1>1, <3>1, <3>2
  <2> QED BY <1>1, <1>5, <2>2, <2>4 DEF Cut
<1> QED BY <1>3, <1>4, <1>5

LEMMA CutAll ==
    ASSUME NEW line, LineWords(line), NEW s, IsSplit(line, s)
    PROVE  Cut(s, Len(line))
<1> DEFINE N == Len(line)
           Q == {k \in Nat : k <= N => Cut(s, k)}
<1>1. 0 \in Q
  BY DEF IsSplit, NoneSplit, Cut
<1>2. ASSUME NEW k \in Nat, k \in Q PROVE k + 1 \in Q
  <2> SUFFICES ASSUME k + 1 <= N PROVE Cut(s, k + 1)
    OBVIOUS
  <2>1. k \in 0..Len(line) - 1 /\ Cut(s, k)
    BY <1>2 DEF LineWords
  <2> QED BY <2>1, CutStep
<1>3. Nat \subseteq Q
  <2> HIDE DEF Q
  <2> QED BY <1>1, <1>2, SetInduction
<1> QED BY <1>3 DEF LineWords

\* Before the task the readings go on together.
Alike(r, s, c) ==
    /\ ~r.over /\ (r.skip <=> s.skip) /\ (c.skip <=> s.skip)
    /\ r.words \in Seq(Names) /\ Range(r.words) = c.given

LEMMA RangeJoined ==
    ASSUME NEW S, NEW a \in Seq(S), NEW b \in Seq(S)
    PROVE  Range(a \o b) = Range(a) \cup Range(b)
<1>1. Len(a) \in Nat /\ Len(b) \in Nat /\ a \o b \in Seq(S) /\ Len(a \o b) = Len(a) + Len(b)
  OBVIOUS
<1>2. ASSUME NEW x \in Range(a \o b) PROVE x \in Range(a) \cup Range(b)
  <2>1. PICK i \in 1..Len(a) + Len(b) : x = (a \o b)[i]
    BY <1>1, <1>2 DEF Range
  <2>2. CASE i <= Len(a)
    BY <1>1, <2>1, <2>2 DEF Range
  <2>3. CASE i > Len(a)
    <3>1. i - Len(a) \in 1..Len(b) /\ x = b[i - Len(a)]
      BY <1>1, <2>1, <2>3
    <3> QED BY <3>1 DEF Range
  <2> QED BY <1>1, <2>1, <2>2, <2>3
<1>3. ASSUME NEW x \in Range(a) PROVE x \in Range(a \o b)
  <2>1. PICK i \in 1..Len(a) : x = a[i]
    BY <1>3 DEF Range
  <2>2. i \in 1..Len(a \o b) /\ (a \o b)[i] = x
    BY <1>1, <2>1
  <2> QED BY <1>1, <2>2 DEF Range
<1>4. ASSUME NEW x \in Range(b) PROVE x \in Range(a \o b)
  <2>1. PICK i \in 1..Len(b) : x = b[i]
    BY <1>4 DEF Range
  <2>2. Len(a) + i \in 1..Len(a \o b) /\ (a \o b)[Len(a) + i] = x
    BY <1>1, <2>1
  <2> QED BY <1>1, <2>2 DEF Range
<1> QED BY <1>2, <1>3, <1>4

LEMMA RangeAppended ==
    ASSUME NEW S, NEW a \in Seq(S), NEW x \in S
    PROVE  Range(Append(a, x)) = Range(a) \cup {x}
<1> DEFINE b == <<x>>
<1>1. Append(a, x) = a \o b /\ b \in Seq(S)
  OBVIOUS
<1>2. Range(b) = {x}
  BY DEF Range
<1> HIDE DEF b
<1>3. Range(a \o b) = Range(a) \cup Range(b)
  BY <1>1, RangeJoined
<1> QED BY <1>1, <1>2, <1>3

LEMMA OneWordAlike ==
    ASSUME NEW options, NEW r \in Readings, NEW s \in Splits, NEW c \in Claps(options),
           NEW w, IsWord(w), Alike(r, s, c), ~s.over,
           ~SplitWord(s, w).over, ~SplitWord(s, w).refused
    PROVE  Alike(ReadWord(r, w), SplitWord(s, w), ClapWord(c, w))
<1>1. CASE s.skip
  <2>1. SplitWord(s, w).refused = (s.refused \/ Dashed(w)) /\ SplitWord(s, w).skip = FALSE
    BY <1>1 DEF SplitWord, Splits
  <2>2. ~Dashed(w)
    BY <2>1
  <2>3. ReadWord(r, w) = [r EXCEPT !.skip = FALSE] /\ ClapWord(c, w) = [c EXCEPT !.skip = FALSE]
    BY <1>1, <2>2 DEF Alike, ReadWord, ClapWord
  <2> QED BY <2>1, <2>3 DEF Alike, Readings, Claps
<1> DEFINE wants == WantsNext(w)
<1>2. CASE ~s.skip
  <2>1. w.kind \in {"long", "short"}
    BY <1>2 DEF SplitWord, Splits, IsWord
  <2>2. SplitWord(s, w).skip = wants
    BY <1>2, <2>1 DEF SplitWord, Splits
  <2>3. ~r.over /\ ~r.skip /\ ~c.skip /\ r.words \in Seq(Names) /\ Range(r.words) = c.given
    BY <1>2 DEF Alike
  <2>4. CASE w.kind = "long"
    <3>1. /\ ReadWord(r, w) = [r EXCEPT !.words = Append(@, w.name), !.skip = wants]
          /\ ClapWord(c, w) = [c EXCEPT !.given = @ \cup {w.name}, !.skip = wants]
      BY <2>3, <2>4 DEF ReadWord, ClapWord
    <3>2. w.name \in Names
      BY <2>4 DEF IsWord, Names
    <3>3. /\ Append(r.words, w.name) \in Seq(Names)
          /\ Range(Append(r.words, w.name)) = c.given \cup {w.name}
      BY <2>3, <3>2, RangeAppended
    <3> HIDE DEF wants
    <3>4. /\ ~ReadWord(r, w).over /\ ReadWord(r, w).skip = wants
          /\ ReadWord(r, w).words = Append(r.words, w.name)
      BY <2>3, <3>1 DEF Readings
    <3>5. ClapWord(c, w).given = c.given \cup {w.name} /\ ClapWord(c, w).skip = wants
      BY <3>1 DEF Claps
    <3> QED BY <2>2, <3>3, <3>4, <3>5 DEF Alike
  <2>5. CASE w.kind = "short"
    <3> DEFINE shorts == ShortsOf(w)
    <3>1. /\ ReadWord(r, w) = [r EXCEPT !.words = @ \o shorts, !.skip = wants]
          /\ ClapWord(c, w) = [c EXCEPT !.given = @ \cup Range(shorts), !.skip = wants]
      BY <2>3, <2>5 DEF ReadWord, ClapWord
    <3>2. shorts \in Seq(Names)
      BY <2>5, ShortsType
    <3> HIDE DEF wants, shorts
    <3>3. /\ r.words \o shorts \in Seq(Names)
          /\ Range(r.words \o shorts) = c.given \cup Range(shorts)
      BY <2>3, <3>2, RangeJoined
    <3>4. /\ ~ReadWord(r, w).over /\ ReadWord(r, w).skip = wants
          /\ ReadWord(r, w).words = r.words \o shorts
      BY <2>3, <3>1 DEF Readings
    <3>5. ClapWord(c, w).given = c.given \cup Range(shorts) /\ ClapWord(c, w).skip = wants
      BY <3>1 DEF Claps
    <3> QED BY <2>2, <3>3, <3>4, <3>5 DEF Alike
  <2> QED BY <2>1, <2>4, <2>5
<1> QED BY <1>1, <1>2 DEF Splits

\* A reading that goes on keeps the words it has, and all it has once it is over.
Keeps(r, q) ==
    /\ r.over => q = r
    /\ Len(r.words) <= Len(q.words) /\ \A i \in 1..Len(r.words) : q.words[i] = r.words[i]

LEMMA ReadWordKeeps ==
    ASSUME NEW r \in Readings, NEW w, IsWord(w)
    PROVE  LET q == ReadWord(r, w)
           IN  /\ r.over => q = r
               /\ Len(r.words) <= Len(q.words)
               /\ \A i \in 1..Len(r.words) : q.words[i] = r.words[i]
<1> DEFINE q == ReadWord(r, w)
<1>0. r.words \in Seq(Texts) /\ Len(r.words) \in Nat
  BY DEF Readings
<1>1. CASE r.over \/ r.skip \/ w.kind = "dashes"
  <2>1. q.words = r.words /\ (r.over => q = r)
    BY <1>1 DEF ReadWord, Readings
  <2> QED BY <1>0, <2>1
<1>2. CASE ~r.over /\ ~r.skip /\ w.kind = "long"
  <2>1. q.words = Append(r.words, w.name)
    BY <1>2 DEF ReadWord, Readings
  <2> QED BY <1>0, <1>2, <2>1
<1>3. CASE ~r.over /\ ~r.skip /\ w.kind = "plain"
  <2>1. q.words = Append(r.words, "positional")
    BY <1>3 DEF ReadWord, Readings
  <2> QED BY <1>0, <1>3, <2>1
<1>4. CASE ~r.over /\ ~r.skip /\ w.kind = "short"
  <2> DEFINE shorts == ShortsOf(w)
  <2>1. q.words = r.words \o shorts
    BY <1>4 DEF ReadWord, Readings
  <2>2. shorts \in Seq(Names) /\ Len(shorts) \in Nat
    BY <1>4, ShortsType
  <2> HIDE DEF shorts
  <2>3. Len(r.words \o shorts) = Len(r.words) + Len(shorts)
        /\ \A i \in 1..Len(r.words) : (r.words \o shorts)[i] = r.words[i]
    BY <1>0, <2>2
  <2> QED BY <1>0, <1>4, <2>1, <2>2, <2>3
<1> QED BY <1>1, <1>2, <1>3, <1>4 DEF IsWord

LEMMA ReadingKeeps ==
    ASSUME NEW line, LineWords(line), NEW r, IsReading(line, r), NEW m \in 0..Len(line)
    PROVE  Keeps(r[m], r[Len(line)])
<1> DEFINE N == Len(line)
           Q == {k \in Nat : m + k <= N => Keeps(r[m], r[m + k])}
<1>0. N \in Nat /\ m \in Nat /\ \A i \in 0..N : r[i] \in Readings
  BY DEF LineWords, IsReading
<1>1. 0 \in Q
  <2>1. Len(r[m].words) \in Nat
    BY <1>0 DEF Readings
  <2>2. Keeps(r[m], r[m])
    BY <2>1 DEF Keeps
  <2> QED BY <1>0, <2>2
<1>2. ASSUME NEW k \in Nat, k \in Q PROVE k + 1 \in Q
  <2> SUFFICES ASSUME m + (k + 1) <= N PROVE Keeps(r[m], r[m + (k + 1)])
    OBVIOUS
  <2> DEFINE i == m + k
             p == r[i]
             q == r[i + 1]
             w == line[i + 1]
  <2>1. /\ i + 1 \in 1..N /\ i \in 0..N /\ (i + 1) - 1 = i /\ m + (k + 1) = i + 1
        /\ Keeps(r[m], p)
    BY <1>0, <1>2
  <2>2. p \in Readings /\ q = ReadWord(p, w) /\ IsWord(w) /\ r[m] \in Readings
    BY <1>0, <2>1 DEF IsReading, LineWords
  <2>3. /\ p.over => q = p
        /\ Len(p.words) <= Len(q.words)
        /\ \A j \in 1..Len(p.words) : q.words[j] = p.words[j]
    <3> HIDE DEF p, q, w
    <3> QED BY <2>2, ReadWordKeeps
  <2>4. q \in Readings
    BY <1>0, <2>1
  <2> HIDE DEF p, q, w, i
  <2>5. Len(r[m].words) \in Nat /\ Len(p.words) \in Nat /\ Len(q.words) \in Nat
    BY <2>2, <2>4 DEF Readings
  <2>6. Keeps(r[m], q)
    BY <2>1, <2>3, <2>5 DEF Keeps
  <2> QED BY <2>1, <2>6 DEF q
<1>3. Nat \subseteq Q
  <2> HIDE DEF Q
  <2> QED BY <1>1, <1>2, SetInduction
<1> DEFINE k == N - m
<1>4. k \in Nat /\ m + k = N
  BY <1>0
<1> HIDE DEF k
<1>5. Keeps(r[m], r[m + k])
  BY <1>0, <1>3, <1>4
<1> QED BY <1>4, <1>5

\* The words of a reading that say whether the line is a run.
Runs(words) ==
    \A i \in DOMAIN words : words[i] \in VerbOptions => \E j \in 1..i - 1 : words[j] = "positional"

LEMMA RunsWithoutTask ==
    ASSUME NEW words \in Seq(Names)
    PROVE  Runs(words) <=> Range(words) \cap VerbOptions = {}
BY DEF Runs, Range, Names

LEMMA RunsWithTask ==
    ASSUME NEW words \in Seq(Names), NEW all, Len(words) + 1 <= Len(all), all \in Seq(Texts),
           \A i \in 1..Len(words) : all[i] = words[i], all[Len(words) + 1] = "positional"
    PROVE  Runs(all) <=> Range(words) \cap VerbOptions = {}
<1>1. Len(words) \in Nat /\ Len(all) \in Nat /\ DOMAIN all = 1..Len(all)
      /\ DOMAIN words = 1..Len(words)
  OBVIOUS
<1>2. \A i \in 1..Len(words) : all[i] # "positional"
  BY <1>1 DEF Names
<1>3. ASSUME Runs(all), NEW i \in 1..Len(words) PROVE words[i] \notin VerbOptions
  BY <1>1, <1>2, <1>3 DEF Runs
<1>4. ASSUME Range(words) \cap VerbOptions = {}, NEW i \in DOMAIN all, all[i] \in VerbOptions
      PROVE  \E j \in 1..i - 1 : all[j] = "positional"
  <2>1. i \notin 1..Len(words)
    BY <1>1, <1>4 DEF Range
  <2>2. all[Len(words) + 1] \notin VerbOptions
    BY DEF VerbOptions
  <2>3. Len(words) + 1 \in 1..i - 1
    BY <1>1, <1>4, <2>1, <2>2
  <2> QED BY <2>3
<1> QED BY <1>1, <1>3, <1>4 DEF Runs, Range

LEMMA ReadAlike ==
    ASSUME NEW line, LineWords(line), line \in Seq(Range(line)), ~SplitAtTask(line).refused
    PROVE  IsARun(line) <=>
              ClapOptions(SubSeq(line, 1, SplitAtTask(line).index)).given \cap VerbOptions = {}
<1>1. PICK r : IsReading(line, r) /\ CommandLineWords(line) = r[Len(line)].words
  BY ReadingIs
<1>2. PICK s : IsSplit(line, s) /\ SplitAtTask(line) = s[Len(line)]
  BY SplitIs
<1> DEFINE N == Len(line)
           n == s[N].index
           options == SubSeq(line, 1, n)
<1>3. Cut(s, N)
  BY <1>2, CutAll
<1>4. N \in Nat /\ n \in Nat /\ n <= N /\ s[N] \in Splits
  BY <1>2, <1>3 DEF Cut, IsSplit, Splits, LineWords
<1>5. Len(options) = n /\ \A i \in 1..n : options[i] = line[i] /\ IsWord(line[i])
  BY <1>4 DEF LineWords
<1>6. LineWords(options)
  BY <1>4, <1>5 DEF LineWords
<1>7. PICK c : IsClap(options, c) /\ ClapOptions(options) = c[Len(options)]
  <2> HIDE DEF options
  <2> QED BY <1>6, ClapIs
<1>8. \A j \in 0..n : ~s[j].over /\ ~s[j].refused /\ s[j] \in Splits /\ r[j] \in Readings
                      /\ c[j] \in Claps(options)
  <2>1. \A j \in 0..n : ~s[j].over /\ ~s[j].refused
    BY <1>2, <1>3 DEF Cut
  <2>2. \A j \in 0..n : j \in 0..N
    BY <1>4
  <2> HIDE DEF options
  <2> QED BY <1>1, <1>2, <1>5, <1>7, <2>1, <2>2 DEF IsReading, IsSplit, IsClap
<1> DEFINE Q == {k \in Nat : k <= n => Alike(r[k], s[k], c[k])}
<1>9. 0 \in Q
  <2>1. r[0] = NoneRead /\ s[0] = NoneSplit /\ c[0] = NoneGiven
    BY <1>1, <1>2, <1>7 DEF IsReading, IsSplit, IsClap
  <2>2. Range(<<>>) = {} /\ <<>> \in Seq(Names)
    BY DEF Range
  <2>3. Alike(NoneRead, NoneSplit, NoneGiven)
    BY <2>2 DEF Alike, NoneRead, NoneSplit, NoneGiven
  <2> QED BY <2>1, <2>3
<1>10. ASSUME NEW k \in Nat, k \in Q PROVE k + 1 \in Q
  <2> SUFFICES ASSUME k + 1 <= n PROVE Alike(r[k + 1], s[k + 1], c[k + 1])
    OBVIOUS
  <2> DEFINE w == line[k + 1]
  <2>1. /\ k + 1 \in 1..n /\ k + 1 \in 1..N /\ k \in 0..n /\ (k + 1) - 1 = k /\ k + 1 \in 0..n
        /\ Alike(r[k], s[k], c[k])
    BY <1>4, <1>10
  <2>2. /\ r[k + 1] = ReadWord(r[k], w) /\ s[k + 1] = SplitWord(s[k], w) /\ IsWord(w)
    BY <1>1, <1>2, <1>5, <2>1 DEF IsReading, IsSplit
  <2>3. c[k + 1] = ClapWord(c[k], w)
    <3>1. options[k + 1] = w /\ k + 1 \in 1..Len(options)
      BY <1>5, <2>1
    <3> HIDE DEF options
    <3> QED BY <1>7, <2>1, <3>1 DEF IsClap
  <2> HIDE DEF options, w, n
  <2>4. /\ ~s[k].over /\ ~s[k + 1].over /\ ~s[k + 1].refused /\ s[k] \in Splits
        /\ r[k] \in Readings /\ c[k] \in Claps(options)
    BY <1>8, <2>1
  <2> QED BY <2>1, <2>2, <2>3, <2>4, OneWordAlike
<1>11. Nat \subseteq Q
  <2> HIDE DEF Q
  <2> QED BY <1>9, <1>10, SetInduction
<1> SUFFICES IsARun(line) <=> ClapOptions(options).given \cap VerbOptions = {}
  BY <1>2
<1> HIDE DEF options
<1>12. Alike(r[n], s[n], c[n]) /\ ClapOptions(options) = c[n]
  BY <1>4, <1>5, <1>7, <1>11
<1> DEFINE words == r[n].words
<1>13. words \in Seq(Names) /\ Range(words) = ClapOptions(options).given
  BY <1>12 DEF Alike
<1>14. IsARun(line) <=> Runs(r[N].words)
  BY <1>1 DEF IsARun, Runs
<1>15. CASE n = N
  <2>1. Runs(words) <=> Range(words) \cap VerbOptions = {}
    BY <1>13, RunsWithoutTask
  <2> QED BY <1>13, <1>14, <1>15, <2>1
<1>16. CASE n < N
  <2> DEFINE w == line[n + 1]
  <2>1. n + 1 \in 1..N /\ n + 1 \in 0..N /\ (n + 1) - 1 = n /\ n \in 0..n
    BY <1>4, <1>16
  <2>2. s[n + 1].over
    BY <1>3, <1>4, <1>16 DEF Cut, Splits
  <2>3. /\ r[n + 1] = ReadWord(r[n], w) /\ s[n + 1] = SplitWord(s[n], w) /\ IsWord(w)
    BY <1>1, <1>2, <2>1 DEF IsReading, IsSplit, LineWords
  <2>4. ~s[n].over /\ s[n] \in Splits /\ r[n] \in Readings /\ r[N] \in Readings
    BY <1>1, <1>4, <1>8, <2>1 DEF IsReading
  <2>5. w.kind \in {"dashes", "plain"} /\ ~s[n].skip
    BY <2>2, <2>3, <2>4 DEF SplitWord, Splits
  <2>6. ~r[n].over /\ ~r[n].skip
    BY <1>12, <2>5 DEF Alike
  <2>7. Keeps(r[n + 1], r[N])
    BY <1>1, <2>1, ReadingKeeps
  <2>8. CASE w.kind = "dashes"
    <3>1. r[n + 1].over /\ r[n + 1].words = words
      BY <2>3, <2>4, <2>6, <2>8 DEF ReadWord, Readings
    <3>2. r[N].words = words
      BY <2>7, <3>1 DEF Keeps
    <3>3. Runs(words) <=> Range(words) \cap VerbOptions = {}
      BY <1>13, RunsWithoutTask
    <3> QED BY <1>13, <1>14, <3>2, <3>3
  <2>9. CASE w.kind = "plain"
    <3>1. r[n + 1].words = Append(words, "positional")
      BY <2>3, <2>4, <2>6, <2>9 DEF ReadWord, Readings
    <3> DEFINE all == r[N].words
    <3>2. all \in Seq(Texts)
      BY <2>4 DEF Readings
    <3>3. /\ Len(Append(words, "positional")) <= Len(all)
          /\ \A i \in 1..Len(Append(words, "positional")) :
                all[i] = Append(words, "positional")[i]
      BY <2>7, <3>1 DEF Keeps
    <3> HIDE DEF words, all
    <3>4. /\ Len(words) + 1 <= Len(all) /\ all[Len(words) + 1] = "positional"
          /\ \A i \in 1..Len(words) : all[i] = words[i]
      <4>1. Len(words) \in Nat /\ Len(Append(words, "positional")) = Len(words) + 1
            /\ \A i \in 1..Len(words) : Append(words, "positional")[i] = words[i]
            /\ Append(words, "positional")[Len(words) + 1] = "positional"
        BY <1>13
      <4>2. Len(words) + 1 \in 1..Len(words) + 1
            /\ \A i \in 1..Len(words) : i \in 1..Len(words) + 1
        BY <4>1
      <4> QED BY <3>3, <4>1, <4>2
    <3>5. Runs(all) <=> Range(words) \cap VerbOptions = {}
      BY <1>13, <3>2, <3>4, RunsWithTask
    <3> QED BY <1>13, <1>14, <3>5 DEF all
  <2> QED BY <2>5, <2>8, <2>9
<1> QED BY <1>4, <1>15, <1>16

LineInv ==
    DOMAIN inv = InvFields /\ (inv.compat => inv.line \in Lines) /\ LineReadAlike

\* What every step but parse_args leaves of the line.
LineKept ==
    /\ DOMAIN inv' = InvFields /\ inv'.compat = inv.compat /\ inv'.line = inv.line
    /\ inv.compat => inv'.isRun = inv.isRun /\ inv.at # "parse"

LEMMA LineKeptHolds == ASSUME LineInv, LineKept PROVE LineInv'
BY DEF LineInv, LineKept, LineReadAlike

LEMMA ParseArgsRead == ASSUME LineInv, ParseArgs PROVE LineInv'
<1> DEFINE split == SplitAtTask(inv.line)
           clap == ClapOptions(SubSeq(inv.line, 1, split.index))
<1>1. inv.compat /\ inv.line \in Lines
  BY DEF LineInv, ParseArgs
<1>2. \/ Refuse(IsARun(inv.line))
      \/ ~split.refused /\ Starts(clap.given \cap VerbOptions = {}, CompatStages(clap.given))
  BY DEF ParseArgs
<1>3. ~split.refused => (IsARun(inv.line) <=> clap.given \cap VerbOptions = {})
  <2>1. LineWords(inv.line) /\ inv.line \in Seq(Range(inv.line))
    <3>1. inv.line \in Seq(Range(inv.line)) /\ \A i \in DOMAIN inv.line : IsWord(inv.line[i])
      BY <1>1, InvocationAssumption
    <3>2. Len(inv.line) \in Nat /\ DOMAIN inv.line = 1..Len(inv.line)
      BY <3>1
    <3> QED BY <3>1, <3>2 DEF LineWords
  <2> QED BY <2>1, ReadAlike
<1> HIDE DEF split, clap
<1>4. ASSUME Refuse(IsARun(inv.line)) PROVE LineInv'
  <2>1. /\ DOMAIN inv' = InvFields /\ inv'.compat = inv.compat /\ inv'.line = inv.line
        /\ inv'.isRun = IsARun(inv.line)
    BY <1>4 DEF LineInv, InvFields, Refuse
  <2> QED BY <1>1, <2>1 DEF LineInv, LineReadAlike
<1>5. ASSUME NEW runs, Starts(runs, CompatStages(clap.given)), runs = IsARun(inv.line)
      PROVE  LineInv'
  <2>1. /\ DOMAIN inv' = InvFields /\ inv'.compat = inv.compat /\ inv'.line = inv.line
        /\ inv'.isRun = runs
    BY <1>5 DEF LineInv, InvFields, Starts
  <2> QED BY <1>1, <1>5, <2>1 DEF LineInv, LineReadAlike
<1>6. IsARun(inv.line) \in BOOLEAN
  BY DEF IsARun
<1>7. ~split.refused => (clap.given \cap VerbOptions = {}) = IsARun(inv.line)
  BY <1>3, <1>6
<1> QED BY <1>2, <1>4, <1>5, <1>7

LEMMA LineStep == ASSUME LineInv, [InvocationStep]_invocationVars PROVE LineInv'
<1>1. CASE UNCHANGED invocationVars
  BY <1>1 DEF invocationVars, LineInv, LineReadAlike
<1>2. CASE ParseArgs
  BY <1>2, ParseArgsRead
<1>3. CASE ParseCli
  <2>1. LineKept
    BY <1>3 DEF ParseCli, LineInv, InvFields, LineKept, Refuse, Starts
  <2> QED BY <2>1, LineKeptHolds
<1>4. CASE StagePasses \/ StageFails \/ SignalledWhileConnecting \/ PartsFail \/ UnknownTask
  <2>1. LineKept
    BY <1>4 DEF StagePasses, StageFails, SignalledWhileConnecting, PartsFail, UnknownTask, Fails,
                LineInv, InvFields, LineKept
  <2> QED BY <2>1, LineKeptHolds
<1>5. CASE RunTask
  <2>1. inv.at = "stages"
        /\ \/ \E error, truth, said : Fails(error, truth, said)
           \/ inv' = [inv EXCEPT !.stages = Tail(@), !.begun = @ \cup {"run"}]
    BY <1>5 DEF RunTask
  <2>2. LineKept
    BY <2>1 DEF Fails, LineInv, InvFields, LineKept
  <2> QED BY <2>2, LineKeptHolds
<1>6. CASE ConvertChecks \/ WriteGeneratedConfig \/ Converted
  <2>1. LineKept
    BY <1>6 DEF ConvertChecks, WriteGeneratedConfig, Writes, Converted, Fails, LineInv,
                InvFields, LineKept
  <2> QED BY <2>1, LineKeptHolds
<1>7. CASE SomebodyWrites
  BY <1>7 DEF SomebodyWrites, LineInv, LineReadAlike
<1>8. CASE ExitFailed \/ ExitOk
  <2>1. LineKept
    BY <1>8 DEF ExitFailed, ExitOk, LineInv, InvFields, LineKept
  <2> QED BY <2>1, LineKeptHolds
<1> QED BY <1>1, <1>2, <1>3, <1>4, <1>5, <1>6, <1>7, <1>8 DEF InvocationStep

LEMMA LineInvariant == InvocationSpec => []LineInv
<1>1. InvocationInit => LineInv
  BY DEF InvocationInit, LineInv, InvFields, LineReadAlike
<1>2. LineInv /\ [InvocationStep]_invocationVars => LineInv'
  BY LineStep
<1> QED BY <1>1, <1>2, PTL DEF InvocationSpec

\* Whatever a command line, a verb and a container's codes are, an invocation
\* exits with the code of what happened and reports a failure just once, one that
\* lists, cleans or upgrades runs nothing, and a line that parses is a run just when
\* is_a_run reads it as one (for_failure, for_error, already_reported, run of
\* ratect-compat, split_at_task, command_line_words).
THEOREM ExitTellsOutcomeHolds == InvocationSpec => []ExitTellsOutcome
<1>1. OutcomeInv => OutcomeTold /\ VerbsRunNothing
  <2> SUFFICES ASSUME OutcomeInv PROVE VerbsRunNothing
    BY DEF OutcomeInv
  <2>1. PICK plan : inv.begun \subseteq plan /\ PlanOK(plan, inv.compat, inv.isRun)
    BY DEF OutcomeInv, PlanInv
  <2> QED BY <2>1 DEF VerbsRunNothing, PlanOK
<1>2. OutcomeInv /\ LineInv => ExitTellsOutcome
  BY <1>1 DEF LineInv, ExitTellsOutcome
<1> QED BY OutcomeInvariant, LineInvariant, <1>2, PTL

----------------------------------------------------------------------------
(* The files of convert.                                                   *)

Contents == {None, "theirs", "part", "ours"}

ConvertInv ==
    /\ DOMAIN inv = InvFields /\ file \in [Range(Targets) -> Contents]
    /\ inv.todo \in Seq(Range(Targets))
    /\ inv.written \subseteq Range(Targets) /\ \A t \in inv.written : file[t] # None

\* What a step keeps of the targets.
FilesKept ==
    /\ \A t \in Range(Targets) : file[t] = "theirs" /\ ~inv.force => file'[t] = "theirs"
    /\ \A t \in Range(Targets) : file[t] # None => file'[t] # None

LEMMA ConvertStep ==
    ASSUME ConvertInv, InvocationStep
    PROVE  ConvertInv' /\ FilesKept
<1> DEFINE Quiet == /\ inv'.todo = inv.todo /\ inv'.written = inv.written /\ file' = file
                    /\ DOMAIN inv' = InvFields
<1>1. CASE ParseArgs \/ ParseCli \/ StagePasses \/ StageFails
  <2>1. Quiet
    BY <1>1 DEF ConvertInv, InvFields, ParseArgs, ParseCli, StagePasses, StageFails, Refuse,
                Starts, Fails
  <2> QED BY <2>1 DEF ConvertInv, FilesKept
<1>2. CASE SignalledWhileConnecting \/ PartsFail \/ UnknownTask
  <2>1. Quiet
    BY <1>2 DEF ConvertInv, InvFields, SignalledWhileConnecting, PartsFail, UnknownTask, Fails
  <2> QED BY <2>1 DEF ConvertInv, FilesKept
<1>3. CASE RunTask \/ Converted \/ ExitFailed \/ ExitOk
  <2>1. Quiet
    BY <1>3 DEF ConvertInv, InvFields, RunTask, Converted, ExitFailed, ExitOk, Fails
  <2> QED BY <2>1 DEF ConvertInv, FilesKept
<1>4. CASE ConvertChecks
  <2>1. /\ inv'.todo \in {inv.todo, Targets} /\ inv'.written = inv.written /\ file' = file
        /\ DOMAIN inv' = InvFields
    BY <1>4 DEF ConvertInv, InvFields, ConvertChecks, Fails
  <2> QED BY <2>1, InvocationAssumption DEF ConvertInv, FilesKept
<1>5. CASE SomebodyWrites
  <2>1. PICK t \in Range(Targets) :
            file[t] = None /\ file' = [file EXCEPT ![t] = "theirs"] /\ inv' = inv
    BY <1>5 DEF SomebodyWrites
  <2> QED BY <2>1, InvocationAssumption DEF ConvertInv, FilesKept, Contents
<1>6. CASE WriteGeneratedConfig
  <2> DEFINE t == Head(inv.todo)
  <2>1. t \in Range(Targets) /\ Tail(inv.todo) \in Seq(Range(Targets))
    BY <1>6 DEF WriteGeneratedConfig, ConvertInv
  <2>2. CASE Fails([as |-> "other"], [as |-> "ratect"], 0) /\ UNCHANGED file
    <3>1. Quiet
      BY <2>2 DEF ConvertInv, InvFields, Fails
    <3> QED BY <3>1 DEF ConvertInv, FilesKept
  <2>3. CASE Writes(t) /\ (inv.force \/ file[t] = None)
    <3>1. CASE /\ file' = [file EXCEPT ![t] = "ours"]
               /\ inv' = [inv EXCEPT !.todo = Tail(@), !.written = @ \cup {t}]
      <4>1. /\ inv'.todo = Tail(inv.todo) /\ inv'.written = inv.written \cup {t}
            /\ DOMAIN inv' = InvFields
        BY <3>1 DEF ConvertInv, InvFields
      <4> HIDE DEF t
      <4> QED BY <2>1, <2>3, <3>1, <4>1, InvocationAssumption DEF ConvertInv, FilesKept, Contents
    <3>2. CASE /\ file' = [file EXCEPT ![t] = IF inv.force THEN @ ELSE "part"]
               /\ Fails([as |-> "other"], [as |-> "ratect"], 0)
      <4>1. /\ inv'.todo = inv.todo /\ inv'.written = inv.written /\ DOMAIN inv' = InvFields
        BY <3>2 DEF ConvertInv, InvFields, Fails
      <4> HIDE DEF t
      <4> QED BY <2>1, <2>3, <3>2, <4>1, InvocationAssumption DEF ConvertInv, FilesKept, Contents
    <3> QED BY <2>3, <3>1, <3>2 DEF Writes
  <2> QED BY <1>6, <2>2, <2>3 DEF WriteGeneratedConfig
<1> QED BY <1>1, <1>2, <1>3, <1>4, <1>5, <1>6 DEF InvocationStep

LEMMA ConvertInvariant == InvocationSpec => []ConvertInv
<1>1. InvocationInit => ConvertInv
  <2> SUFFICES ASSUME InvocationInit PROVE ConvertInv
    OBVIOUS
  <2>1. DOMAIN inv = InvFields /\ inv.todo = <<>> /\ inv.written = {}
    BY DEF InvocationInit, InvFields
  <2>2. file \in [Range(Targets) -> {None, "theirs"}]
    BY DEF InvocationInit
  <2> QED BY <2>1, <2>2 DEF ConvertInv, Contents
<1>2. ConvertInv /\ [InvocationStep]_invocationVars => ConvertInv'
  BY ConvertStep DEF ConvertInv, invocationVars
<1> QED BY <1>1, <1>2, PTL DEF InvocationSpec

\* Whatever the targets are and whoever else writes them, convert without --force
\* replaces no file, and the files it says it wrote are there when it exits
\* (convert_config, write_generated_config).
THEOREM ConvertKeepsFilesHolds == InvocationSpec => ConvertKeepsFiles
<1>1. ConvertInv /\ [InvocationStep]_invocationVars =>
        [/\ \A t \in Range(Targets) : file[t] = "theirs" /\ ~inv.force => file'[t] = "theirs"
         /\ inv'.at = "exited" /\ inv.verb = "convert" =>
               \A t \in inv.written : file[t] # None]_invocationVars
  BY ConvertStep DEF ConvertInv, FilesKept
<1> QED BY ConvertInvariant, <1>1, PTL DEF InvocationSpec, ConvertKeepsFiles
====
