--------------------------- MODULE ConfigLoad ---------------------------
(***************************************************************************)
(* How the files of a project are found and read: config.rs's              *)
(* load_from_file_impl, the trust a Git bundle is read under               *)
(* (include_trust.rs), the check of what version a bundle was written for  *)
(* (written_for.rs), and the walk shell completion makes over the same     *)
(* files without loading them.  Files are named by their cleaned absolute  *)
(* path, releases by their place in the order of release lines.            *)
(***************************************************************************)
EXTENDS Naturals, Sequences, FiniteSets, SequencesExt

CONSTANTS
    Layouts,    \* the file trees and invocations to load, in families
    Running,    \* this binary's release
    Breaking,   \* the releases with a row in BREAKING_CHANGES
    None

FirstNative == 0

\* What an include of a layout's file may say.
IncludesOf(l) ==
    [kind : {"file"}, path : DOMAIN l.files] \cup
    [kind : {"git"}, repo : DOMAIN l.bundle, host : BOOLEAN, nested : {"unset", "yes"},
     reviewed : Nat \cup {None}, path : DOMAIN l.files \cup {None}]

\* What a file is read under, when it is not the project's own.
GrantsOf(l) == [repo : DOMAIN l.bundle, host : BOOLEAN, nested : BOOLEAN]

\* Paths are those of the layout, and no include of the project's own leads, by
\* its path, into a bundle's checkout.
LayoutOK(l) ==
    /\ l.root \in DOMAIN l.files
    /\ l.bundle \in [DOMAIN l.bundle -> Seq(DOMAIN l.files)]
    /\ \A f \in DOMAIN l.files : l.files[f].includes \in Seq(IncludesOf(l))
    /\ LET own == {f \in DOMAIN l.files : l.files[f].at \notin DOMAIN l.bundle}
       IN /\ l.root \in own
          /\ \A f \in own : \A n \in DOMAIN l.files[f].includes :
                LET e == l.files[f].includes[n] IN e.kind = "file" => e.path \in own
    /\ None \notin GrantsOf(l)

ASSUME LayoutsAssumption == \A i \in DOMAIN Layouts : \A l \in Layouts[i] : LayoutOK(l)

VARIABLES
    layout,     \* format, whether versions are checked, the root, the files,
                \* the Git remotes that cannot be cloned, and what is asked
                \* after the load: completions, or a task
    phase,      \* where the load stands
    queue,      \* includes found and not followed
    seen,       \* files reached
    effective,  \* EffectiveGrants: the trust each file was read under
    clones,     \* git_repo_paths: the remotes cloned
    locals,     \* bundle_local_includes
    entries,    \* the YAML files Git includes named, judged after the loop
    loaded,     \* the files read, in order, each with its boundary
    walk,       \* completion: the files being followed, innermost last
    visited,    \* completion: files reached
    offered     \* completion: task names collected

loadVars == <<phase, queue, seen, effective, clones, locals, entries, loaded>>
walkVars == <<walk, visited, offered>>
configLoadVars == <<layout, loadVars, walkVars>>

Native == layout.format = "native"
File(f) == layout.files[f]

Init ==
    /\ \E i \in DOMAIN Layouts : layout \in Layouts[i]
    /\ phase = "written_for"
    /\ queue = <<>> /\ seen = {} /\ effective = [f \in {} |-> None]
    /\ clones = {} /\ locals = {} /\ entries = {} /\ loaded = <<>>
    /\ walk = None /\ visited = {} /\ offered = {}

BoundariesOf(l) == GrantsOf(l) \cup {None}
EntriesOf(l) ==
    [from : DOMAIN l.files, boundary : BoundariesOf(l), include : IncludesOf(l)]
PlacesOf(l) == [file : DOMAIN l.files, boundary : BoundariesOf(l)]
VisitsOf(l) ==
    [file : DOMAIN l.files, boundary : BoundariesOf(l), left : Seq(IncludesOf(l))]

LoadTypeOK ==
    /\ \E i \in DOMAIN Layouts : layout \in Layouts[i]
    /\ phase \in {"written_for", "root", "includes", "read", "refused"}
    /\ queue \in Seq(EntriesOf(layout))
    /\ seen \subseteq DOMAIN layout.files
    /\ effective \in [seen \ {layout.root} -> BoundariesOf(layout)]
    /\ clones \subseteq DOMAIN layout.bundle
    /\ locals \subseteq (DOMAIN layout.files) \X (DOMAIN layout.files)
    /\ entries \subseteq (DOMAIN layout.files) \X (Nat \cup {None})
    /\ loaded \in Seq(PlacesOf(layout))
    /\ walk = None \/ walk \in Seq(VisitsOf(layout))
    /\ visited \subseteq DOMAIN layout.files

Refuse ==
    /\ phase' = "refused"
    /\ UNCHANGED <<queue, seen, effective, loaded>>

----------------------------------------------------------------------------
(* What a project and a bundle were written for.                           *)

ChangesSince(release) == \E b \in Breaking : b > release

WrittenFor(f) == IF File(f).version = None THEN FirstNative ELSE File(f).version

\* A TOML root of a later release is refused, and one older than a change.
RootCovered ==
    LET declared == WrittenFor(layout.root)
    IN declared <= Running /\ ~ChangesSince(declared)

\* The later of what the bundle's entry file declares and what its include says
\* has been reviewed.
CoveredBy(declared, reviewed) ==
    LET known == {declared, reviewed} \ {None}
    IN IF known = {} THEN FirstNative
       ELSE CHOOSE v \in known : \A w \in known : v >= w

\* check_bundle: reachesToml says whether a YAML entry reaches a TOML file.
BundleCovered(f, reviewed, reachesToml) ==
    /\ \A v \in {File(f).version, reviewed} \ {None} : v <= Running
    /\ File(f).toml \/ reachesToml =>
          ~ChangesSince(CoveredBy(File(f).version, reviewed))

\* The files a set of links leads to from one: those in every set that holds it
\* and holds, with a file, where its links lead.
LedTo(files, links, f) ==
    LET closed == {S \in SUBSET files : f \in S /\ \A p \in links : p[1] \in S => p[2] \in S}
    IN {g \in files : \A S \in closed : g \in S}

\* first_toml_reached, over the local includes followed inside bundles.
ReachesToml(f) ==
    \E g \in LedTo(DOMAIN layout.files, locals, f) : g # f /\ File(g).toml

----------------------------------------------------------------------------
(* Trust.                                                                  *)

\* Bundle::granted: only an include the project's owner wrote grants anything.
Granted(boundary, e) ==
    [repo |-> e.repo,
     host |-> e.host /\ boundary = None,
     nested |-> e.nested = "yes" /\ boundary = None]

ReadsAsBatect(f) == ~Native \/ ~File(f).toml

\* check_dialect: a Batect-format file can set neither native field.
DialectAllows(f, e) ==
    ReadsAsBatect(f) => e.nested = "unset" /\ e.reviewed = None

\* restricting, refusing_nested_git, check_may_declare_git.
MayDeclareGit(boundary) ==
    Native /\ boundary # None => boundary.nested

\* check_contains, on the path as written.
Within(boundary, f) == boundary # None => File(f).at = boundary.repo

\* Mutant: links are not followed.
BoundaryContains_Lexical(boundary, f) == Within(boundary, f)

\* boundary_contains: on the path as written and on what it really is.
BoundaryContains(boundary, f) ==
    boundary # None => Within(boundary, f) /\ File(f).real = boundary.repo

\* Mutant: a grant that comes too late is dropped without a word.
GrantLost_Never(f, boundary) == FALSE

\* EffectiveGrants::check: would the file, already read, have been read under
\* more by this route?
GrantLost(f, boundary) ==
    /\ boundary # None
    /\ LET had == IF f \in DOMAIN effective THEN effective[f]
                  ELSE [host |-> FALSE, nested |-> FALSE]
       IN had # None /\ \/ boundary.host /\ ~had.host
                        \/ boundary.nested /\ ~had.nested

----------------------------------------------------------------------------
(* The load.                                                               *)

\* The first candidate that is a file, where an include without a path has one
\* for each bundle file name of the format.
Candidates(l, e) == IF e.path # None THEN <<e.path>> ELSE l.bundle[e.repo]

TargetIn(l, e) ==
    LET tries == Candidates(l, e)
        found == {i \in DOMAIN tries :
                     /\ l.files[tries[i]].exists
                     /\ e.path = None => l.format = "native" \/ ~l.files[tries[i]].toml}
    IN IF found = {} THEN None ELSE tries[Min(found)]

Target(e) == TargetIn(layout, e)

Entries(f, boundary) ==
    [i \in DOMAIN File(f).includes |->
        [from |-> f, boundary |-> boundary, include |-> File(f).includes[i]]]

\* reject_misplaced_ratect_version, and what only the root may declare.
WellPlaced(f, mayDeclareVersion) ==
    /\ File(f).version # None => ~ReadsAsBatect(f) /\ mayDeclareVersion
    /\ f # layout.root => File(f).claims = {}

Parses(f) == File(f).exists /\ File(f).parses /\ (~Native => ~File(f).toml)

\* written_for::check, before the root is parsed.
CheckRoot ==
    /\ phase = "written_for"
    /\ IF layout.checked /\ File(layout.root).toml /\ ~RootCovered
         THEN Refuse
         ELSE phase' = "root" /\ UNCHANGED <<queue, seen, effective, loaded>>
    /\ UNCHANGED <<layout, clones, locals, entries, walkVars>>

LoadRoot ==
    /\ phase = "root"
    /\ IF ~Parses(layout.root) \/ ~WellPlaced(layout.root, TRUE)
         THEN Refuse
         ELSE /\ phase' = "includes"
              /\ seen' = {layout.root}
              /\ queue' = Entries(layout.root, None)
              /\ loaded' = <<[file |-> layout.root, boundary |-> None]>>
              /\ effective' = effective
    /\ UNCHANGED <<layout, clones, locals, entries, walkVars>>

\* Mutant: an include of a file already reached goes back to the queue.
Arrive_Requeues(f, boundary, byGit) ==
    IF f \in seen
      THEN queue' = Append(Tail(queue), Head(queue))
           /\ UNCHANGED <<phase, seen, effective, loaded>>
      ELSE /\ Parses(f) /\ WellPlaced(f, byGit)
           /\ seen' = seen \cup {f}
           /\ effective' = [g \in DOMAIN effective \cup {f} |->
                               IF g = f THEN boundary ELSE effective[g]]
           /\ queue' = Tail(queue) \o Entries(f, boundary)
           /\ loaded' = Append(loaded, [file |-> f, boundary |-> boundary])
           /\ phase' = phase

\* The rest of an include once its target is known: a file already reached is
\* not read again, and a grant it would lose is refused.
Arrive(f, boundary, byGit) ==
    IF f \in seen
      THEN IF GrantLost(f, boundary)
             THEN Refuse
             ELSE queue' = Tail(queue) /\ UNCHANGED <<phase, seen, effective, loaded>>
      ELSE IF ~Parses(f) \/ ~WellPlaced(f, byGit)
             THEN Refuse
             ELSE /\ seen' = seen \cup {f}
                  /\ effective' = [g \in DOMAIN effective \cup {f} |->
                                      IF g = f THEN boundary ELSE effective[g]]
                  /\ queue' = Tail(queue) \o Entries(f, boundary)
                  /\ loaded' = Append(loaded, [file |-> f, boundary |-> boundary])
                  /\ phase' = phase

\* Mutant: the local includes of a bundle are noted only when they are read.
NoteLocal_WhenRead(from, f, boundary) ==
    IF boundary = None \/ f \in seen THEN locals ELSE locals \cup {<<from, f>>}

NoteLocal(from, f, boundary) ==
    IF boundary = None THEN locals ELSE locals \cup {<<from, f>>}

\* A local include: it stays within its bundle, and is read under its boundary.
FollowFile ==
    /\ phase = "includes" /\ queue # <<>> /\ Head(queue).include.kind = "file"
    /\ LET next == Head(queue)
           f == next.include.path
       IN IF ~File(f).exists \/ ~BoundaryContains(next.boundary, f)
            THEN Refuse /\ locals' = locals
            ELSE /\ locals' = NoteLocal(next.from, f, next.boundary)
                 /\ Arrive(f, next.boundary, FALSE)
    /\ UNCHANGED <<layout, clones, entries, walkVars>>

\* The remote an include has cloned, if it may be declared where it is.
CloneNow(next) ==
    IF DialectAllows(next.from, next.include) /\ MayDeclareGit(next.boundary)
      THEN next.include.repo
      ELSE None

\* A Git include: judged by where it stands before anything is cloned, then
\* cloned once, and its entry file judged by what it was written for.
FollowGit ==
    /\ phase = "includes" /\ queue # <<>> /\ Head(queue).include.kind = "git"
    /\ LET next == Head(queue)
           e == next.include
           f == Target(e)
           boundary == Granted(next.boundary, e)
       IN /\ clones' = clones \cup ({CloneNow(next)} \ ({None} \cup layout.unreachable))
          /\ IF \/ ~DialectAllows(next.from, e) \/ ~MayDeclareGit(next.boundary)
                \/ e.repo \in layout.unreachable
                \/ f = None
                \/ ~BoundaryContains(boundary, f)
                \/ layout.checked /\ File(f).toml /\ ~BundleCovered(f, e.reviewed, FALSE)
               THEN Refuse /\ entries' = entries
               ELSE /\ entries' = IF layout.checked /\ ~File(f).toml
                                    THEN entries \cup {<<f, e.reviewed>>}
                                    ELSE entries
                    /\ Arrive(f, boundary, TRUE)
    /\ UNCHANGED <<layout, locals, walkVars>>

\* check_yaml_root: a YAML root is judged only by the TOML files it loads.
YamlRootReachesToml ==
    /\ ~File(layout.root).toml
    /\ \E i \in DOMAIN loaded : File(loaded[i].file).toml

\* What is left once every include has been followed: the YAML entry files, the
\* project's name, and names defined twice.
FinishLoad ==
    /\ phase = "includes" /\ queue = <<>>
    /\ LET Defined == [i \in DOMAIN loaded |-> File(loaded[i].file).tasks]
       IN phase' = IF /\ \A y \in entries : BundleCovered(y[1], y[2], ReachesToml(y[1]))
                      /\ Native => "project_name" \in File(layout.root).claims
                      /\ \A i, j \in DOMAIN loaded :
                            i # j => Defined[i] \cap Defined[j] = {}
                      /\ layout.checked /\ YamlRootReachesToml
                            => ~ChangesSince(FirstNative)
                     THEN "read" ELSE "refused"
    /\ UNCHANGED <<layout, queue, seen, effective, clones, locals, entries,
                   loaded, walkVars>>

LoadStep == CheckRoot \/ LoadRoot \/ FollowFile \/ FollowGit \/ FinishLoad

----------------------------------------------------------------------------
(* Completion: a depth-first walk that reads what it may and never fails.  *)

\* Where the walk goes from an include: the file and its boundary, or nowhere.
WalkTarget(from, boundary, e) ==
    LET f == IF e.kind = "file" THEN e.path ELSE Target(e)
        inner == IF e.kind = "file" THEN boundary ELSE Granted(boundary, e)
    IN IF \/ e.kind = "git" /\ \/ ~DialectAllows(from, e)
                               \/ ~MayDeclareGit(boundary)
                               \/ e.repo \notin clones
          \/ f = None
          \/ ~BoundaryContains(inner, f)
         THEN None
         ELSE [file |-> f, boundary |-> inner]

\* A file is read once, by whichever route comes to it first.
WalkInto(stack, place) ==
    IF place = None \/ place.file \in visited
      THEN walk' = stack /\ UNCHANGED <<visited, offered>>
      ELSE /\ visited' = visited \cup {place.file}
           /\ IF Parses(place.file)
                THEN /\ offered' = offered \cup File(place.file).tasks
                     /\ walk' = Append(stack,
                           [file |-> place.file, boundary |-> place.boundary,
                            left |-> File(place.file).includes])
                ELSE offered' = offered /\ walk' = stack

\* After a load has left its clones in the cache.
BeginWalk ==
    /\ Native /\ layout.then = "complete"
    /\ phase \in {"read", "refused"} /\ walk = None
    /\ WalkInto(<<>>, [file |-> layout.root, boundary |-> None])
    /\ UNCHANGED <<layout, loadVars>>

WalkOn ==
    /\ walk # None /\ walk # <<>>
    /\ LET top == Last(walk)
       IN IF top.left = <<>>
            THEN walk' = Front(walk) /\ UNCHANGED <<visited, offered>>
            ELSE WalkInto(Append(Front(walk), [top EXCEPT !.left = Tail(@)]),
                          WalkTarget(top.file, top.boundary, Head(top.left)))
    /\ UNCHANGED <<layout, loadVars>>

WalkStep == BeginWalk \/ WalkOn
----------------------------------------------------------------------------
(* Properties.                                                             *)

Own(i) == loaded[i].boundary = None

OwnersEntries(repo) ==
    {e \in UNION {ToSet(File(loaded[i].file).includes) : i \in {i \in DOMAIN loaded : Own(i)}} :
        e.kind = "git" /\ e.repo = repo}

\* Under the native format every remote cloned is one the project's owner named,
\* or one named by a bundle the owner let name remotes; no file is read under a
\* permission the owner did not write on an include of its bundle; and a load
\* that succeeds has lost none of the permissions the owner wrote on the includes
\* it followed (load_from_file_impl, Bundle::granted, EffectiveGrants::check).
TrustIsTheOwners ==
    Native =>
    /\ \A r \in clones :
          \/ OwnersEntries(r) # {}
          \/ \E i \in DOMAIN loaded :
                /\ ~Own(i) /\ loaded[i].boundary.nested
                /\ \E n \in DOMAIN File(loaded[i].file).includes :
                      LET e == File(loaded[i].file).includes[n]
                      IN e.kind = "git" /\ e.repo = r
    /\ \A i \in DOMAIN loaded : ~Own(i) =>
          LET b == loaded[i].boundary
          IN /\ b.host => \E e \in OwnersEntries(b.repo) : e.host
             /\ b.nested => \E e \in OwnersEntries(b.repo) : e.nested = "yes"
    /\ phase = "read" =>
          \A i, j \in DOMAIN loaded :
              Own(i) /\ ~Own(j) =>
                 \A e \in OwnersEntries(loaded[j].boundary.repo) :
                    Target(e) = loaded[j].file =>
                       /\ e.host => loaded[j].boundary.host
                       /\ e.nested = "yes" => loaded[j].boundary.nested

\* Neither the load nor completion reads, for a bundle, a file outside that
\* bundle's checkout, through a link or not (boundary_contains).
BundlesReadThemselves ==
    /\ \A i \in DOMAIN loaded :
          ~Own(i) => File(loaded[i].file).real = loaded[i].boundary.repo
    /\ walk \notin {None, <<>>} =>
          \A n \in DOMAIN walk : walk[n].boundary # None =>
              File(walk[n].file).real = walk[n].boundary.repo

\* In a load that checks versions and succeeds, every TOML file of a bundle has
\* been covered, by the include that names it or by every include that names a
\* file it is reached from (check_bundle, check_bundle_entry, first_toml_reached).
BundlesCovered ==
    phase = "read" /\ layout.checked =>
        LET files == DOMAIN layout.files
            links == {p \in files \X files : \E e \in ToSet(File(p[1]).includes) :
                         e.kind = "file" /\ e.path = p[2]}
        IN \A i \in DOMAIN loaded : \A e \in ToSet(File(loaded[i].file).includes) :
            e.kind = "git" =>
                \A f \in LedTo(files, links, Target(e)) :
                    File(f).toml =>
                        ~ChangesSince(CoveredBy(File(Target(e)).version, e.reviewed))
==========================================================================
