---------------------------- MODULE ContractHardener --------------------------
(***************************************************************************)
(* scripts/harden_client_contract.py over a clients repository: it chooses *)
(* a directory for every target, writes a small package where there is no  *)
(* code, and brings .zpkg.toml, the matrix, the API surface, a marker in   *)
(* every client directory and the contract manifest up to date; --check    *)
(* only reads.  Between two runs developers change the repository.  A run  *)
(* is killed between two writes, or in the middle of one.                  *)
(*                                                                         *)
(* Every file write of the script is a step of its own.  Digests are taken *)
(* to be injective: the digest of a value is the value.  There are no      *)
(* symbolic links: a path inside the repository resolves to itself, so the *)
(* two errors for a directory of TARGETS that leads out of the repository  *)
(* cannot happen, and no two names are one directory.                      *)
(***************************************************************************)
EXTENDS ApiSurface, SequencesExt

CONSTANTS
    Specs,           \* the targets of the fleet, in the order of TARGETS
    MinimumTargets,  \* MINIMUM_TARGETS: the targets a repository must have (15 of 20)
    Repositories,    \* the repositories the script may find
    OwnFiles,        \* the files developers may write: <<directory, file>>
    Kebabs,          \* the names of directories that are not in kebab form, and their kebab forms
    Layouts,         \* manifest entries developers may set: <<target, directory>>
    MaxEdits,        \* bound: changes by developers
    MaxCrashes       \* bound: runs that are killed

Targets == 1..Len(Specs)
Published == {i \in Targets : Specs[i].publish}

\* A path is the sequence of its names, relative to the repository.
Paths == Seq(STRING)

\* A file by its name, and what the script asks of its name: see ClientTargets.
FileKinds == [name : STRING, rooted : BOOLEAN, counted : BOOLEAN, migrated : BOOLEAN]

\* A row of TARGETS.
TargetSpecs == [name : STRING, zed : STRING, dir : Paths, aliases : Seq(Paths), runtime : STRING,
                zedAliases : Seq(STRING), publish : BOOLEAN, files : Seq(FileKinds)]

\* src/runtimes/<runtime> of the shared TypeScript package.
Slice(runtime) == [name |-> runtime, rooted |-> TRUE, counted |-> TRUE, migrated |-> FALSE]

\* The directory with the markers of the runtimes that share a package.
Nested == ".zed-contracts"

\* Path.is_relative_to
Under(base, path) == IsPrefix(base, path)

\* The source files of the package the script writes for a target.
Generated(i) == {f \in ToSet(Specs[i].files) : f.rooted}
Packages == {[sources |-> Generated(i), files |-> ToSet(Specs[i].files)] : i \in Targets}

\* What is true of TARGETS and of the files scaffold_target writes.
ASSUME HardenerAssumption ==
    /\ Specs \in Seq(TargetSpecs)
    /\ \A i, j \in Targets : Specs[i].dir = Specs[j].dir => i = j
    /\ \A i \in Targets : Len(Specs[i].dir) > 0 /\ Specs[i].dir[1] = "clients"
    /\ MaxEdits \in Nat /\ MaxCrashes \in Nat

\* No two targets have a name in common; no target belongs inside of another.
ASSUME NamesAssumption ==
    /\ MinimumTargets \in 3..Len(Specs)
    /\ \A i, j \in Targets :
        /\ Specs[i].name = Specs[j].name \/ Under(Specs[i].dir, Specs[j].dir) => i = j
        /\ i \in Published => Specs[i].zed \notin ToSet(Specs[j].zedAliases)
    /\ \A i, j \in Published : Specs[i].zed = Specs[j].zed => i = j
    /\ \A i \in Targets :
        /\ Specs[i].zed # "repository" /\ Len(Specs[i].aliases) <= 1
        /\ Nested \notin ToSet(Specs[i].dir)
        /\ \A a \in ToSet(Specs[i].aliases) : Nested \notin ToSet(a)

\* Every package has a source; where there is one, it is written last.  A source
\* belongs to one package, or to packages of the same files.  None is a runtime's
\* slice, and only a runtime's package has a package.json.
ASSUME FilesAssumption ==
    \A i \in Targets :
        /\ Generated(i) # {}
        /\ Cardinality(Generated(i)) = 1 =>
            \A k \in DOMAIN Specs[i].files : Specs[i].files[k].rooted => k = Len(Specs[i].files)
        /\ \A j \in Targets : Generated(i) \cap Generated(j) # {} => Specs[i].files = Specs[j].files
        /\ \A f \in ToSet(Specs[i].files) :
            /\ \A j \in Targets : f # Slice(Specs[j].runtime)
            /\ f.name = "package.json" => Specs[i].runtime # "none"

VARIABLES
    dirs,         \* the directories there are
    files,        \* the content of each source and metadata file, by <<directory, file>>
    manifest,     \* .zpkg.toml: its targets and its interface dependency
    schema,       \* whether clients/client-api.schema.json is the canonical one
    surface,      \* clients/api-surface.json
    fingerprint,  \* clients/.api-surface.sha256
    marker,       \* .zed-client-contract.json, by directory: its target and digest
    seal,         \* .zed-api-surface.sha256, by directory: its digest
    register,     \* clients/contract-manifest.json
    matrix,       \* clients/client-contract-matrix.json: the directory of each target
    mode,         \* "write" or "check"
    pc,           \* where the run is; "idle" when there is none
    chosen,       \* the directories chosen so far, in the order of Specs
    next,         \* the next target to scaffold
    plan,         \* the files still to write for the target being scaffolded
    work,         \* the directories still to mark, each with its name and its place
    entries,      \* the entries collected for the contract manifest
    report,       \* the kinds of error the last run found
    exit,         \* how it ended: "ok", "errors", "raised", or "none"
    settled,      \* history: a sound write ended "ok", and nobody has edited since
    sound,        \* history: what this write found in the manifest is nothing it cannot put right
    edits, crashes

repo == <<dirs, files, manifest, schema, surface, fingerprint, marker, seal, register, matrix>>
memory == <<chosen, next, plan, work, entries>>
vars == <<repo, mode, pc, memory, report, exit, settled, sound, edits, crashes>>

-----------------------------------------------------------------------------
(* The repository *)

Absent == "absent"
Torn == "torn"
Whole == "whole"
Empty == "empty"

NoSurface == Surface({}, {}, "none")
TornSurface == Surface({}, {}, "torn")
NoRegister == [state |-> Absent, digest |-> NoSurface, entries |-> {}]

Contents == {"baseline", "legacy", "own", "torn"}

SharedDir == <<"clients", "typescript">>

\* A file is written: the mapping with this value under this key.
Put(map, key, value) ==
    [k \in DOMAIN map \cup {key} |-> IF k = key THEN value ELSE map[k]]

Escapes(path) == path # <<>> /\ path[1] = ".."

Content(path) == files[path]

\* Any file below a native source root, or client.go or mod.ts.
has_product_implementation(d) == \E path \in DOMAIN files : path[1] = d /\ path[2].rooted

\* The names and contents of the sources and metadata below a directory.
implementation_evidence(d) ==
    {<<SubSeq(path[1], Len(d) + 1, Len(path[1])), path[2].name, Content(path)>> :
        path \in {path \in DOMAIN files : path[2].counted /\ Under(d, path[1])}}

ClientDirs == {d \in dirs : Len(d) = 2 /\ d[1] = "clients"}

\* The client directories that no target owns.
extension_client_dirs(owned) == {d \in ClientDirs : \A o \in ToSet(owned) : ~Under(d, o)}

marker_dir(spec, d) ==
    IF spec.runtime # "none" /\ d = SharedDir THEN d \o <<Nested, spec.runtime>> ELSE d

\* What is true of every repository the script may find: a directory has its
\* parents, a manifest that cannot be read says nothing, and the source of a
\* package the script wrote has the rest of the package beside it.
WellFormed(found) ==
    /\ IsFiniteSet(found.dirs) /\ found.dirs \subseteq Paths
    /\ \A d \in found.dirs : Prefixes(d) \subseteq found.dirs
    /\ DOMAIN found.files \subseteq found.dirs \X FileKinds
    /\ found.files \in [DOMAIN found.files -> Contents]
    /\ \A d \in found.dirs, i \in Targets :
        /\ Cardinality(Generated(i)) = 1
        /\ \E f \in Generated(i) : <<d, f>> \in DOMAIN found.files /\ found.files[<<d, f>>] = "baseline"
        => \A f \in ToSet(Specs[i].files) : <<d, f>> \in DOMAIN found.files
    /\ found.manifest \in [state : {Absent, Torn, Empty, Whole}, interfaces : Versions,
                           targets : [DOMAIN found.manifest.targets -> Paths]]
    /\ found.manifest.state # Whole => found.manifest.targets = <<>>
    /\ \A n \in DOMAIN found.manifest.targets : Nested \notin ToSet(found.manifest.targets[n])
    /\ found.surface \in Surfaces

ASSUME RepositoriesAssumption == \A found \in Repositories : WellFormed(found)

\* A name in kebab form stays as it is.
ASSUME KebabsAssumption == \A name \in DOMAIN Kebabs : Kebabs[name] \in STRING \ DOMAIN Kebabs

\* Developers write files of these kinds, and keep no client among the markers.
ASSUME DevelopersAssumption ==
    /\ OwnFiles \subseteq Paths \X FileKinds
    /\ Layouts \subseteq STRING \X Paths
    /\ \A layout \in Layouts : Nested \notin ToSet(layout[2])

-----------------------------------------------------------------------------
(* Directories *)

\* The names .zpkg.toml may have for a target, and those of them, by their
\* positions, that name a directory there is.
DeclaredNames(spec) == (IF spec.publish THEN <<spec.zed>> ELSE <<>>) \o spec.zedAliases
Declared(spec) ==
    {k \in DOMAIN DeclaredNames(spec) :
        LET name == DeclaredNames(spec)[k]
        IN name \in DOMAIN manifest.targets /\ manifest.targets[name] \in dirs}

InSharedPackage(spec) ==
    /\ spec.runtime # "none"
    /\ \E path \in DOMAIN files : path[1] = SharedDir /\ path[2].name = "package.json"
    /\ \E path \in DOMAIN files : path[1] = SharedDir /\ path[2] = Slice(spec.runtime)

ExistingAliases(spec) == {k \in DOMAIN spec.aliases : spec.aliases[k] \in dirs}

\* Without a word in the manifest: its place, the shared package, an older place.
undeclared_dir(spec) ==
    CASE spec.dir \in dirs -> spec.dir
      [] spec.dir \notin dirs /\ InSharedPackage(spec) -> SharedDir
      [] spec.dir \notin dirs /\ ~InSharedPackage(spec) /\ ExistingAliases(spec) # {} ->
            spec.aliases[Min(ExistingAliases(spec))]
      [] OTHER -> spec.dir

choose_dir(spec) ==
    IF Declared(spec) = {} THEN undeclared_dir(spec)
    ELSE manifest.targets[DeclaredNames(spec)[Min(Declared(spec))]]

\* A directory is the target's own if no target before it has it and it is not
\* the place of another target.
Reserved(i, d) == \E j \in Targets \ {i} : Specs[j].dir = d

\* Mutant: the places of the other targets are not reserved.
PickForUnreserved(i) ==
    LET preferred == choose_dir(Specs[i])
    IN IF Escapes(preferred) \/ preferred \in ToSet(chosen) THEN Specs[i].dir ELSE preferred

\* The preferred directory, or else the target's place; it is resolved before it is
\* compared, which changes nothing where there are no symbolic links.
PickFor(i) ==
    LET preferred == choose_dir(Specs[i])
    IN IF \/ Escapes(preferred)
          \/ preferred \in ToSet(chosen)
          \/ Reserved(i, preferred)
       THEN Specs[i].dir ELSE preferred

-----------------------------------------------------------------------------
(* What a run finds wrong *)

DirOf(i) == chosen[i]

Shares(targets) ==
    \E m, n \in DOMAIN targets : m # n /\ targets[m] = targets[n] /\ ~Escapes(targets[m])

Extensions == extension_client_dirs(chosen)

kebab(name) == IF name \in DOMAIN Kebabs THEN Kebabs[name] ELSE name

\* What a target is called, with its runtime; an extension is called by the kebab
\* form of its directory's name.
TargetName(i) ==
    <<"standard", Specs[i].name, IF Specs[i].runtime # "none" THEN Specs[i].runtime ELSE Specs[i].name>>
ExtensionName(d) == <<"extension", kebab(d[2]), d[2]>>

\* A marker that names this target and the surface's digest, and its seal.
MarkerErrors(name, place) ==
    (IF place \in DOMAIN seal /\ seal[place] = surface THEN {} ELSE {"fingerprint"})
    \cup (IF place \in DOMAIN marker /\ marker[place] = [target |-> name, digest |-> surface]
          THEN {} ELSE {"marker"})

TargetErrors ==
    UNION ({IF DirOf(i) \in dirs
            THEN MarkerErrors(TargetName(i), marker_dir(Specs[i], DirOf(i)))
            ELSE {"directory"} : i \in Targets}
           \cup {MarkerErrors(ExtensionName(d), d) : d \in Extensions})

RegisterErrors ==
    IF register.state # Whole THEN {"register"}
    ELSE (IF Cardinality(register.entries) = Len(Specs) + Cardinality(Extensions) THEN {} ELSE {"count"})
         \cup (IF \A e \in register.entries :
                    e.dir \in dirs => e.evidence = implementation_evidence(e.dir)
               THEN {} ELSE {"drift"})
         \cup (IF \A d \in ClientDirs : \E e \in register.entries : Under(d, e.dir)
               THEN {} ELSE {"uncovered"})

SurfaceErrors ==
    IF SchemaErrors(surface) \cup semantic_errors(surface) = {} THEN {} ELSE {"surface"}

\* The kinds of error, with the returns of the files nothing can be said without.
verify ==
    IF ~schema THEN {"schema"}
    ELSE IF surface \in {NoSurface, TornSurface} THEN {"surface"}
    ELSE IF manifest.state \notin {Whole, Empty} THEN SurfaceErrors \cup {"manifest"}
    ELSE SurfaceErrors \cup (IF Shares(manifest.targets) THEN {"shared"} ELSE {})
         \cup (IF \E n \in DOMAIN manifest.targets : Escapes(manifest.targets[n]) THEN {"escape"} ELSE {})
         \cup TargetErrors \cup RegisterErrors
         \cup (IF DOMAIN matrix = {Specs[i].name : i \in Targets} THEN {} ELSE {"matrix"})

-----------------------------------------------------------------------------
(* .zpkg.toml *)

Configured == {n \in DOMAIN manifest.targets : manifest.targets[n] # <<>>}
Safe(path) == ~Escapes(path) /\ path[1] = "clients"

\* A manifest with a full set of client targets is left as it is.
Mature ==
    /\ Cardinality({n \in Configured : Safe(manifest.targets[n])}) >= MinimumTargets - 2
    /\ \A n \in Configured : Safe(manifest.targets[n])

\* The names ensure_manifest takes out: the older names of the targets, and
\* "contract" where it is the whole repository.
Obsolete ==
    (UNION {ToSet(Specs[i].zedAliases) : i \in Targets})
    \cup (IF "contract" \in Configured THEN {} ELSE {"contract"})

\* Mutant: the older names of the targets stay.
MigratedKeepingOld ==
    LET names == DOMAIN manifest.targets \cup {"repository"} \cup {Specs[i].zed : i \in Published}
    IN [n \in names |->
            IF n = "repository" THEN <<>>
            ELSE IF \E i \in Published : Specs[i].zed = n
                 THEN chosen[CHOOSE i \in Published : Specs[i].zed = n]
            ELSE manifest.targets[n]]

Migrated ==
    LET kept == (DOMAIN manifest.targets \cup {"repository"}) \ Obsolete
        names == kept \cup {Specs[i].zed : i \in Published}
    IN [n \in names |->
            IF n = "repository" THEN <<>>
            ELSE IF \E i \in Published : Specs[i].zed = n
                 THEN chosen[CHOOSE i \in Published : Specs[i].zed = n]
            ELSE manifest.targets[n]]

Rewritten ==
    IF Mature THEN manifest ELSE [manifest EXCEPT !.state = Whole, !.targets = Migrated]

\* The names that are not of the fleet, and stay.
Foreign == DOMAIN manifest.targets \ (Obsolete \cup {"repository"} \cup {Specs[i].zed : i \in Published})

\* What a write finds in the manifest and cannot put right.  One that it leaves as
\* it is has no two targets in a directory, and those of the fleet in directories
\* that exist.  In another one the names that are not of the fleet have
\* directories of their own in the repository, no target is the whole of it, and
\* an unpublished runtime is where it would be without a word in the manifest: its
\* names are taken out.
Sound ==
    IF Mature
    THEN /\ ~Shares(manifest.targets)
         /\ \A i \in Targets : \A n \in ToSet(DeclaredNames(Specs[i])) \cap DOMAIN manifest.targets :
                manifest.targets[n] \in dirs
    ELSE /\ \A n \in Foreign :
             /\ manifest.targets[n] # <<>> /\ ~Escapes(manifest.targets[n])
             /\ \A m \in Foreign : manifest.targets[m] = manifest.targets[n] => m = n
             /\ \A i \in Published : chosen[i] # manifest.targets[n]
         /\ \A i \in Published : chosen[i] # <<>>
         /\ \A i \in Targets \ Published : chosen[i] \in {Specs[i].dir, undeclared_dir(Specs[i])}

-----------------------------------------------------------------------------
(* A run *)

Finish(how, errors) ==
    /\ pc' = "idle" /\ exit' = how /\ report' = errors
    /\ chosen' = <<>> /\ next' = 1 /\ plan' = <<>> /\ work' = {} /\ entries' = {}

\* An exception: main reports it and exits with 2.
Raise == Finish("raised", {}) /\ settled' = (settled /\ mode' = "check")

Proceed(place) == pc' = place /\ UNCHANGED <<mode, report, exit, settled, sound, edits, crashes>>

\* Without --org the organisation must be in a readable .zpkg.toml.
Start(m, orgGiven) ==
    /\ pc = "idle" /\ mode' = m
    /\ IF orgGiven \/ manifest.state = Whole
       THEN /\ pc' = "choose" /\ exit' = "none" /\ report' = {} /\ UNCHANGED <<memory, settled>>
       ELSE Raise
    /\ UNCHANGED <<repo, sound, edits, crashes>>

\* One round of choose_target_dirs, which a write goes through twice: before it
\* writes, and again in verify.  A check of an unreadable surface raises.
Choose ==
    /\ pc \in {"choose", "rechoose"} /\ Len(chosen) < Len(Specs)
    /\ LET d == PickFor(Len(chosen) + 1)
       IN IF d \in ToSet(chosen)
          THEN Raise
          ELSE /\ chosen' = Append(chosen, d)
               /\ UNCHANGED <<next, plan, work, entries, pc, report, exit, settled>>
    /\ UNCHANGED <<repo, mode, sound, edits, crashes>>

AllChosen == Len(chosen) = Len(Specs)

StartWriting ==
    /\ pc = "choose" /\ mode = "write" /\ AllChosen
    /\ pc' = "scaffold" /\ sound' = Sound
    /\ UNCHANGED <<repo, memory, mode, report, exit, settled, edits, crashes>>

\* Mutant: the directory is left to the first file.
OpenTargetLate ==
    /\ pc = "scaffold" /\ plan = <<>> /\ next \in Targets
    /\ plan' = IF has_product_implementation(DirOf(next)) THEN <<>> ELSE Specs[next].files
    /\ next' = next + 1
    /\ Proceed("scaffold")
    /\ UNCHANGED <<repo, chosen, work, entries>>

\* mkdir with its parents; a target with product code, and one that lives in the
\* shared TypeScript package, gets no files.
OpenTarget ==
    /\ pc = "scaffold" /\ plan = <<>> /\ next \in Targets
    /\ LET d == DirOf(next)
       IN /\ dirs' = dirs \cup Prefixes(d)
          /\ plan' = IF \/ has_product_implementation(d)
                        \/ Specs[next].runtime # "none" /\ d = SharedDir
                     THEN <<>> ELSE Specs[next].files
    /\ next' = next + 1
    /\ Proceed("scaffold")
    /\ UNCHANGED <<files, manifest, schema, surface, fingerprint, marker, seal, register, matrix,
                   chosen, work, entries>>

PlannedFile == <<DirOf(next - 1), Head(plan)>>
ToWrite ==
    PlannedFile \in DOMAIN files => Head(plan).migrated /\ Content(PlannedFile) = "legacy"

\* Mutant: without missing_only.
WriteScaffoldAnyway ==
    /\ pc = "scaffold" /\ plan # <<>>
    /\ files' = Put(files, PlannedFile, "baseline")
    /\ plan' = Tail(plan)
    /\ Proceed("scaffold")
    /\ UNCHANGED <<dirs, manifest, schema, surface, fingerprint, marker, seal, register, matrix,
                   chosen, next, work, entries>>

\* Mutant: the files of a package are written from the last to the first.
WriteScaffoldBackwards ==
    /\ pc = "scaffold" /\ plan # <<>>
    /\ LET path == <<DirOf(next - 1), Last(plan)>>
       IN files' = IF path \in DOMAIN files THEN files ELSE Put(files, path, "baseline")
    /\ plan' = Front(plan)
    /\ Proceed("scaffold")
    /\ UNCHANGED <<dirs, manifest, schema, surface, fingerprint, marker, seal, register, matrix,
                   chosen, next, work, entries>>

\* write_text with missing_only, and write_generated_text for the templates.
WriteScaffold ==
    /\ pc = "scaffold" /\ plan # <<>>
    /\ files' = IF ToWrite THEN Put(files, PlannedFile, "baseline") ELSE files
    /\ plan' = Tail(plan)
    /\ Proceed("scaffold")
    /\ UNCHANGED <<dirs, manifest, schema, surface, fingerprint, marker, seal, register, matrix,
                   chosen, next, work, entries>>

EnsureManifest ==
    /\ pc = "scaffold" /\ plan = <<>> /\ next > Len(Specs)
    /\ IF manifest.state = Torn
       THEN Raise /\ UNCHANGED <<manifest, mode, sound, edits, crashes>>
       ELSE /\ manifest' = Rewritten
            /\ Proceed("matrix") /\ UNCHANGED memory
    /\ UNCHANGED <<dirs, files, schema, surface, fingerprint, marker, seal, register, matrix>>

EnsureMatrix ==
    /\ pc = "matrix"
    /\ matrix' = [name \in {Specs[i].name : i \in Targets} |->
                    DirOf(CHOOSE i \in Targets : Specs[i].name = name)]
    /\ Proceed("schema")
    /\ UNCHANGED <<dirs, files, manifest, schema, surface, fingerprint, marker, seal, register, memory>>

\* The schema is written before the interface dependency is looked for.
WriteSchema ==
    /\ pc = "schema"
    /\ schema' = TRUE
    /\ IF manifest.interfaces \in {"none", "unversioned"}
       THEN Raise /\ UNCHANGED <<mode, sound, edits, crashes>>
       ELSE Proceed("surface") /\ UNCHANGED memory
    /\ UNCHANGED <<dirs, files, manifest, surface, fingerprint, marker, seal, register, matrix>>

\* Mutant: the baseline is not enriched.
PreparedBare ==
    IF surface = NoSurface THEN baseline_surface(manifest.interfaces)
    ELSE enrich_contract_metadata([merge_standard_symbols(surface) EXCEPT !.interfaces = manifest.interfaces])

\* Merged, enriched and judged before anything of it is written.
Prepared ==
    enrich_contract_metadata(
        IF surface = NoSurface THEN baseline_surface(manifest.interfaces)
        ELSE [merge_standard_symbols(surface) EXCEPT !.interfaces = manifest.interfaces])

WriteSurface ==
    /\ pc = "surface"
    /\ IF surface = TornSurface \/ SchemaErrors(Prepared) \cup semantic_errors(Prepared) # {}
       THEN Raise /\ UNCHANGED <<surface, mode, sound, edits, crashes>>
       ELSE /\ surface' = Prepared
            /\ Proceed("fingerprint") /\ UNCHANGED memory
    /\ UNCHANGED <<dirs, files, manifest, schema, fingerprint, marker, seal, register, matrix>>

\* The directories to mark: every target's, in the order of the targets, and then
\* the extensions.
TargetMark(i) == [name |-> TargetName(i), dir |-> DirOf(i), place |-> marker_dir(Specs[i], DirOf(i))]
ExtensionMark(d) == [name |-> ExtensionName(d), dir |-> d, place |-> d]
ToMark == {TargetMark(i) : i \in Targets} \cup {ExtensionMark(d) : d \in Extensions}

Marking ==
    LET left == {i \in Targets : TargetMark(i) \in work}
    IN IF left # {} THEN TargetMark(Min(left)) ELSE CHOOSE mark \in work : TRUE

\* Mutant: the fingerprint is written with missing_only.
WriteFingerprintOnce ==
    /\ pc = "fingerprint"
    /\ fingerprint' = IF fingerprint = NoSurface THEN surface ELSE fingerprint
    /\ work' = ToMark
    /\ entries' = {}
    /\ Proceed("mark")
    /\ UNCHANGED <<dirs, files, manifest, schema, surface, marker, seal, register, matrix, chosen, next, plan>>

WriteFingerprint ==
    /\ pc = "fingerprint"
    /\ fingerprint' = surface
    /\ work' = ToMark
    /\ entries' = {}
    /\ Proceed("mark")
    /\ UNCHANGED <<dirs, files, manifest, schema, surface, marker, seal, register, matrix, chosen, next, plan>>

WriteMarker ==
    /\ pc = "mark" /\ work # {}
    /\ marker' = Put(marker, Marking.place, [target |-> Marking.name, digest |-> surface])
    /\ Proceed("seal")
    /\ UNCHANGED <<dirs, files, manifest, schema, surface, fingerprint, seal, register, matrix, memory>>

\* What the register says of a directory.
Entry(mark) ==
    [target |-> mark.name, dir |-> mark.dir, evidence |-> implementation_evidence(mark.dir)]

\* The evidence is taken after the directory's markers are written.
WriteSeal ==
    /\ pc = "seal"
    /\ seal' = Put(seal, Marking.place, surface)
    /\ entries' = entries \cup {Entry(Marking)}
    /\ work' = work \ {Marking}
    /\ Proceed("mark")
    /\ UNCHANGED <<dirs, files, manifest, schema, surface, fingerprint, marker, register, matrix,
                   chosen, next, plan>>

WriteRegister ==
    /\ pc = "mark" /\ work = {}
    /\ register' = [state |-> Whole, digest |-> surface, entries |-> entries]
    /\ chosen' = <<>>
    /\ Proceed("rechoose")
    /\ UNCHANGED <<dirs, files, manifest, schema, surface, fingerprint, marker, seal, matrix,
                   next, plan, work, entries>>

Verify ==
    /\ pc = "rechoose" \/ (pc = "choose" /\ mode = "check")
    /\ AllChosen
    /\ IF mode = "check" /\ surface = TornSurface
       THEN Raise
       ELSE /\ Finish(IF verify = {} THEN "ok" ELSE "errors", verify)
            /\ settled' = IF mode = "write" THEN verify = {} /\ (sound \/ settled) ELSE settled
    /\ UNCHANGED <<repo, mode, sound, edits, crashes>>

-----------------------------------------------------------------------------
(* What may come between *)

\* A kill in the middle of a write leaves a file that no longer parses, or an
\* empty one, and what was in it is lost; a file that already has its content is
\* not written.
TearFile ==
    /\ pc = "scaffold" /\ plan # <<>> /\ ToWrite
    /\ files' = Put(files, PlannedFile, "torn")
    /\ UNCHANGED <<dirs, manifest, schema, surface, fingerprint, marker, seal, register, matrix>>

TearManifest ==
    /\ pc = "scaffold" /\ plan = <<>> /\ next > Len(Specs)
    /\ manifest.state # Torn /\ manifest # Rewritten
    /\ \E left \in {Torn, Empty} : manifest' = [state |-> left, targets |-> <<>>, interfaces |-> "none"]
    /\ UNCHANGED <<dirs, files, schema, surface, fingerprint, marker, seal, register, matrix>>

TearSurface ==
    /\ pc = "surface" /\ surface \notin {Prepared, TornSurface}
    /\ surface' = TornSurface
    /\ UNCHANGED <<dirs, files, manifest, schema, fingerprint, marker, seal, register, matrix>>

Kill ==
    /\ pc # "idle" /\ crashes < MaxCrashes
    /\ crashes' = crashes + 1
    /\ Finish("killed", {})
    /\ UNCHANGED repo \/ TearFile \/ TearManifest \/ TearSurface
    /\ UNCHANGED <<mode, settled, sound, edits>>

Edit ==
    /\ pc = "idle" /\ edits < MaxEdits
    /\ edits' = edits + 1 /\ settled' = FALSE
    /\ UNCHANGED <<mode, pc, memory, report, exit, sound, crashes>>

EditFile ==
    \E path \in OwnFiles :
        /\ Edit
        /\ dirs' = dirs \cup Prefixes(path[1])
        /\ files' = Put(files, path, "own")
        /\ files' # files
        /\ UNCHANGED <<manifest, schema, surface, fingerprint, marker, seal, register, matrix>>

RemoveClient ==
    \E d \in ClientDirs :
        /\ Edit
        /\ dirs' = {e \in dirs : ~Under(d, e)}
        /\ files' = [path \in {path \in DOMAIN files : ~Under(d, path[1])} |-> files[path]]
        /\ marker' = [p \in {p \in DOMAIN marker : ~Under(d, p)} |-> marker[p]]
        /\ seal' = [p \in {p \in DOMAIN seal : ~Under(d, p)} |-> seal[p]]
        /\ UNCHANGED <<manifest, schema, surface, fingerprint, register, matrix>>

EditManifest ==
    /\ Edit /\ manifest.state = Whole
    /\ \/ \E layout \in Layouts :
            manifest' = [manifest EXCEPT !.targets = Put(@, layout[1], layout[2])]
       \/ \E version \in {"2", "unversioned"} : manifest' = [manifest EXCEPT !.interfaces = version]
    /\ manifest' # manifest
    /\ UNCHANGED <<dirs, files, schema, surface, fingerprint, marker, seal, register, matrix>>

EditSurface ==
    /\ Edit /\ surface \notin {NoSurface, TornSurface}
    /\ \/ \E key \in DOMAIN Additions \ surface.symbols :
            surface' = [surface EXCEPT !.symbols = @ \cup {key}, !.plain = @ \cup {key}]
       \/ \E key \in surface.symbols :
            surface' = [surface EXCEPT !.symbols = @ \ {key}, !.plain = @ \ {key}]
    /\ UNCHANGED <<dirs, files, manifest, schema, fingerprint, marker, seal, register, matrix>>

-----------------------------------------------------------------------------

Init ==
    /\ \E found \in Repositories :
            /\ dirs = found.dirs /\ files = found.files
            /\ manifest = found.manifest /\ surface = found.surface
    /\ schema = FALSE /\ fingerprint = NoSurface
    /\ marker = <<>> /\ seal = <<>> /\ matrix = <<>> /\ register = NoRegister
    /\ mode = "check" /\ pc = "idle"
    /\ chosen = <<>> /\ next = 1 /\ plan = <<>> /\ work = {} /\ entries = {}
    /\ report = {} /\ exit = "none" /\ settled = FALSE /\ sound = FALSE
    /\ edits = 0 /\ crashes = 0

Scaffold == OpenTarget \/ WriteScaffold
Contract ==
    \/ WriteSchema \/ WriteSurface \/ WriteFingerprint
    \/ WriteMarker \/ WriteSeal \/ WriteRegister

Run ==
    \/ \E m \in {"write", "check"}, orgGiven \in BOOLEAN : Start(m, orgGiven)
    \/ Choose \/ StartWriting
    \/ Scaffold \/ EnsureManifest \/ EnsureMatrix \/ Contract
    \/ Verify

Develop == EditFile \/ RemoveClient \/ EditManifest \/ EditSurface

Next == Run \/ Kill \/ Develop

Spec == Init /\ [][Next]_vars

-----------------------------------------------------------------------------
(* Properties *)

TypeOK ==
    /\ \A path \in DOMAIN files : path[1] \in dirs /\ files[path] \in Contents
    /\ manifest.state \in {Absent, Torn, Empty, Whole}
    /\ schema \in BOOLEAN /\ settled \in BOOLEAN /\ sound \in BOOLEAN
    /\ mode \in {"write", "check"}
    /\ pc \in {"idle", "choose", "scaffold", "matrix", "schema", "surface", "fingerprint",
               "mark", "seal", "rechoose"}
    /\ Len(chosen) \in 0..Len(Specs) /\ next \in 1..(Len(Specs) + 1)
    /\ exit \in {"none", "ok", "errors", "raised", "killed"}
    /\ edits \in 0..MaxEdits /\ crashes \in 0..MaxCrashes

\* Nobody but developers changes or removes a file that developers wrote.  A run,
\* killed or not, creates only a missing file, and replaces only an old template.
ProductPreserved ==
    [][(\E path \in DOMAIN files :
            files[path] = "own" /\ ~(path \in DOMAIN files' /\ files'[path] = "own")) => Develop]_vars

\* Every target gets a directory of its own that is no other target's place, and
\* the collision that choose_target_dirs raises for cannot happen.
OwnDirectory ==
    /\ \A i \in DOMAIN chosen :
        /\ ~Reserved(i, chosen[i])
        /\ \A j \in DOMAIN chosen : chosen[i] = chosen[j] => i = j
    /\ pc \in {"choose", "rechoose"} /\ Len(chosen) < Len(Specs) =>
        PickFor(Len(chosen) + 1) \notin ToSet(chosen)

\* What a write leaves behind passes verify, which chooses the directories again
\* from the manifest and the directories that the write has just made; unless it
\* found something in the manifest that the script does not put right.
WriteEndsVerified ==
    [][Verify /\ mode = "write" /\ sound => report' = {}]_vars

\* After a write that ended well, and found nothing in the manifest that it could
\* not put right, nobody but developers changes anything: another run, killed or
\* not, writes what is there already, and finds nothing.
SettledStays ==
    [][settled /\ ~(UNCHANGED repo /\ settled') => Develop]_vars

\* At no moment is the source of a package that the script wrote there without the
\* rest of it, however often a run was killed: a directory with code is not looked at
\* again, and would stay half a package for ever.  A package of several sources is
\* another matter: with the first of them there is code, and a run that is killed
\* then leaves the others out for ever.
BaselineIsWhole ==
    \A path \in {path \in DOMAIN files : path[2].rooted /\ files[path] = "baseline"}, package \in Packages :
        package.sources = {path[2]} => \A f \in package.files : <<path[1], f>> \in DOMAIN files

\* "a narrow, reviewable migration path when a toolchain removes an API used by a
\* template that earlier fleet runs may already have materialized"
TemplatesMigrate ==
    settled /\ pc = "idle" => \A path \in DOMAIN files : files[path] # "legacy"
=============================================================================
