--------------------------- MODULE MCContractHardener --------------------------
(* Instances of ContractHardener: a fleet of seven, and repositories to harden. *)
EXTENDS ContractVerifier, ClientTargets

MCSpecs ==
    LET InFleet(spec) == spec.name \in {"c", "golang", "zig", "dart", "rust", "typescript-nodejs", "typescript-deno"}
    IN SelectSeq(TARGETS, InFleet)

\* One symbol that is fine, one that names nothing known, one that leaks, one
\* that takes a standard name, and one with a copied documentation identifier.
MCAdditions ==
    [Upload |-> Symbol("Upload", "function", "public", {Member("signature", "public", {"Client"}, TRUE)}),
     Broken |-> Symbol("Broken", "type", "public", {Member("definition", "public", {"Nothing"}, FALSE)}),
     Leaky |-> Symbol("Leaky", "function", "public", {Member("signature", "public", {"RequestContext"}, FALSE)}),
     OwnOptions |-> Symbol("Options", "type", "private", {Member("definition", "private", {}, FALSE)}),
     Copied |-> [Symbol("Download", "function", "public", {Member("signature", "public", {"Client"}, TRUE)})
                    EXCEPT !.documentation = "Client"]]

Ancestors(paths) == UNION {Prefixes(path) : path \in paths}
Owned(paths, content) == [path \in paths |-> content]
Manifest(targets, interfaces) == [state |-> Whole, targets |-> targets, interfaces |-> interfaces]
NoManifest == [state |-> Absent, targets |-> <<>>, interfaces |-> "none"]

GoSource == <<Clients("go"), Source("client.go")>>
MyLanguage == Source("src/client.my")
Package == <<SharedTypescript, Metadata("package.json")>>
Index == <<SharedTypescript, Source("src/index.ts")>>
OldBuild == <<Clients("zig"), Template("build.zig")>>
ZigSource == <<Clients("zig"), Source("src/root.zig")>>
RuntimeSlice(runtime) == <<SharedTypescript, Slice(runtime)>>
Outside == <<"..", "shared">>

Repository(paths, content, extra, targets, interfaces, found) ==
    [dirs |-> Ancestors({path[1] : path \in paths} \cup {<<"clients">>} \cup extra),
     files |-> Owned(paths, content), manifest |-> Manifest(targets, interfaces), surface |-> found]

\* Nothing at all; an early repository with older names; the shared package with
\* its runtimes and a client of another language; a malformed manifest; what an
\* earlier version of the templates left, in part and whole; two complete
\* manifests, of which one lets two targets share a directory.
MCRepositories ==
    {[dirs |-> {Root}, files |-> <<>>, manifest |-> NoManifest, surface |-> NoSurface],
     Repository({GoSource, Package, Index}, "own", {},
                "go" :> Clients("go") @@ "typescript" :> SharedTypescript @@ "contract" :> Root, "1", NoSurface),
     Repository({Package, RuntimeSlice("nodejs"), RuntimeSlice("deno"),
                 <<Clients("my_lang"), MyLanguage>>}, "own", {},
                "repository" :> Root, "1", Surface({"Client", "OwnOptions"}, {"Client"}, "1")),
     Repository({GoSource}, "own", {Clients("golang"), Outside},
                "golang" :> Outside @@ "zig" :> Clients("golang") @@ "rust" :> Clients("zig"), "1", NoSurface),
     Repository({OldBuild}, "legacy", {}, "rust" :> <<"sdk", "rust">>, "1", NoSurface),
     [Repository({OldBuild, ZigSource}, "baseline", {}, "zig" :> Clients("zig"), "1", NoSurface)
        EXCEPT !.files[OldBuild] = "legacy"],
     Repository({GoSource, Package, Index}, "own", {},
                "go" :> Clients("go") @@ "nodejs" :> SharedTypescript @@ "dart" :> Clients("dart")
                    @@ "repository" :> Root, "1", baseline_surface("1")),
     Repository({GoSource, Package, Index}, "own", {},
                "go" :> Clients("go") @@ "golang" :> Clients("go") @@ "nodejs" :> SharedTypescript
                    @@ "repository" :> Root, "1", baseline_surface("1"))}

MCOwnFiles ==
    {<<Clients("golang"), Source("client.go")>>, <<Clients("zig"), File("src/notes.txt", TRUE, FALSE, FALSE)>>,
     <<Clients("go"), Source("client.go")>>, <<Clients("my-lang"), MyLanguage>>,
     <<<<"sdk", "rust">>, Source("src/lib.rs")>>, OldBuild}

MCLayouts ==
    {<<"zig", Clients("zig")>>, <<"rust", <<"sdk", "rust">>>>, <<"nodejs", Clients("go")>>,
     <<"deno", Clients("my_lang")>>, <<"sdk", Clients("zig")>>}

MCKebabs == "my_lang" :> "my-lang"

\* The whole fleet satisfies what is assumed of the directories.
ASSUME FleetAssumption ==
    \A i, j \in 1..Len(TARGETS) :
        /\ TARGETS[i].dir = TARGETS[j].dir => i = j
        /\ TARGETS[i].dir[1] = "clients"
================================================================================
