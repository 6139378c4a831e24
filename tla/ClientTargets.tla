----------------------------- MODULE ClientTargets ----------------------------
(***************************************************************************)
(* The fleet that scripts/harden_client_contract.py keeps: one target per  *)
(* language or TypeScript runtime, the directory each one belongs in, the  *)
(* older directories and manifest names it may still have, and the small   *)
(* package the script writes where a target has no code yet.               *)
(***************************************************************************)
EXTENDS Integers, Sequences, FiniteSets, TLC

\* A path is the sequence of its names, relative to the repository.
Clients(name) == <<"clients", name>>
Root == <<>>
SharedTypescript == Clients("typescript")

-----------------------------------------------------------------------------
(* Files *)

\* What the script asks of a file: whether its place makes it product code
\* (a source root, client.go or mod.ts), whether its kind makes it evidence of
\* an implementation, and whether the script migrates its older templates.
File(name, rooted, counted, migrated) ==
    [name |-> name, rooted |-> rooted, counted |-> counted, migrated |-> migrated]

Metadata(name) == File(name, FALSE, TRUE, FALSE)
Template(name) == File(name, FALSE, TRUE, TRUE)
Source(name) == File(name, TRUE, TRUE, FALSE)

\* The files of a missing package, in the order scaffold_target writes them.
NativeScaffolds ==
    "c" :> <<Metadata("CMakeLists.txt"), Source("include/client.h"), Source("src/client.c")>>
    @@ "cpp" :> <<Metadata("CMakeLists.txt"), Source("include/client.hpp")>>
    @@ "zig" :> <<Template("build.zig"), Source("src/root.zig")>>
    @@ "wasm" :> <<Metadata("Cargo.toml"), Source("src/lib.rs")>>
    @@ "gleamlang" :> <<Metadata("gleam.toml"), Source("src/client.gleam")>>
    @@ "erlang" :> <<Metadata("rebar.config"), Source("src/client.erl")>>

PackagedScaffolds ==
    "elixir" :> <<Metadata("mix.exs"), Source("lib/client.ex")>>
    @@ "dart" :> <<Metadata("pubspec.yaml"), Source("lib/client.dart")>>
    @@ "rust" :> <<Metadata("Cargo.toml"), Source("src/lib.rs")>>
    @@ "java" :> <<Metadata("settings.gradle.kts"), Metadata("build.gradle.kts"), Source("src/main/Client.java")>>
    @@ "golang" :> <<Metadata("go.mod"), Source("client.go")>>
    @@ "python3" :> <<Metadata("pyproject.toml"), Source("src/client/__init__.py"), Source("src/client/client.py")>>
    @@ "ruby" :> <<Template("client.gemspec"), Source("lib/client.rb")>>

ManagedScaffolds ==
    "php" :> <<Metadata("composer.json"), Source("src/Client.php")>>
    @@ "kotlin" :> <<Metadata("settings.gradle.kts"), Metadata("build.gradle.kts"), Source("src/main/Client.kt")>>
    @@ "swift" :> <<Metadata("Package.swift"), Source("Sources/Client.swift")>>
    @@ "typescript-deno" :> <<Metadata("deno.json"), Source("mod.ts")>>
    @@ [name \in {"typescript-nodejs", "typescript-bun", "typescript-edge"} |->
            <<Metadata("package.json"), Source("src/index.ts")>>]

Scaffolds == NativeScaffolds @@ PackagedScaffolds @@ ManagedScaffolds

-----------------------------------------------------------------------------
(* Targets *)

\* One row of TARGETS.  The adapter is left out: nothing reads it back.
TargetSpec(name, zed, dir, aliases, runtime, zedAliases, publish) ==
    [name |-> name, zed |-> zed, dir |-> dir, aliases |-> aliases, runtime |-> runtime,
     zedAliases |-> zedAliases, publish |-> publish, files |-> Scaffolds[name]]

NoRuntime == "none"

\* A target in clients/<name>, with an older directory and manifest name if any.
Language(name, zed) == TargetSpec(name, zed, Clients(name), <<>>, NoRuntime, <<>>, TRUE)
Renamed(name, zed, alias, zedAlias) ==
    TargetSpec(name, zed, Clients(name), <<Clients(alias)>>, NoRuntime, <<zedAlias>>, TRUE)

\* A TypeScript runtime, which may live in the shared clients/typescript.
Runtime(name, runtime, zedAlias, publish) ==
    TargetSpec(name, "nodejs", Append(SharedTypescript, runtime), <<SharedTypescript>>,
               runtime, <<name, zedAlias>>, publish)

TARGETS ==
    <<Language("c", "c"), Renamed("cpp", "cpp", "cxx", "cxx"), Language("zig", "zig"),
      Language("wasm", "rust-wasm"), Renamed("gleamlang", "gleam", "gleam", "gleamlang"),
      Language("erlang", "erlang"), Language("elixir", "elixir"), Language("dart", "dart"),
      Language("rust", "rust"), Language("java", "java"), Renamed("golang", "golang", "go", "go"),
      Renamed("python3", "python", "python", "python3"), Language("ruby", "ruby"),
      Language("php", "php"), Language("kotlin", "kotlin"), Language("swift", "swift"),
      Runtime("typescript-nodejs", "nodejs", "typescript", TRUE),
      Runtime("typescript-deno", "deno", "deno", FALSE),
      Runtime("typescript-bun", "bun", "bun", FALSE),
      Runtime("typescript-edge", "edge", "edge", FALSE)>>
=============================================================================
