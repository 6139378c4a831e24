------------------------- MODULE ContractHardenerProofs -------------------------
(***************************************************************************)
(* What the contract scripts guarantee for every fleet, every repository   *)
(* and every history of runs, kills and changes by developers.             *)
(***************************************************************************)
EXTENDS ContractVerifier, TLAPS, SequenceTheorems, FunctionTheorems, FiniteSetTheorems

-----------------------------------------------------------------------------
(* Paths *)

LEMMA UnderIff ==
    ASSUME NEW s \in Paths, NEW t \in Paths
    PROVE  Under(s, t) <=> Len(s) <= Len(t) /\ \A k \in 1..Len(s) : s[k] = t[k]
<1>1. Len(s) \in Nat /\ Len(t) \in Nat
  BY DEF Paths
<1>2. SubSeq(s, 1, Len(s)) = s
  BY SubSeqFull DEF Paths
<1>3. CASE Len(s) <= Len(t)
  <2>1. /\ SubSeq(t, 1, Len(s)) \in Seq(STRING)
        /\ Len(SubSeq(t, 1, Len(s))) = Len(s)
        /\ \A k \in 1..Len(s) : SubSeq(t, 1, Len(s))[k] = t[k]
    BY <1>1, <1>3 DEF Paths
  <2>2. (\A k \in 1..Len(s) : s[k] = t[k]) => s = SubSeq(t, 1, Len(s))
    BY <2>1, SeqEqual DEF Paths
  <2> QED BY <1>2, <1>3, <2>1, <2>2 DEF Under, IsPrefix
<1> QED BY <1>1, <1>3 DEF Under, IsPrefix

LEMMA UnderSelf == \A s \in Paths : Under(s, s)
BY UnderIff DEF Paths

LEMMA UnderTrans ==
    ASSUME NEW s \in Paths, NEW t \in Paths, NEW u \in Paths, Under(s, t), Under(t, u)
    PROVE  Under(s, u)
<1>1. Len(s) \in Nat /\ Len(t) \in Nat /\ Len(u) \in Nat
  BY DEF Paths
<1>2. /\ Len(s) <= Len(t) /\ \A k \in 1..Len(s) : s[k] = t[k]
      /\ Len(t) <= Len(u) /\ \A k \in 1..Len(t) : t[k] = u[k]
  BY UnderIff
<1> QED BY <1>1, <1>2, UnderIff

\* The prefixes of a path are the paths it is under.
LEMMA PrefixesIff ==
    ASSUME NEW s \in Paths, NEW t \in Paths
    PROVE  s \in Prefixes(t) <=> Under(s, t)
<1>1. Len(s) \in Nat /\ Len(t) \in Nat /\ SubSeq(s, 1, Len(s)) = s
  BY SubSeqFull DEF Paths
<1>2. ASSUME NEW l \in 0..Len(t), s = SubSeq(t, 1, l)
      PROVE  Under(s, t)
  <2>1. Len(s) = l
    BY <1>1, <1>2 DEF Paths
  <2> QED BY <1>1, <1>2, <2>1 DEF Under, IsPrefix
<1>3. ASSUME Under(s, t)
      PROVE  Len(s) \in 0..Len(t) /\ s = SubSeq(t, 1, Len(s))
  BY <1>1, <1>3 DEF Under, IsPrefix
<1> QED BY <1>2, <1>3 DEF Prefixes

LEMMA PrefixesArePaths ==
    ASSUME NEW t \in Paths
    PROVE  Prefixes(t) \subseteq Paths /\ IsFiniteSet(Prefixes(t)) /\ t \in Prefixes(t)
<1>1. Len(t) \in Nat
  BY DEF Paths
<1>2. \A l \in 0..Len(t) : SubSeq(t, 1, l) \in Paths
  BY <1>1 DEF Paths
<1>3. IsFiniteSet(0..Len(t))
  BY <1>1, FS_Interval
<1>4. IsFiniteSet(Prefixes(t))
  <2> DEFINE cut == [l \in 0..Len(t) |-> SubSeq(t, 1, l)]
  <2>1. cut \in [0..Len(t) -> Prefixes(t)]
    BY DEF Prefixes
  <2>2. \A p \in Prefixes(t) : \E l \in 0..Len(t) : cut[l] = p
    BY DEF Prefixes
  <2>3. cut \in Surjection(0..Len(t), Prefixes(t))
    BY <2>1, <2>2 DEF Surjection
  <2> HIDE DEF cut
  <2> QED BY <1>3, <2>3, FS_Surjection
<1>5. t \in Prefixes(t)
  BY PrefixesIff, UnderSelf
<1> QED BY <1>2, <1>4, <1>5 DEF Prefixes

-----------------------------------------------------------------------------
(* Which step changes what *)

LEMMA Steps ==
    ASSUME [Next]_vars
    PROVE  /\ dirs' = dirs \/ OpenTarget \/ EditFile \/ RemoveClient
           /\ files' = files \/ WriteScaffold \/ (Kill /\ TearFile) \/ EditFile \/ RemoveClient
           /\ manifest' = manifest \/ EnsureManifest \/ (Kill /\ TearManifest) \/ EditManifest
           /\ surface' = surface \/ WriteSurface \/ (Kill /\ TearSurface) \/ EditSurface
           /\ schema' = schema \/ WriteSchema
           /\ fingerprint' = fingerprint \/ WriteFingerprint
           /\ marker' = marker \/ WriteMarker \/ RemoveClient
           /\ seal' = seal \/ WriteSeal \/ RemoveClient
           /\ register' = register \/ WriteRegister
           /\ matrix' = matrix \/ EnsureMatrix
           /\ chosen' = chosen \/ chosen' = <<>> \/ Choose
<1>1. CASE UNCHANGED vars
  BY <1>1 DEF vars, repo, memory
<1>2. ASSUME NEW m \in {"write", "check"}, NEW g \in BOOLEAN, Start(m, g)
      PROVE  UNCHANGED repo /\ (chosen' = chosen \/ chosen' = <<>>)
  BY <1>2 DEF Start, memory, Raise, Finish
<1>3. CASE Choose \/ StartWriting
  BY <1>3 DEF Choose, StartWriting, repo, memory
<1>4. CASE OpenTarget \/ WriteScaffold
  BY <1>4 DEF OpenTarget, WriteScaffold
<1>5. CASE EnsureManifest
  BY <1>5 DEF EnsureManifest, memory, Raise, Finish
<1>6. CASE EnsureMatrix
  BY <1>6 DEF EnsureMatrix, memory
<1>7. CASE WriteSchema
  BY <1>7 DEF WriteSchema, memory, Raise, Finish
<1>8. CASE WriteSurface
  BY <1>8 DEF WriteSurface, memory, Raise, Finish
<1>9. CASE WriteFingerprint \/ WriteMarker \/ WriteSeal \/ WriteRegister
  BY <1>9 DEF WriteFingerprint, WriteMarker, WriteSeal, WriteRegister, memory
<1>10. CASE Verify
  BY <1>10 DEF Verify, Raise, Finish, repo
<1>11. CASE Kill
  <2>1. chosen' = <<>>
    BY <1>11 DEF Kill, Finish
  <2>2. CASE UNCHANGED repo
    BY <2>1, <2>2 DEF repo
  <2>3. CASE TearFile
    BY <1>11, <2>1, <2>3 DEF TearFile
  <2>4. CASE TearManifest
    BY <1>11, <2>1, <2>4 DEF TearManifest
  <2>5. CASE TearSurface
    BY <1>11, <2>1, <2>5 DEF TearSurface
  <2> QED BY <1>11, <2>2, <2>3, <2>4, <2>5 DEF Kill
<1>12. CASE Develop
  <2>1. chosen' = chosen
    BY <1>12 DEF Develop, EditFile, RemoveClient, EditManifest, EditSurface, Edit, memory
  <2>2. CASE EditFile \/ RemoveClient
    BY <2>1, <2>2 DEF EditFile, RemoveClient
  <2>3. CASE EditManifest \/ EditSurface
    BY <2>1, <2>3 DEF EditManifest, EditSurface
  <2> QED BY <1>12, <2>2, <2>3 DEF Develop
<1>13. ASSUME NEW m \in {"write", "check"}, NEW g \in BOOLEAN, Start(m, g)
       PROVE  /\ UNCHANGED <<dirs, files, manifest, surface, schema, fingerprint>>
              /\ UNCHANGED <<marker, seal, register, matrix>>
              /\ chosen' = chosen \/ chosen' = <<>>
  BY <1>2, <1>13 DEF repo
<1>14. CASE Run
  <2>1. CASE \E m \in {"write", "check"}, g \in BOOLEAN : Start(m, g)
    BY <2>1, <1>13
  <2> QED BY <2>1, <1>3, <1>4, <1>5, <1>6, <1>7, <1>8, <1>9, <1>10, <1>14 DEF Run, Scaffold, Contract
<1> QED
  BY <1>1, <1>11, <1>12, <1>14 DEF Next

-----------------------------------------------------------------------------
(* Types *)

States == {Absent, Torn, Empty, Whole}

DirsOK ==
    /\ dirs \subseteq Paths /\ IsFiniteSet(dirs)
    /\ \A d \in dirs : Prefixes(d) \subseteq dirs

FilesOK ==
    /\ DOMAIN files \subseteq dirs \X FileKinds
    /\ files \in [DOMAIN files -> Contents]

ManifestOK ==
    /\ manifest \in [state : States, interfaces : Versions, targets : [DOMAIN manifest.targets -> Paths]]
    /\ manifest.state # Whole => manifest.targets = <<>>
    /\ \A n \in DOMAIN manifest.targets : Nested \notin ToSet(manifest.targets[n])

MarkersOK ==
    /\ marker = [p \in DOMAIN marker |-> marker[p]]
    /\ seal = [p \in DOMAIN seal |-> seal[p]]

\* A directory that was chosen lies in the repository, is not among the markers,
\* and there is one, or it is to be made in the place of its target.
Chosen(i, d) ==
    /\ Nested \notin ToSet(d) /\ ~Escapes(d)
    /\ d \in dirs \/ d = Specs[i].dir

ChosenApart ==
    \A i \in DOMAIN chosen :
        /\ ~Reserved(i, chosen[i])
        /\ \A j \in DOMAIN chosen : chosen[i] = chosen[j] => i = j

ChosenOK ==
    /\ chosen \in Seq(Paths) /\ Len(chosen) \in 0..Len(Specs)
    /\ \A i \in DOMAIN chosen : Chosen(i, chosen[i])
    /\ ChosenApart

Writing == {"scaffold", "matrix", "schema", "surface", "fingerprint", "mark", "seal"}

\* Where a run is: the writes come after all directories are chosen, one phase after
\* the other, and the packages are planned in the first.
ControlOK ==
    /\ mode \in {"write", "check"}
    /\ pc \in {"idle", "choose", "rechoose"} \cup Writing
    /\ pc \in Writing \cup {"rechoose"} => mode = "write"
    /\ pc \in Writing => AllChosen
    /\ pc = "idle" => chosen = <<>>
    /\ next \in 1..(Len(Specs) + 1)
    /\ pc \in {"idle", "choose"} => next = 1
    /\ pc \in Writing \ {"scaffold"} => next = Len(Specs) + 1
    /\ pc # "scaffold" => plan = <<>>
    /\ exit \in {"none", "ok", "errors", "raised", "killed"}
    /\ schema \in BOOLEAN /\ settled \in BOOLEAN /\ sound \in BOOLEAN
    /\ edits \in 0..MaxEdits /\ crashes \in 0..MaxCrashes

SharesPackage(i, d) == Specs[i].runtime # "none" /\ d = SharedDir

\* The plan is what is left of the files of the package being written, and the
\* files before it are there.
PlanOK ==
    plan # <<>> =>
        /\ next - 1 \in Targets /\ ~SharesPackage(next - 1, DirOf(next - 1))
        /\ \E k \in 0..(Len(Specs[next - 1].files) - 1) :
            /\ plan = SubSeq(Specs[next - 1].files, k + 1, Len(Specs[next - 1].files))
            /\ \A l \in 1..k : <<DirOf(next - 1), Specs[next - 1].files[l]>> \in DOMAIN files

\* The directories of the targets that are done are there, with an implementation.
Implemented(i, d) == has_product_implementation(d) \/ SharesPackage(i, d)
DoneOK ==
    pc \in Writing => \A i \in 1..(next - 1) :
        /\ DirOf(i) \in dirs
        /\ (i = next - 1 /\ plan # <<>>) \/ Implemented(i, DirOf(i))

\* Where the single source of a package is as the script wrote it, the rest of the
\* package is there.
PackagesOK ==
    \A d \in Paths, i \in Targets :
        /\ Cardinality(Generated(i)) = 1
        /\ \E f \in Generated(i) : <<d, f>> \in DOMAIN files /\ files[<<d, f>>] = "baseline"
        => \A f \in ToSet(Specs[i].files) : <<d, f>> \in DOMAIN files

TypeInv ==
    /\ DirsOK /\ FilesOK /\ ManifestOK /\ surface \in Surfaces /\ MarkersOK
    /\ ChosenOK /\ ControlOK /\ PlanOK /\ DoneOK

-----------------------------------------------------------------------------
(* Choosing directories *)

Less == OpToRel(<, Nat)

LEMMA LessDef == \A m, n \in Nat : <<m, n>> \in Less <=> m < n
BY DEF Less, OpToRel

LEMMA MinIsLeast ==
    ASSUME NEW K, K \subseteq Nat, K # {}
    PROVE  Min(K) \in K /\ \A k \in K : Min(K) <= k
<1>1. IsWellFoundedOn(Less, Nat)
  BY NatLessThanWellFounded DEF Less
<1>2. PICK x \in K : \A y \in K : ~(<<y, x>> \in Less)
  BY <1>1, WFMin
<1>3. ASSUME NEW y \in K
      PROVE  x <= y
  <2>1. x \in Nat /\ y \in Nat
    OBVIOUS
  <2>2. ~(y < x)
    BY <1>2, <2>1, LessDef
  <2> QED BY <2>1, <2>2
<1>4. \E m \in K : \A k \in K : m =< k
  BY <1>3
<1> QED BY <1>4, Zenon DEF Min

LEMMA Singletons == ASSUME NEW S, NEW x \in S PROVE <<x>> \in Seq(S)
OBVIOUS

LEMMA SpecTypes ==
    ASSUME NEW i \in Targets
    PROVE  /\ Specs[i].dir \in Paths /\ Specs[i].aliases \in Seq(Paths)
           /\ Specs[i].zedAliases \in Seq(STRING) /\ Specs[i].zed \in STRING
           /\ Specs[i].files \in Seq(FileKinds) /\ Specs[i].publish \in BOOLEAN
           /\ Specs[i].name \in STRING /\ Specs[i].runtime \in STRING
           /\ DeclaredNames(Specs[i]) \in Seq(STRING)
           /\ Len(Specs) \in Nat
<1>1. Specs[i] \in TargetSpecs /\ Len(Specs) \in Nat
  BY HardenerAssumption DEF HardenerAssumption, Targets
<1>2. /\ Specs[i].dir \in Paths /\ Specs[i].aliases \in Seq(Paths)
      /\ Specs[i].zedAliases \in Seq(STRING) /\ Specs[i].zed \in STRING
      /\ Specs[i].files \in Seq(FileKinds) /\ Specs[i].publish \in BOOLEAN
      /\ Specs[i].name \in STRING /\ Specs[i].runtime \in STRING
  BY <1>1 DEF TargetSpecs
<1>3. (IF Specs[i].publish THEN <<Specs[i].zed>> ELSE <<>>) \in Seq(STRING)
  <2>1. <<Specs[i].zed>> \in Seq(STRING) /\ <<>> \in Seq(STRING)
    BY <1>2, Singletons
  <2> QED BY <2>1, Zenon
<1>4. DeclaredNames(Specs[i]) \in Seq(STRING)
  BY <1>2, <1>3, ConcatProperties DEF DeclaredNames
<1> QED BY <1>1, <1>2, <1>4

LEMMA CanonicalFits ==
    ASSUME NEW i \in Targets
    PROVE  Chosen(i, Specs[i].dir)
<1>1. Nested \notin ToSet(Specs[i].dir)
  BY NamesAssumption DEF NamesAssumption
<1>2. Specs[i].dir[1] = "clients"
  BY HardenerAssumption DEF HardenerAssumption
<1> QED BY <1>1, <1>2 DEF Chosen, Escapes

LEMMA UndeclaredFits ==
    ASSUME TypeInv, NEW i \in Targets
    PROVE  LET d == undeclared_dir(Specs[i])
           IN d \in Paths /\ Nested \notin ToSet(d) /\ (d \in dirs \/ d = Specs[i].dir)
<1> DEFINE spec == Specs[i]
<1>1. spec.dir \in Paths /\ Nested \notin ToSet(spec.dir)
  BY SpecTypes, NamesAssumption DEF NamesAssumption
<1>2. InSharedPackage(spec) => SharedDir \in dirs
  BY DEF TypeInv, FilesOK, InSharedPackage
<1>3. Nested \notin ToSet(SharedDir)
  <2>1. /\ DOMAIN SharedDir = 1..2
        /\ SharedDir[1] = "clients" /\ SharedDir[2] = "typescript"
    BY DEF SharedDir
  <2>2. \A k \in DOMAIN SharedDir : SharedDir[k] # Nested
    BY <2>1 DEF Nested
  <2> QED BY <2>2 DEF ToSet
<1>4. ASSUME ExistingAliases(spec) # {}
      PROVE  LET d == spec.aliases[Min(ExistingAliases(spec))]
             IN d \in Paths /\ Nested \notin ToSet(d) /\ d \in dirs
  <2>1. ExistingAliases(spec) \subseteq Nat
    BY SpecTypes DEF ExistingAliases
  <2>2. Min(ExistingAliases(spec)) \in ExistingAliases(spec)
    BY <1>4, <2>1, MinIsLeast
  <2>3. Min(ExistingAliases(spec)) \in DOMAIN spec.aliases
    BY <2>2 DEF ExistingAliases
  <2>4. spec.aliases[Min(ExistingAliases(spec))] \in ToSet(spec.aliases)
    BY <2>3 DEF ToSet
  <2>5. spec.aliases[Min(ExistingAliases(spec))] \in dirs
    BY <2>2 DEF ExistingAliases
  <2> QED BY <2>4, <2>5, NamesAssumption DEF NamesAssumption, TypeInv, DirsOK
<1>5. dirs \subseteq Paths
  BY DEF TypeInv, DirsOK
<1> QED BY <1>1, <1>2, <1>3, <1>4, <1>5 DEF undeclared_dir

LEMMA ChooseDirFits ==
    ASSUME TypeInv, NEW i \in Targets
    PROVE  LET d == choose_dir(Specs[i])
           IN d \in Paths /\ Nested \notin ToSet(d) /\ (d \in dirs \/ d = Specs[i].dir)
<1> DEFINE spec == Specs[i]
           name == DeclaredNames(spec)[Min(Declared(spec))]
<1>1. CASE Declared(spec) = {}
  BY <1>1, UndeclaredFits DEF choose_dir
<1>2. CASE Declared(spec) # {}
  <2>1. Declared(spec) \subseteq Nat
    BY SpecTypes DEF Declared
  <2>2. Min(Declared(spec)) \in Declared(spec)
    BY <1>2, <2>1, MinIsLeast
  <2>3. name \in DOMAIN manifest.targets /\ manifest.targets[name] \in dirs
    BY <2>2 DEF Declared
  <2>4. manifest.targets[name] \in Paths /\ Nested \notin ToSet(manifest.targets[name])
    BY <2>3 DEF TypeInv, ManifestOK, DirsOK
  <2> QED BY <1>2, <2>3, <2>4 DEF choose_dir
<1> QED BY <1>1, <1>2

LEMMA PickFits ==
    ASSUME TypeInv, NEW i \in Targets
    PROVE  PickFor(i) \in Paths /\ Chosen(i, PickFor(i))
<1>1. Specs[i].dir \in Paths /\ Chosen(i, Specs[i].dir)
  BY CanonicalFits, SpecTypes
<1> QED BY <1>1, ChooseDirFits DEF PickFor, Chosen

LEMMA PlacesAreApart ==
    \A i \in Targets : ~Reserved(i, Specs[i].dir)
BY HardenerAssumption DEF HardenerAssumption, Reserved, Targets

LEMMA PickIsNotReserved ==
    ASSUME NEW i \in Targets
    PROVE  ~Reserved(i, PickFor(i))
BY PlacesAreApart DEF PickFor

\* Where the next directory would be one that is taken, it would be the place of
\* its target, and the target that took it would hold the place of another.
LEMMA NoCollision ==
    ASSUME ChosenOK, Len(chosen) < Len(Specs)
    PROVE  PickFor(Len(chosen) + 1) \notin ToSet(chosen)
<1> DEFINE i == Len(chosen) + 1
<1>1. i \in Targets /\ DOMAIN chosen = 1..Len(chosen)
  BY HardenerAssumption DEF HardenerAssumption, ChosenOK, Targets
<1>2. SUFFICES ASSUME PickFor(i) \in ToSet(chosen)
               PROVE  FALSE
  BY <1>2
<1>3. PickFor(i) = Specs[i].dir
  BY <1>2 DEF PickFor
<1>4. PICK j \in DOMAIN chosen : chosen[j] = Specs[i].dir
  BY <1>2, <1>3 DEF ToSet
<1>5. i \in Targets \ {j}
  BY <1>1
<1>6. Reserved(j, chosen[j])
  BY <1>4, <1>5 DEF Reserved
<1> QED BY <1>6 DEF ChosenOK, ChosenApart

\* What a round of choose_target_dirs does to the directories chosen so far.
LEMMA ChooseAppends ==
    ASSUME TypeInv, Choose
    PROVE  LET i == Len(chosen) + 1
           IN /\ i \in Targets /\ DOMAIN chosen = 1..Len(chosen)
              /\ chosen' \in Seq(Paths) /\ Len(chosen') = i /\ DOMAIN chosen' = 1..i
              /\ \A k \in 1..Len(chosen) : chosen'[k] = chosen[k] /\ chosen[k] # chosen'[i]
              /\ chosen'[i] = PickFor(i)
              /\ UNCHANGED <<repo, mode, pc, next, plan, work, entries, report, exit, settled, sound>>
              /\ UNCHANGED <<edits, crashes>>
<1> DEFINE i == Len(chosen) + 1
           d == PickFor(i)
<1>1. Len(chosen) < Len(Specs) /\ chosen \in Seq(Paths)
  BY DEF Choose, TypeInv, ChosenOK
<1>2. d \notin ToSet(chosen)
  BY <1>1, NoCollision DEF TypeInv
<1>3. /\ chosen' = Append(chosen, d)
      /\ UNCHANGED <<repo, mode, pc, next, plan, work, entries, report, exit, settled, sound>>
      /\ UNCHANGED <<edits, crashes>>
  BY <1>2 DEF Choose
<1>4. i \in Targets /\ DOMAIN chosen = 1..Len(chosen)
  BY <1>1, HardenerAssumption DEF HardenerAssumption, Targets
<1>5. d \in Paths
  BY <1>4, PickFits
<1> HIDE DEF d
<1>6. /\ chosen' \in Seq(Paths) /\ Len(chosen') = i /\ DOMAIN chosen' = 1..i
      /\ \A k \in 1..Len(chosen) : chosen'[k] = chosen[k]
      /\ chosen'[i] = d
  BY <1>1, <1>3, <1>5
<1>7. \A k \in 1..Len(chosen) : chosen[k] # d
  BY <1>2, <1>4 DEF ToSet
<1> QED BY <1>3, <1>4, <1>6, <1>7 DEF d

-----------------------------------------------------------------------------
(* Phases *)

Later == Writing \ {"scaffold"}

\* A run is over; a write has gone on to its next phase.
Over == pc' = "idle" /\ chosen' = <<>> /\ next' = 1 /\ plan' = <<>>
GoesOn ==
    /\ pc \in Later /\ pc' \in Later
    /\ UNCHANGED <<dirs, files, chosen, next, plan, mode, settled, sound>>

LEMMA Phases ==
    ASSUME [Next]_vars
    PROVE  \/ UNCHANGED <<repo, mode, pc, chosen, next, plan, settled, sound>>
           \/ Over
           \/ Develop
           \/ pc = "idle" /\ pc' = "choose" /\ UNCHANGED <<repo, memory, settled, sound>>
           \/ Choose \/ StartWriting \/ OpenTarget \/ WriteScaffold
           \/ EnsureManifest /\ pc' = "matrix"
           \/ GoesOn
           \/ WriteRegister
<1>1. CASE UNCHANGED vars
  BY <1>1 DEF vars, memory
<1>2. ASSUME NEW m \in {"write", "check"}, NEW g \in BOOLEAN, Start(m, g)
      PROVE  Over \/ (pc = "idle" /\ pc' = "choose" /\ UNCHANGED <<repo, memory, settled, sound>>)
  BY <1>2 DEF Start, Over, Raise, Finish
<1>3. CASE EnsureManifest
  BY <1>3 DEF EnsureManifest, Over, Raise, Finish, Proceed
<1>4. CASE EnsureMatrix
  BY <1>4 DEF EnsureMatrix, Proceed, memory, GoesOn, Later, Writing
<1>5. CASE WriteSchema
  <2>1. CASE manifest.interfaces \in {"none", "unversioned"}
    BY <1>5, <2>1 DEF WriteSchema, Over, Raise, Finish
  <2> QED BY <1>5, <2>1 DEF WriteSchema, Proceed, memory, GoesOn, Later, Writing
<1>6. CASE WriteSurface
  <2>1. CASE Raise
    BY <2>1 DEF Over, Raise, Finish
  <2> QED BY <1>6, <2>1 DEF WriteSurface, Proceed, memory, GoesOn, Later, Writing
<1>7. CASE WriteFingerprint \/ WriteMarker \/ WriteSeal
  BY <1>7 DEF WriteFingerprint, WriteMarker, WriteSeal, Proceed, memory, GoesOn, Later, Writing
<1>8. CASE Verify \/ Kill
  BY <1>8 DEF Verify, Kill, Raise, Finish, Over
<1>9. CASE Run
  <2>1. CASE \E m \in {"write", "check"}, g \in BOOLEAN : Start(m, g)
    BY <2>1, <1>2
  <2> QED BY <2>1, <1>3, <1>4, <1>5, <1>6, <1>7, <1>8, <1>9 DEF Run, Scaffold, Contract
<1> QED
  BY <1>1, <1>8, <1>9 DEF Next

-----------------------------------------------------------------------------
(* The type invariant is inductive *)

LEMMA Raised ==
    ASSUME Raise
    PROVE  /\ Over /\ exit' = "raised" /\ settled' \in BOOLEAN
           /\ settled' => settled
<1>1. settled' \in BOOLEAN /\ (settled' => settled)
  BY DEF Raise
<1> QED BY <1>1 DEF Raise, Finish, Over

LEMMA ControlNext == TypeInv /\ [Next]_vars => ControlOK'
<1> SUFFICES ASSUME TypeInv, [Next]_vars PROVE ControlOK'
  OBVIOUS
<1> USE DEF ControlOK, TypeInv
<1>1. Len(Specs) \in Nat /\ MaxEdits \in Nat /\ MaxCrashes \in Nat
  BY HardenerAssumption DEF HardenerAssumption
<1>2. CASE UNCHANGED vars
  BY <1>2 DEF vars, repo, memory, AllChosen
<1>3. ASSUME NEW m \in {"write", "check"}, NEW g \in BOOLEAN, Start(m, g)
      PROVE  ControlOK'
  BY <1>1, <1>3 DEF Start, repo, memory, Raise, Finish, Writing, AllChosen
<1>4. CASE Choose
  <2>1. pc \notin Writing /\ pc # "idle" /\ Len(chosen) < Len(Specs)
    BY <1>4 DEF Choose, Writing
  <2>2. UNCHANGED <<mode, pc, next, plan, exit, settled, sound, edits, crashes, schema>>
    BY <1>4, ChooseAppends DEF repo
  <2> QED BY <1>1, <2>1, <2>2
<1>5. CASE StartWriting
  <2>1. sound' \in BOOLEAN
    BY <1>5 DEF StartWriting, Sound
  <2> QED BY <1>5, <2>1 DEF StartWriting, repo, memory, Writing, AllChosen
<1>6. CASE OpenTarget \/ WriteScaffold
  <2>1. next' \in 1..(Len(Specs) + 1)
    BY <1>1, <1>6 DEF OpenTarget, WriteScaffold, Targets
  <2> QED BY <1>6, <2>1 DEF OpenTarget, WriteScaffold, Proceed, Writing, AllChosen
<1>7. CASE EnsureManifest
  <2>1. CASE Raise
    <3>1. UNCHANGED <<mode, sound, edits, crashes>> /\ schema' \in BOOLEAN
      BY <1>7, <2>1 DEF EnsureManifest, Proceed, Raise, Finish
    <3> QED BY <1>1, <2>1, <3>1, Raised DEF Over, Writing
  <2>2. CASE Proceed("matrix") /\ UNCHANGED memory
    BY <1>1, <1>7, <2>2 DEF EnsureManifest, Proceed, memory, Writing, AllChosen
  <2> QED BY <1>7, <2>1, <2>2 DEF EnsureManifest
<1>8. CASE EnsureMatrix
  BY <1>8 DEF EnsureMatrix, Proceed, memory, Writing, AllChosen
<1>9. CASE WriteSchema
  <2>1. CASE Raise
    <3>1. UNCHANGED <<mode, sound, edits, crashes>> /\ schema' \in BOOLEAN
      BY <1>9, <2>1 DEF WriteSchema, Proceed, Raise, Finish
    <3> QED BY <1>1, <2>1, <3>1, Raised DEF Over, Writing
  <2>2. CASE Proceed("surface") /\ UNCHANGED memory
    BY <1>1, <1>9, <2>2 DEF WriteSchema, Proceed, memory, Writing, AllChosen
  <2> QED BY <1>9, <2>1, <2>2 DEF WriteSchema
<1>10. CASE WriteSurface
  <2>1. CASE Raise
    <3>1. UNCHANGED <<mode, sound, edits, crashes>> /\ schema' \in BOOLEAN
      BY <1>10, <2>1 DEF WriteSurface, Proceed, Raise, Finish
    <3> QED BY <1>1, <2>1, <3>1, Raised DEF Over, Writing
  <2>2. CASE Proceed("fingerprint") /\ UNCHANGED memory
    BY <1>1, <1>10, <2>2 DEF WriteSurface, Proceed, memory, Writing, AllChosen
  <2> QED BY <1>10, <2>1, <2>2 DEF WriteSurface
<1>11. CASE WriteFingerprint \/ WriteMarker \/ WriteSeal
  BY <1>11 DEF WriteFingerprint, WriteMarker, WriteSeal, Proceed, memory, Writing, AllChosen
<1>12. CASE WriteRegister
  BY <1>1, <1>12 DEF WriteRegister, Proceed, Writing, AllChosen
<1>13. CASE Verify
  <2>1. settled' \in BOOLEAN /\ exit' \in {"ok", "errors", "raised"}
    BY <1>13 DEF Verify, Raise, Finish
  <2> QED BY <1>1, <1>13, <2>1 DEF Verify, Raise, Finish, repo, Writing
<1>14. CASE Kill
  <2>1. schema' = schema
    BY <1>14, Steps DEF Kill, WriteSchema, Proceed, Raise, Finish, TearFile, TearManifest, TearSurface, repo
  <2> QED BY <1>1, <1>14, <2>1 DEF Kill, Finish, Writing
<1>15. CASE Develop
  <2>1. Edit /\ schema' = schema
    BY <1>15 DEF Develop, EditFile, RemoveClient, EditManifest, EditSurface
  <2>2. edits' \in 0..MaxEdits
    BY <1>1, <2>1 DEF Edit
  <2> QED BY <2>1, <2>2 DEF Edit, memory, Writing, AllChosen
<1>16. CASE Run
  <2>1. CASE \E m \in {"write", "check"}, g \in BOOLEAN : Start(m, g)
    BY <2>1, <1>3
  <2> QED BY <2>1, <1>4, <1>5, <1>6, <1>7, <1>8, <1>9, <1>10, <1>11, <1>12, <1>13, <1>16
          DEF Run, Scaffold, Contract
<1> QED BY <1>2, <1>14, <1>15, <1>16 DEF Next

LEMMA AddPath ==
    ASSUME DirsOK, NEW d \in Paths, dirs' = dirs \cup Prefixes(d)
    PROVE  DirsOK'
<1>1. dirs' \subseteq Paths /\ IsFiniteSet(dirs')
  BY PrefixesArePaths, FS_Union DEF DirsOK
<1>2. ASSUME NEW e \in Prefixes(d)
      PROVE  Prefixes(e) \subseteq Prefixes(d)
  <2>1. e \in Paths /\ Under(e, d)
    BY PrefixesArePaths, PrefixesIff
  <2>2. \A p \in Prefixes(e) : p \in Paths /\ Under(p, e)
    BY <2>1, PrefixesArePaths, PrefixesIff
  <2>3. \A p \in Prefixes(e) : p \in Paths /\ Under(p, d)
    BY <2>1, <2>2, UnderTrans
  <2> QED BY <2>3, PrefixesIff
<1> QED BY <1>1, <1>2 DEF DirsOK

LEMMA DirsNext == TypeInv /\ [Next]_vars => DirsOK'
<1> SUFFICES ASSUME TypeInv, [Next]_vars PROVE DirsOK'
  OBVIOUS
<1>1. DirsOK
  BY DEF TypeInv
<1>2. CASE dirs' = dirs
  BY <1>1, <1>2 DEF DirsOK
<1>3. CASE OpenTarget
  <2>1. next \in Targets /\ AllChosen /\ chosen \in Seq(Paths)
    BY <1>3 DEF OpenTarget, TypeInv, ControlOK, ChosenOK, Writing
  <2>2. DirOf(next) \in Paths
    BY <2>1 DEF DirOf, AllChosen, Targets
  <2>3. dirs' = dirs \cup Prefixes(DirOf(next))
    BY <1>3 DEF OpenTarget
  <2> QED BY <1>1, <2>2, <2>3, AddPath
<1>4. CASE EditFile
  <2>1. PICK path \in OwnFiles : dirs' = dirs \cup Prefixes(path[1])
    BY <1>4 DEF EditFile
  <2>2. path[1] \in Paths
    BY DevelopersAssumption DEF DevelopersAssumption
  <2> QED BY <1>1, <2>1, <2>2, AddPath
<1>5. CASE RemoveClient
  <2>1. PICK d \in ClientDirs : dirs' = {e \in dirs : ~Under(d, e)}
    BY <1>5 DEF RemoveClient
  <2>2. d \in Paths /\ dirs \subseteq Paths
    BY <1>1 DEF ClientDirs, DirsOK
  <2>3. dirs' \subseteq Paths /\ IsFiniteSet(dirs')
    BY <1>1, <2>1, FS_Subset DEF DirsOK
  <2>4. ASSUME NEW e \in dirs', NEW p \in Prefixes(e)
        PROVE  p \in dirs'
    <3>1. e \in Paths /\ p \in Paths /\ Under(p, e) /\ p \in dirs /\ ~Under(d, e)
      BY <1>1, <2>1, <2>2, <2>4, PrefixesArePaths, PrefixesIff DEF DirsOK
    <3>2. ~Under(d, p)
      BY <2>2, <3>1, UnderTrans
    <3> QED BY <2>1, <3>1, <3>2
  <2> QED BY <2>3, <2>4 DEF DirsOK
<1> QED BY <1>2, <1>3, <1>4, <1>5, Steps

\* A run never takes a directory away.
LEMMA DirsGrow ==
    ASSUME [Next]_vars, ~RemoveClient
    PROVE  dirs \subseteq dirs'
BY Steps DEF OpenTarget, EditFile

LEMMA PutFacts ==
    ASSUME NEW map, NEW key, NEW value
    PROVE  /\ DOMAIN Put(map, key, value) = DOMAIN map \cup {key}
           /\ Put(map, key, value)[key] = value
           /\ \A k \in DOMAIN map \ {key} : Put(map, key, value)[k] = map[k]
           /\ Put(map, key, value) = [k \in DOMAIN map \cup {key} |-> Put(map, key, value)[k]]
BY DEF Put

LEMMA PutFits ==
    ASSUME NEW V, NEW map, map \in [DOMAIN map -> V], NEW key, NEW value \in V
    PROVE  Put(map, key, value) \in [DOMAIN map \cup {key} -> V]
BY DEF Put

\* The next file of the plan.
LEMMA PlanHead ==
    ASSUME TypeInv, plan # <<>>
    PROVE  LET list == Specs[next - 1].files
           IN /\ next - 1 \in Targets /\ Head(plan) \in ToSet(list) /\ Head(plan) \in FileKinds
              /\ DirOf(next - 1) \in dirs /\ DirOf(next - 1) \in Paths
              /\ ~SharesPackage(next - 1, DirOf(next - 1))
              /\ \E k \in 1..Len(list) :
                    /\ Head(plan) = list[k] /\ Tail(plan) = SubSeq(list, k + 1, Len(list))
                    /\ \A l \in 1..(k - 1) : <<DirOf(next - 1), list[l]>> \in DOMAIN files
<1> DEFINE list == Specs[next - 1].files
           d == DirOf(next - 1)
<1>1. next - 1 \in Targets /\ ~SharesPackage(next - 1, d)
  BY DEF TypeInv, PlanOK
<1>2. PICK k \in 0..(Len(list) - 1) :
        /\ plan = SubSeq(list, k + 1, Len(list))
        /\ \A l \in 1..k : <<d, list[l]>> \in DOMAIN files
  BY DEF TypeInv, PlanOK
<1>3. list \in Seq(FileKinds)
  BY <1>1, SpecTypes
<1> HIDE DEF list, d
<1>4. /\ Head(plan) = list[k + 1] /\ k + 1 \in 1..Len(list)
      /\ list[k + 1] \in FileKinds /\ list[k + 1] \in ToSet(list)
  BY <1>2, <1>3 DEF ToSet
<1>5. Tail(plan) = SubSeq(list, (k + 1) + 1, Len(list))
  BY <1>2, <1>3
<1>6. pc = "scaffold" /\ next \in 1..(Len(Specs) + 1) /\ Len(Specs) \in Nat
  BY HardenerAssumption DEF HardenerAssumption, TypeInv, ControlOK
<1>7. next - 1 \in 1..(next - 1)
  BY <1>1, <1>6 DEF Targets
<1>8. d \in dirs /\ d \in Paths
  BY <1>6, <1>7 DEF TypeInv, DoneOK, Writing, DirsOK, d
<1>9. \A l \in 1..((k + 1) - 1) : <<d, list[l]>> \in DOMAIN files
  BY <1>2
<1>10. \E m \in 1..Len(list) :
        /\ Head(plan) = list[m] /\ Tail(plan) = SubSeq(list, m + 1, Len(list))
        /\ \A l \in 1..(m - 1) : <<d, list[l]>> \in DOMAIN files
  BY <1>4, <1>5, <1>9, Zenon
<1>11. Head(plan) \in ToSet(list) /\ Head(plan) \in FileKinds
  BY <1>4
<1> QED BY <1>1, <1>8, <1>10, <1>11 DEF list, d

LEMMA FilesNext == TypeInv /\ [Next]_vars => FilesOK'
<1> SUFFICES ASSUME TypeInv, [Next]_vars PROVE FilesOK'
  OBVIOUS
<1>1. FilesOK
  BY DEF TypeInv
<1>2. CASE files' = files
  <2>1. CASE RemoveClient
    <3>1. PICK d \in ClientDirs :
            /\ dirs' = {e \in dirs : ~Under(d, e)}
            /\ files' = [path \in {path \in DOMAIN files : ~Under(d, path[1])} |-> files[path]]
      BY <2>1 DEF RemoveClient
    <3>2. DOMAIN files' = {path \in DOMAIN files : ~Under(d, path[1])}
      BY <3>1
    <3> QED BY <1>1, <1>2, <3>1, <3>2 DEF FilesOK
  <2>2. CASE ~RemoveClient
    BY <1>1, <1>2, <2>2, DirsGrow DEF FilesOK
  <2> QED BY <2>1, <2>2
<1>3. CASE WriteScaffold \/ (Kill /\ TearFile)
  <2>1. plan # <<>> /\ dirs' = dirs
    BY <1>3 DEF WriteScaffold, TearFile
  <2>2. PlannedFile \in dirs \X FileKinds
    BY <2>1, PlanHead DEF PlannedFile
  <2>3. PICK content \in Contents : files' = files \/ files' = Put(files, PlannedFile, content)
    BY <1>3 DEF WriteScaffold, TearFile, Contents
  <2>4. CASE files' = Put(files, PlannedFile, content)
    <3>1. files' \in [DOMAIN files \cup {PlannedFile} -> Contents]
      BY <1>1, <2>4, PutFits DEF FilesOK
    <3> QED BY <1>1, <2>1, <2>2, <3>1 DEF FilesOK
  <2> QED BY <1>2, <2>3, <2>4
<1>4. CASE EditFile
  <2>1. PICK path \in OwnFiles : dirs' = dirs \cup Prefixes(path[1]) /\ files' = Put(files, path, "own")
    BY <1>4 DEF EditFile
  <2>2. path \in Paths \X FileKinds
    BY DevelopersAssumption DEF DevelopersAssumption
  <2>3. path \in dirs' \X FileKinds
    BY <2>1, <2>2, PrefixesArePaths
  <2>4. files' \in [DOMAIN files \cup {path} -> Contents]
    BY <1>1, <2>1, PutFits DEF FilesOK, Contents
  <2> QED BY <1>1, <2>1, <2>3, <2>4 DEF FilesOK
<1>5. CASE RemoveClient
  <2>1. PICK d \in ClientDirs :
          /\ dirs' = {e \in dirs : ~Under(d, e)}
          /\ files' = [path \in {path \in DOMAIN files : ~Under(d, path[1])} |-> files[path]]
    BY <1>5 DEF RemoveClient
  <2>2. DOMAIN files' = {path \in DOMAIN files : ~Under(d, path[1])}
    BY <2>1
  <2>3. files' \in [DOMAIN files' -> Contents]
    BY <1>1, <2>1, <2>2 DEF FilesOK
  <2> QED BY <1>1, <2>1, <2>2, <2>3 DEF FilesOK
<1> QED BY <1>2, <1>3, <1>4, <1>5, Steps

\* Which files a step of a package writes.
LEMMA ScaffoldPuts ==
    ASSUME WriteScaffold
    PROVE  /\ DOMAIN files' = DOMAIN files \cup {PlannedFile}
           /\ \A path \in DOMAIN files \ {PlannedFile} : files'[path] = files[path]
           /\ ToWrite => files'[PlannedFile] = "baseline"
           /\ ~ToWrite => files' = files
           /\ UNCHANGED <<dirs, chosen, next, pc>> /\ plan' = Tail(plan) /\ plan # <<>> /\ pc = "scaffold"
<1>1. UNCHANGED <<dirs, chosen, next, pc>> /\ plan' = Tail(plan) /\ plan # <<>> /\ pc = "scaffold"
  BY DEF WriteScaffold, Proceed
<1>2. CASE ToWrite
  <2>1. files' = Put(files, PlannedFile, "baseline")
    BY <1>2 DEF WriteScaffold
  <2>2. /\ DOMAIN files' = DOMAIN files \cup {PlannedFile}
        /\ \A path \in DOMAIN files \ {PlannedFile} : files'[path] = files[path]
        /\ files'[PlannedFile] = "baseline"
    BY <2>1, Zenon DEF Put
  <2> QED BY <1>1, <1>2, <2>2
<1>3. CASE ~ToWrite
  <2>1. PlannedFile \in DOMAIN files /\ files' = files
    BY <1>3 DEF ToWrite, WriteScaffold
  <2> QED BY <1>1, <1>3, <2>1
<1> QED BY <1>2, <1>3

LEMMA PlanNext == TypeInv /\ [Next]_vars => PlanOK'
<1> SUFFICES ASSUME TypeInv, [Next]_vars PROVE PlanOK'
  OBVIOUS
<1>1. PlanOK /\ (pc # "scaffold" => plan = <<>>)
  BY DEF TypeInv, ControlOK
<1>2. CASE UNCHANGED <<repo, mode, pc, chosen, next, plan, settled, sound>>
  BY <1>1, <1>2 DEF repo, PlanOK, DirOf
<1>3. CASE plan' = <<>>
  BY <1>3 DEF PlanOK
<1>4. CASE OpenTarget
  <2>1. next \in Targets /\ chosen' = chosen /\ next' = next + 1
    BY <1>4 DEF OpenTarget
  <2>2. CASE plan' # <<>>
    <3> DEFINE list == Specs[next].files
    <3>1. plan' = list /\ ~SharesPackage(next, DirOf(next))
      BY <1>4, <2>2 DEF OpenTarget, SharesPackage
    <3>2. list \in Seq(FileKinds)
      BY <2>1, SpecTypes
    <3> HIDE DEF list
    <3>3. 0 \in 0..(Len(list) - 1) /\ list = SubSeq(list, 0 + 1, Len(list))
      BY <2>2, <3>1, <3>2, SubSeqFull
    <3>4. next' - 1 = next
      BY <2>1 DEF Targets
    <3>5. \A l \in 1..0 : <<DirOf(next), list[l]>> \in DOMAIN files'
      OBVIOUS
    <3>6. \E k \in 0..(Len(list) - 1) :
            /\ list = SubSeq(list, k + 1, Len(list))
            /\ \A l \in 1..k : <<DirOf(next), list[l]>> \in DOMAIN files'
      BY <3>3, <3>5
    <3>7. \E k \in 0..(Len(Specs[next].files) - 1) :
            /\ plan' = SubSeq(Specs[next].files, k + 1, Len(Specs[next].files))
            /\ \A l \in 1..k : <<DirOf(next), Specs[next].files[l]>> \in DOMAIN files'
      BY <3>1, <3>6 DEF list
    <3> QED BY <2>1, <3>1, <3>4, <3>7 DEF PlanOK, DirOf
  <2> QED BY <1>3, <2>2
<1>5. CASE WriteScaffold
  <2> DEFINE list == Specs[next - 1].files
             d == DirOf(next - 1)
  <2>1. /\ next - 1 \in Targets /\ ~SharesPackage(next - 1, d)
        /\ plan' = Tail(plan) /\ UNCHANGED <<chosen, next>>
    BY <1>5, PlanHead, ScaffoldPuts
  <2>2. PICK k \in 1..Len(list) :
          /\ Head(plan) = list[k] /\ Tail(plan) = SubSeq(list, k + 1, Len(list))
          /\ \A l \in 1..(k - 1) : <<d, list[l]>> \in DOMAIN files
    BY <1>5, PlanHead, ScaffoldPuts
  <2>3. \A l \in 1..k : <<d, list[l]>> \in DOMAIN files'
    <3>1. DOMAIN files' = DOMAIN files \cup {<<d, list[k]>>}
      BY <1>5, <2>2, ScaffoldPuts DEF PlannedFile
    <3> QED BY <2>2, <3>1
  <2>4. list \in Seq(FileKinds)
    BY <2>1, SpecTypes
  <2> HIDE DEF list, d
  <2>5. CASE k < Len(list)
    <3>1. \E m \in 0..(Len(list) - 1) :
            /\ plan' = SubSeq(list, m + 1, Len(list))
            /\ \A l \in 1..m : <<d, list[l]>> \in DOMAIN files'
      BY <2>1, <2>2, <2>3, <2>4, <2>5
    <3> QED BY <2>1, <3>1 DEF PlanOK, DirOf, list, d
  <2>6. CASE k = Len(list)
    BY <1>3, <2>1, <2>2, <2>4, <2>6
  <2> QED BY <2>2, <2>4, <2>5, <2>6
<1>6. CASE EnsureManifest /\ pc' = "matrix"
  BY <1>3, <1>6 DEF EnsureManifest, memory, Raise, Finish
<1>7. CASE Develop
  BY <1>1, <1>3, <1>7 DEF Develop, EditFile, RemoveClient, EditManifest, EditSurface, Edit, memory
<1>8. CASE Choose
  BY <1>1, <1>3, <1>8, ChooseAppends DEF Choose
<1>9. CASE StartWriting \/ WriteRegister
  BY <1>1, <1>3, <1>9 DEF StartWriting, WriteRegister, memory
<1>10. CASE GoesOn
  BY <1>1, <1>3, <1>10 DEF GoesOn, Later
<1>11. CASE pc = "idle" /\ pc' = "choose" /\ UNCHANGED <<repo, memory, settled, sound>>
  BY <1>1, <1>3, <1>11 DEF memory
<1> QED BY <1>2, <1>3, <1>4, <1>5, <1>6, <1>7, <1>8, <1>9, <1>10, <1>11, Phases DEF Over

LEMMA DoneNext == TypeInv /\ [Next]_vars => DoneOK'
<1> SUFFICES ASSUME TypeInv, [Next]_vars, pc' \in Writing, NEW i \in 1..(next' - 1)
             PROVE  /\ (DirOf(i) \in dirs)'
                    /\ (i = next' - 1 /\ plan' # <<>>) \/ Implemented(i, DirOf(i))'
  BY DEF DoneOK
<1>1. DoneOK /\ ControlOK /\ Len(Specs) \in Nat
  BY HardenerAssumption DEF HardenerAssumption, TypeInv
<1>2. CASE UNCHANGED <<dirs, files, chosen, next, plan>> /\ pc \in Writing
  BY <1>1, <1>2 DEF DoneOK, DirOf, Implemented, has_product_implementation
<1>3. CASE UNCHANGED <<repo, mode, pc, chosen, next, plan, settled, sound>>
  BY <1>2, <1>3 DEF repo
<1>4. CASE GoesOn
  BY <1>2, <1>4 DEF GoesOn, Later
<1>5. CASE EnsureManifest /\ pc' = "matrix"
  BY <1>2, <1>5 DEF EnsureManifest, memory, Raise, Finish, Writing
<1>6. CASE Over \/ pc' = "choose" \/ WriteRegister
  BY <1>6 DEF Over, WriteRegister, Proceed, Writing
<1>7. CASE Develop
  BY <1>7 DEF Develop, EditFile, RemoveClient, EditManifest, EditSurface, Edit, Writing
<1>8. CASE Choose
  BY <1>8, ChooseAppends DEF Choose, Writing
<1>9. CASE StartWriting
  BY <1>1, <1>9 DEF StartWriting, memory, ControlOK
<1>10. CASE OpenTarget
  <2>1. /\ pc = "scaffold" /\ plan = <<>> /\ next \in Targets /\ next' = next + 1
        /\ UNCHANGED <<chosen, files>> /\ dirs' = dirs \cup Prefixes(DirOf(next))
    BY <1>10 DEF OpenTarget
  <2>2. CASE i # next
    <3>1. i \in 1..(next - 1)
      BY <1>1, <2>1, <2>2 DEF ControlOK
    <3>2. DirOf(i) \in dirs /\ Implemented(i, DirOf(i))
      BY <1>1, <2>1, <3>1 DEF DoneOK, Writing
    <3> QED BY <2>1, <3>2 DEF DirOf, Implemented, has_product_implementation
  <2>3. CASE i = next
    <3>1. DirOf(next) \in Paths
      BY <1>1, <2>1 DEF TypeInv, ChosenOK, ControlOK, AllChosen, Writing, DirOf, Targets
    <3>2. DirOf(next) \in dirs'
      BY <2>1, <3>1, PrefixesArePaths
    <3>3. plan' # <<>> \/ Implemented(next, DirOf(next))
      <4>1. Specs[next].files # <<>>
        <5>1. PICK f \in Generated(next) : TRUE
          BY <2>1, FilesAssumption DEF FilesAssumption
        <5>2. f \in ToSet(Specs[next].files)
          BY <5>1 DEF Generated
        <5> QED BY <5>2 DEF ToSet
      <4> QED BY <1>10, <4>1 DEF OpenTarget, Implemented, SharesPackage
    <3>4. i = next' - 1
      BY <1>1, <2>1, <2>3 DEF ControlOK
    <3> QED BY <2>1, <2>3, <3>2, <3>3, <3>4 DEF DirOf, Implemented, has_product_implementation
  <2> QED BY <2>2, <2>3
<1>11. CASE WriteScaffold
  <2> DEFINE list == Specs[next - 1].files
             d == DirOf(next - 1)
  <2>1. /\ pc = "scaffold" /\ plan' = Tail(plan) /\ UNCHANGED <<dirs, chosen, next>>
        /\ DOMAIN files' = DOMAIN files \cup {PlannedFile} /\ plan # <<>>
    BY <1>11, ScaffoldPuts
  <2>2. DirOf(i) \in dirs /\ ((i = next - 1) \/ Implemented(i, DirOf(i)))
    BY <1>1, <2>1 DEF DoneOK, Writing
  <2>3. CASE Implemented(i, DirOf(i))
    BY <2>1, <2>2, <2>3 DEF DirOf, Implemented, has_product_implementation
  <2>4. CASE i = next - 1 /\ plan' = <<>>
    <3>1. next - 1 \in Targets
      BY <2>1, PlanHead
    <3>2. PICK k \in 1..Len(list) :
            /\ Head(plan) = list[k] /\ Tail(plan) = SubSeq(list, k + 1, Len(list))
            /\ \A l \in 1..(k - 1) : <<d, list[l]>> \in DOMAIN files
      BY <2>1, PlanHead
    <3>3. PICK f \in Generated(next - 1) : TRUE
      BY <3>1, FilesAssumption DEF FilesAssumption
    <3>4. PICK l \in DOMAIN list : list[l] = f
      BY <3>3 DEF Generated, ToSet
    <3>5. f.rooted
      BY <3>3 DEF Generated
    <3>6. list \in Seq(FileKinds)
      BY <3>1, SpecTypes
    <3>7. PlannedFile = <<d, list[k]>>
      BY <3>2 DEF PlannedFile
    <3> HIDE DEF list, d
    <3>8. k = Len(list)
      <4>1. SubSeq(list, k + 1, Len(list)) = <<>>
        BY <2>1, <2>4, <3>2
      <4>2. k < Len(list) => Len(SubSeq(list, k + 1, Len(list))) = Len(list) - k
        BY <3>2, <3>6
      <4>3. Len(<<>>) = 0 /\ k \in Nat /\ Len(list) \in Nat /\ k <= Len(list)
        BY <3>2, <3>6
      <4>4. Len(SubSeq(list, k + 1, Len(list))) = 0
        BY <4>1, <4>3, Zenon
      <4>5. ASSUME k < Len(list)
            PROVE  FALSE
        BY <4>2, <4>3, <4>4, <4>5
      <4> QED BY <4>3, <4>5
    <3>9. l \in 1..(k - 1) \/ l = k
      BY <3>2, <3>4, <3>6, <3>8
    <3>10. <<d, f>> \in DOMAIN files'
      BY <2>1, <3>2, <3>4, <3>7, <3>9
    <3>11. <<d, f>>[1] = d /\ <<d, f>>[2].rooted
      BY <3>5
    <3>12. \E path \in DOMAIN files' : path[1] = d /\ path[2].rooted
      BY <3>10, <3>11, Zenon
    <3> QED BY <2>1, <2>2, <2>4, <3>12 DEF DirOf, Implemented, has_product_implementation, d
  <2> QED BY <2>1, <2>2, <2>3, <2>4 DEF DirOf
<1> QED BY <1>3, <1>4, <1>5, <1>6, <1>7, <1>8, <1>9, <1>10, <1>11, Phases

LEMMA ZedIsOne ==
    ASSUME NEW i \in Published
    PROVE  (CHOOSE j \in Published : Specs[j].zed = Specs[i].zed) = i
<1>1. \A j \in Published : Specs[j].zed = Specs[i].zed => j = i
  BY NamesAssumption DEF NamesAssumption
<1> QED BY <1>1

\* What .zpkg.toml says after it was migrated: of the repository, of the targets
\* that are published, and of the names that are not of the fleet.
LEMMA MigratedSays ==
    /\ "repository" \notin Obsolete => "repository" \in DOMAIN Migrated /\ Migrated["repository"] = <<>>
    /\ \A i \in Published : Specs[i].zed \in DOMAIN Migrated /\ Migrated[Specs[i].zed] = chosen[i]
    /\ \A n \in Foreign : n \in DOMAIN Migrated /\ Migrated[n] = manifest.targets[n]
    /\ \A n \in DOMAIN Migrated :
        \/ n = "repository" /\ n \notin Obsolete /\ Migrated[n] = <<>>
        \/ \E i \in Published : n = Specs[i].zed
        \/ n \in Foreign
<1> DEFINE names == ((DOMAIN manifest.targets \cup {"repository"}) \ Obsolete) \cup {Specs[i].zed : i \in Published}
<1>1. DOMAIN Migrated = names
  BY DEF Migrated
<1>2. "repository" \in names => Migrated["repository"] = <<>>
  BY DEF Migrated
<1>6. "repository" \in names <=> "repository" \notin Obsolete
  BY NamesAssumption DEF NamesAssumption, Published
<1>3. ASSUME NEW i \in Published
      PROVE  Specs[i].zed \in names /\ Migrated[Specs[i].zed] = chosen[i]
  <2>1. Specs[i].zed # "repository"
    BY NamesAssumption DEF NamesAssumption, Published
  <2>2. Specs[i].zed \in names
    OBVIOUS
  <2>3. Migrated[Specs[i].zed] = chosen[CHOOSE j \in Published : Specs[j].zed = Specs[i].zed]
    BY <2>1, <2>2, Zenon DEF Migrated
  <2> QED BY <2>2, <2>3, ZedIsOne
<1>4. ASSUME NEW n \in Foreign
      PROVE  n \in names /\ Migrated[n] = manifest.targets[n]
  <2>1. n \in names /\ n # "repository" /\ ~(\E i \in Published : Specs[i].zed = n)
    BY DEF Foreign
  <2> QED BY <2>1, Zenon DEF Migrated
<1>5. ASSUME NEW n \in names
      PROVE  \/ n = "repository"
             \/ \E i \in Published : n = Specs[i].zed
             \/ n \in Foreign
  BY DEF Foreign
<1> QED BY <1>1, <1>2, <1>3, <1>4, <1>5, <1>6

LEMMA MigratedFits ==
    ASSUME TypeInv, AllChosen
    PROVE  /\ Migrated \in [DOMAIN Migrated -> Paths]
           /\ \A n \in DOMAIN Migrated : Nested \notin ToSet(Migrated[n])
<1>1. ASSUME NEW n \in DOMAIN Migrated
      PROVE  Migrated[n] \in Paths /\ Nested \notin ToSet(Migrated[n])
  <2>1. CASE n = "repository" /\ Migrated[n] = <<>>
    BY <2>1 DEF Paths, ToSet
  <2>2. ASSUME NEW i \in Published, n = Specs[i].zed
        PROVE  Migrated[n] \in Paths /\ Nested \notin ToSet(Migrated[n])
    <3>1. i \in DOMAIN chosen /\ chosen[i] \in Paths
      BY DEF TypeInv, ChosenOK, AllChosen, Published, Targets
    <3> QED BY <2>2, <3>1, MigratedSays DEF TypeInv, ChosenOK, Chosen
  <2>3. CASE n \in Foreign
    BY <2>3, MigratedSays DEF TypeInv, ManifestOK, Foreign
  <2> QED BY <2>1, <2>2, <2>3, MigratedSays
<1>2. Migrated = [n \in DOMAIN Migrated |-> Migrated[n]]
  BY DEF Migrated
<1> QED BY <1>1, <1>2

LEMMA ManifestNext == TypeInv /\ [Next]_vars => ManifestOK'
<1> SUFFICES ASSUME TypeInv, [Next]_vars PROVE ManifestOK'
  OBVIOUS
<1>1. ManifestOK
  BY DEF TypeInv
<1>2. CASE manifest' = manifest
  BY <1>1, <1>2 DEF ManifestOK
<1>3. CASE EnsureManifest
  <2>1. CASE manifest' = [manifest EXCEPT !.state = Whole, !.targets = Migrated]
    <3>1. AllChosen
      BY <1>3 DEF EnsureManifest, TypeInv, ControlOK, Writing
    <3>2. /\ manifest'.state = Whole /\ manifest'.targets = Migrated
          /\ manifest' \in [state : States, interfaces : Versions, targets : [DOMAIN Migrated -> Paths]]
      BY <1>1, <2>1, <3>1, MigratedFits DEF ManifestOK, States
    <3> QED BY <3>1, <3>2, MigratedFits DEF ManifestOK
  <2> QED BY <1>2, <1>3, <2>1 DEF EnsureManifest, Rewritten
<1>4. CASE Kill /\ TearManifest
  <2>1. PICK left \in {Torn, Empty} : manifest' = [state |-> left, targets |-> <<>>, interfaces |-> "none"]
    BY <1>4 DEF TearManifest
  <2>2. DOMAIN manifest'.targets = {} /\ manifest'.targets = <<>>
    BY <2>1
  <2>3. manifest'.targets \in [DOMAIN manifest'.targets -> Paths]
    BY <2>2
  <2>4. manifest' \in [state : States, interfaces : Versions, targets : [DOMAIN manifest'.targets -> Paths]]
    BY <2>1, <2>3 DEF States, Versions
  <2> QED BY <2>2, <2>4 DEF ManifestOK
<1>5. CASE EditManifest
  <2>1. manifest.state = Whole
    BY <1>5 DEF EditManifest
  <2>2. ASSUME NEW layout \in Layouts, manifest' = [manifest EXCEPT !.targets = Put(@, layout[1], layout[2])]
        PROVE  ManifestOK'
    <3> DEFINE targets == Put(manifest.targets, layout[1], layout[2])
    <3>1. layout[2] \in Paths /\ Nested \notin ToSet(layout[2])
      BY DevelopersAssumption DEF DevelopersAssumption
    <3>2. /\ DOMAIN targets = DOMAIN manifest.targets \cup {layout[1]} /\ targets[layout[1]] = layout[2]
          /\ \A k \in DOMAIN manifest.targets \ {layout[1]} : targets[k] = manifest.targets[k]
      BY Zenon DEF Put
    <3>3. targets \in [DOMAIN targets -> Paths]
      BY <1>1, <3>1, <3>2, PutFits DEF ManifestOK
    <3> HIDE DEF targets
    <3>4. /\ manifest'.state = Whole /\ manifest'.targets = targets
          /\ manifest' \in [state : States, interfaces : Versions, targets : [DOMAIN targets -> Paths]]
      BY <1>1, <2>1, <2>2, <3>3 DEF ManifestOK, States, targets
    <3>5. \A n \in DOMAIN targets : Nested \notin ToSet(targets[n])
      BY <1>1, <3>1, <3>2 DEF ManifestOK
    <3> QED BY <3>4, <3>5 DEF ManifestOK
  <2>3. ASSUME NEW version \in {"2", "unversioned"}, manifest' = [manifest EXCEPT !.interfaces = version]
        PROVE  ManifestOK'
    BY <1>1, <2>3 DEF ManifestOK, Versions
  <2> QED BY <1>5, <2>2, <2>3 DEF EditManifest
<1> QED BY <1>2, <1>3, <1>4, <1>5, Steps

LEMMA PreparedFits ==
    ASSUME surface \in Surfaces, manifest.interfaces \in Versions
    PROVE  Prepared \in Surfaces
<1>1. CASE surface = NoSurface
  BY <1>1 DEF Prepared, enrich_contract_metadata, baseline_surface, Surface, Surfaces, Known
<1>2. CASE surface # NoSurface
  <2> DEFINE missing == {key \in Standard : baseline_symbols[key].name \notin Names(SymbolsOf(surface))}
  <2>1. missing \subseteq Known
    BY DEF Known
  <2>2. merge_standard_symbols(surface) = [surface EXCEPT !.symbols = @ \cup missing, !.plain = @ \cup missing]
    BY DEF merge_standard_symbols
  <2> HIDE DEF missing
  <2> QED BY <1>2, <2>1, <2>2 DEF Prepared, enrich_contract_metadata, Surfaces
<1> QED BY <1>1, <1>2

LEMMA SurfaceNext == TypeInv /\ [Next]_vars => (surface \in Surfaces)'
<1> SUFFICES ASSUME TypeInv, [Next]_vars PROVE surface' \in Surfaces
  OBVIOUS
<1>1. surface \in Surfaces /\ manifest.interfaces \in Versions
  BY DEF TypeInv, ManifestOK
<1>2. CASE WriteSurface
  BY <1>1, <1>2, PreparedFits DEF WriteSurface
<1>3. CASE Kill /\ TearSurface
  BY <1>3 DEF TearSurface, TornSurface, Surface, Surfaces
<1>4. CASE EditSurface
  <2>1. ASSUME NEW key \in DOMAIN Additions,
               surface' = [surface EXCEPT !.symbols = @ \cup {key}, !.plain = @ \cup {key}]
        PROVE  surface' \in Surfaces
    BY <1>1, <2>1 DEF Surfaces, Known
  <2>2. ASSUME NEW key \in surface.symbols,
               surface' = [surface EXCEPT !.symbols = @ \ {key}, !.plain = @ \ {key}]
        PROVE  surface' \in Surfaces
    BY <1>1, <2>2 DEF Surfaces, Known
  <2> QED BY <1>4, <2>1, <2>2 DEF EditSurface
<1> QED BY <1>1, <1>2, <1>3, <1>4, Steps

LEMMA PutIsFunction ==
    ASSUME NEW map, NEW key, NEW value, NEW put, put = Put(map, key, value)
    PROVE  put = [p \in DOMAIN put |-> put[p]]
BY DEF Put

LEMMA MarkersNext == TypeInv /\ [Next]_vars => MarkersOK'
<1> SUFFICES ASSUME TypeInv, [Next]_vars PROVE MarkersOK'
  OBVIOUS
<1>1. marker' = [p \in DOMAIN marker' |-> marker'[p]]
  <2>1. CASE marker' = marker
    BY <2>1 DEF TypeInv, MarkersOK
  <2>2. CASE WriteMarker
    BY <2>2, PutIsFunction DEF WriteMarker
  <2>3. CASE RemoveClient
    BY <2>3 DEF RemoveClient
  <2> QED BY <2>1, <2>2, <2>3, Steps
<1>2. seal' = [p \in DOMAIN seal' |-> seal'[p]]
  <2>1. CASE seal' = seal
    BY <2>1 DEF TypeInv, MarkersOK
  <2>2. CASE WriteSeal
    BY <2>2, PutIsFunction DEF WriteSeal
  <2>3. CASE RemoveClient
    BY <2>3 DEF RemoveClient
  <2> QED BY <2>1, <2>2, <2>3, Steps
<1> QED BY <1>1, <1>2 DEF MarkersOK

LEMMA ChosenNext == TypeInv /\ [Next]_vars => ChosenOK'
<1> SUFFICES ASSUME TypeInv, [Next]_vars PROVE ChosenOK'
  OBVIOUS
<1>1. ChosenOK /\ Len(Specs) \in Nat
  BY HardenerAssumption DEF HardenerAssumption, TypeInv
<1>2. CASE chosen' = <<>>
  <2>1. chosen' \in Seq(Paths) /\ Len(chosen') = 0 /\ DOMAIN chosen' = {}
    BY <1>2
  <2> QED BY <1>1, <2>1 DEF ChosenOK, ChosenApart
<1>3. CASE RemoveClient
  BY <1>2, <1>3 DEF RemoveClient, Edit, TypeInv, ControlOK, memory
<1>4. CASE chosen' = chosen /\ ~RemoveClient
  <2>1. dirs \subseteq dirs'
    BY <1>4, DirsGrow
  <2> QED BY <1>1, <1>4, <2>1 DEF ChosenOK, ChosenApart, Chosen, Reserved
<1>5. CASE Choose
  <2> DEFINE i == Len(chosen) + 1
  <2>1. /\ i \in Targets /\ DOMAIN chosen = 1..Len(chosen) /\ Len(chosen) \in Nat
        /\ chosen' \in Seq(Paths) /\ Len(chosen') = i /\ DOMAIN chosen' = 1..i
        /\ \A k \in 1..Len(chosen) : chosen'[k] = chosen[k] /\ chosen[k] # chosen'[i]
        /\ chosen'[i] = PickFor(i) /\ dirs' = dirs
    BY <1>1, <1>5, ChooseAppends DEF repo, ChosenOK
  <2>2. Chosen(i, chosen'[i]) /\ ~Reserved(i, chosen'[i])
    BY <2>1, PickFits, PickIsNotReserved
  <2> HIDE DEF i
  <2>3. \A k \in DOMAIN chosen' : k = i \/ k \in DOMAIN chosen
    BY <2>1 DEF i
  <2>4. \A k \in DOMAIN chosen' : Chosen(k, chosen'[k]) /\ ~Reserved(k, chosen'[k])
    BY <1>1, <2>1, <2>2, <2>3 DEF ChosenOK, ChosenApart, Chosen
  <2>5. \A k, l \in DOMAIN chosen' : chosen'[k] = chosen'[l] => k = l
    BY <1>1, <2>1, <2>3 DEF ChosenOK, ChosenApart
  <2>6. Len(chosen') \in 0..Len(Specs)
    BY <1>1, <2>1 DEF Targets
  <2> QED BY <2>1, <2>4, <2>5, <2>6 DEF ChosenOK, ChosenApart, Chosen, Reserved
<1> QED BY <1>2, <1>3, <1>4, <1>5, Steps

LEMMA TypeInit == Init => TypeInv
<1> SUFFICES ASSUME Init PROVE TypeInv
  OBVIOUS
<1>1. PICK found \in Repositories :
        dirs = found.dirs /\ files = found.files /\ manifest = found.manifest /\ surface = found.surface
  BY DEF Init
<1>2. WellFormed(found)
  BY RepositoriesAssumption DEF RepositoriesAssumption
<1>3. DirsOK /\ FilesOK /\ ManifestOK /\ surface \in Surfaces
  BY <1>1, <1>2 DEF WellFormed, DirsOK, FilesOK, ManifestOK, States
<1>4. MarkersOK
  <2>1. marker = <<>> /\ seal = <<>>
    BY DEF Init
  <2> QED BY <2>1 DEF MarkersOK
<1>5. ChosenOK
  BY HardenerAssumption DEF HardenerAssumption, Init, ChosenOK, ChosenApart
<1>6. ControlOK
  <2>1. schema \in BOOLEAN /\ settled \in BOOLEAN /\ sound \in BOOLEAN
    BY DEF Init
  <2>2. next \in 1..(Len(Specs) + 1) /\ edits \in 0..MaxEdits /\ crashes \in 0..MaxCrashes
    BY HardenerAssumption DEF HardenerAssumption, Init
  <2>3. /\ mode = "check" /\ pc = "idle" /\ chosen = <<>> /\ next = 1 /\ plan = <<>> /\ exit = "none"
    BY DEF Init
  <2> QED BY <2>1, <2>2, <2>3 DEF ControlOK, Writing
<1>7. PlanOK /\ DoneOK
  BY DEF Init, PlanOK, DoneOK, Writing
<1> QED BY <1>3, <1>4, <1>5, <1>6, <1>7 DEF TypeInv

LEMMA TypeNext == TypeInv /\ [Next]_vars => TypeInv'
BY DirsNext, FilesNext, ManifestNext, SurfaceNext, MarkersNext, ChosenNext, ControlNext, PlanNext, DoneNext
   DEF TypeInv

LEMMA TypeInvHolds == Spec => []TypeInv
BY TypeInit, TypeNext, PTL DEF Spec

\* The files, the manifest and the state of a run are always what they are taken
\* for, whatever a developer or a kill leaves behind.
THEOREM Types == Spec => []TypeOK
<1>1. TypeInv => TypeOK
  <2> SUFFICES ASSUME TypeInv PROVE TypeOK
    OBVIOUS
  <2>1. \A path \in DOMAIN files : path[1] \in dirs /\ files[path] \in Contents
    BY DEF TypeInv, FilesOK
  <2>2. manifest.state \in States
    BY DEF TypeInv, ManifestOK
  <2>3. ControlOK /\ Len(chosen) \in 0..Len(Specs)
    BY DEF TypeInv, ChosenOK
  <2> QED BY <2>1, <2>2, <2>3 DEF TypeOK, ControlOK, Writing, States
<1> QED BY <1>1, TypeInvHolds, PTL

-----------------------------------------------------------------------------
(* Packages are whole *)

LEMMA PackagesInit == Init => PackagesOK
<1> SUFFICES ASSUME Init PROVE PackagesOK
  OBVIOUS
<1>1. PICK found \in Repositories : dirs = found.dirs /\ files = found.files
  BY DEF Init
<1>2. WellFormed(found)
  BY RepositoriesAssumption DEF RepositoriesAssumption
<1>3. ASSUME NEW d \in Paths, NEW i \in Targets, Cardinality(Generated(i)) = 1,
             NEW f \in Generated(i), <<d, f>> \in DOMAIN files, files[<<d, f>>] = "baseline"
      PROVE  \A g \in ToSet(Specs[i].files) : <<d, g>> \in DOMAIN files
  <2>1. d \in found.dirs
    BY <1>1, <1>2, <1>3 DEF WellFormed
  <2>2. \E g \in Generated(i) : <<d, g>> \in DOMAIN found.files /\ found.files[<<d, g>>] = "baseline"
    BY <1>1, <1>3
  <2> QED BY <1>1, <1>2, <1>3, <2>1, <2>2 DEF WellFormed
<1> QED BY <1>3 DEF PackagesOK

\* When the only source of a package is written, the rest of it is there.
LEMMA PackagesNext == TypeInv /\ PackagesOK /\ [Next]_vars => PackagesOK'
<1> SUFFICES ASSUME TypeInv, PackagesOK, [Next]_vars, NEW d \in Paths, NEW i \in Targets,
                    Cardinality(Generated(i)) = 1, NEW f \in Generated(i),
                    <<d, f>> \in DOMAIN files', files'[<<d, f>>] = "baseline",
                    NEW g \in ToSet(Specs[i].files)
             PROVE  <<d, g>> \in DOMAIN files'
  BY DEF PackagesOK
<1>1. <<d, f>> \in DOMAIN files /\ files[<<d, f>>] = "baseline" => <<d, g>> \in DOMAIN files
  BY DEF PackagesOK
<1>2. CASE files' = files
  BY <1>1, <1>2
<1>3. CASE WriteScaffold
  <2> DEFINE list == Specs[next - 1].files
             own == DirOf(next - 1)
  <2>1. /\ DOMAIN files' = DOMAIN files \cup {PlannedFile} /\ plan # <<>>
        /\ \A path \in DOMAIN files \ {PlannedFile} : files'[path] = files[path]
    BY <1>3, ScaffoldPuts
  <2>2. CASE <<d, f>> # PlannedFile
    BY <1>1, <2>1, <2>2
  <2>3. CASE <<d, f>> = PlannedFile
    <3>1. next - 1 \in Targets
      BY <2>1, PlanHead
    <3>2. PICK k \in 1..Len(list) :
            Head(plan) = list[k] /\ \A l \in 1..(k - 1) : <<own, list[l]>> \in DOMAIN files
      BY <2>1, PlanHead
    <3>3. list \in Seq(FileKinds) /\ Specs[i].files \in Seq(FileKinds)
      BY <3>1, SpecTypes
    <3>4. d = own /\ f = list[k]
      BY <2>3, <3>2 DEF PlannedFile
    <3>5. f \in Generated(next - 1)
      <4>1. f \in ToSet(list)
        BY <3>2, <3>3, <3>4 DEF ToSet
      <4> QED BY <4>1 DEF Generated
    <3>6. Specs[i].files = list
      BY <3>1, <3>5, FilesAssumption DEF FilesAssumption
    <3>7. k = Len(list)
      <4>1. Generated(i) = Generated(next - 1)
        BY <3>6 DEF Generated
      <4>2. \A l \in DOMAIN list : list[l].rooted => l = Len(list)
        BY <3>1, <4>1, FilesAssumption DEF FilesAssumption
      <4>3. list[k].rooted
        BY <3>4, <3>5 DEF Generated
      <4> QED BY <3>2, <3>3, <4>2, <4>3
    <3>8. PICK l \in DOMAIN list : list[l] = g
      BY <3>6 DEF ToSet
    <3>9. PlannedFile = <<own, list[k]>>
      BY <3>2 DEF PlannedFile
    <3> HIDE DEF list, own
    <3>10. l \in 1..(k - 1) \/ l = k
      BY <3>2, <3>3, <3>7, <3>8
    <3> QED BY <2>1, <3>2, <3>4, <3>8, <3>9, <3>10
  <2> QED BY <2>2, <2>3
<1>4. CASE Kill /\ TearFile
  <2>1. /\ DOMAIN files' = DOMAIN files \cup {PlannedFile} /\ files'[PlannedFile] = "torn"
        /\ \A path \in DOMAIN files \ {PlannedFile} : files'[path] = files[path]
    <3>1. files' = Put(files, PlannedFile, "torn")
      BY <1>4 DEF TearFile
    <3> QED BY <3>1, Zenon DEF Put
  <2> QED BY <1>1, <2>1
<1>5. CASE EditFile
  <2>1. PICK path \in OwnFiles : files' = Put(files, path, "own")
    BY <1>5 DEF EditFile
  <2>2. /\ DOMAIN files' = DOMAIN files \cup {path} /\ files'[path] = "own"
        /\ \A other \in DOMAIN files \ {path} : files'[other] = files[other]
    BY <2>1, Zenon DEF Put
  <2> QED BY <1>1, <2>2
<1>6. CASE RemoveClient
  <2>1. PICK removed \in ClientDirs :
          files' = [path \in {path \in DOMAIN files : ~Under(removed, path[1])} |-> files[path]]
    BY <1>6 DEF RemoveClient
  <2>2. /\ DOMAIN files' = {path \in DOMAIN files : ~Under(removed, path[1])}
        /\ \A path \in DOMAIN files' : files'[path] = files[path]
    BY <2>1
  <2>3. ~Under(removed, <<d, f>>[1]) /\ <<d, g>> \in DOMAIN files
    BY <1>1, <2>2
  <2>4. <<d, f>>[1] = d /\ <<d, g>>[1] = d
    OBVIOUS
  <2> QED BY <2>2, <2>3, <2>4
<1> QED BY <1>2, <1>3, <1>4, <1>5, <1>6, Steps

\* Whenever the one source of a package is as the script wrote it, the package is
\* whole, at every moment of every history: it is written last.
THEOREM PackagesAreWhole == Spec => []BaselineIsWhole
<1>1. ASSUME TypeInv, PackagesOK, NEW path \in DOMAIN files, path[2].rooted, files[path] = "baseline",
             NEW package \in Packages, package.sources = {path[2]}, NEW f \in package.files
      PROVE  <<path[1], f>> \in DOMAIN files
  <2>1. path[1] \in Paths /\ path = <<path[1], path[2]>>
    BY <1>1 DEF TypeInv, FilesOK, DirsOK
  <2>2. PICK i \in Targets : Generated(i) = {path[2]} /\ f \in ToSet(Specs[i].files)
    BY <1>1 DEF Packages
  <2>3. Cardinality(Generated(i)) = 1
    BY <2>2, FS_Singleton
  <2> QED BY <1>1, <2>1, <2>2, <2>3 DEF PackagesOK
<1>2. TypeInv /\ PackagesOK => BaselineIsWhole
  BY <1>1 DEF BaselineIsWhole
<1> QED BY <1>2, PackagesInit, PackagesNext, TypeInvHolds, PTL DEF Spec

\* Every target gets a directory of its own, and the collision that
\* choose_target_dirs raises for never happens.
THEOREM TargetsAreApart == Spec => []OwnDirectory
<1>1. TypeInv => OwnDirectory
  BY NoCollision DEF TypeInv, ChosenOK, ChosenApart, OwnDirectory
<1> QED BY <1>1, TypeInvHolds, PTL

-----------------------------------------------------------------------------
(* Files of developers *)

LEMMA RunsDoNotEdit ==
    ASSUME TypeInv, Run \/ Kill
    PROVE  ~Develop
<1>1. edits' = edits
  <2>1. ASSUME NEW m \in {"write", "check"}, NEW g \in BOOLEAN, Start(m, g)
        PROVE  edits' = edits
    BY <2>1 DEF Start
  <2>2. CASE Choose \/ StartWriting \/ Verify \/ Kill
    BY <2>2 DEF Choose, StartWriting, Verify, Kill
  <2>3. CASE OpenTarget \/ WriteScaffold \/ EnsureManifest \/ EnsureMatrix
    BY <2>3 DEF OpenTarget, WriteScaffold, EnsureManifest, EnsureMatrix, Proceed
  <2>4. CASE Contract
    BY <2>4 DEF Contract, WriteSchema, WriteSurface, WriteFingerprint, WriteMarker, WriteSeal, WriteRegister,
                Proceed
  <2> QED BY <2>1, <2>2, <2>3, <2>4 DEF Run, Scaffold
<1>2. edits \in Nat
  BY HardenerAssumption DEF HardenerAssumption, TypeInv, ControlOK
<1>3. Develop => edits' = edits + 1
  BY DEF Develop, EditFile, RemoveClient, EditManifest, EditSurface, Edit
<1> QED BY <1>1, <1>2, <1>3

\* The two ways a run changes a file: it writes a planned one, or it is killed
\* while it does.
LEMMA RunWritesPlannedFiles ==
    ASSUME TypeInv, Run \/ Kill
    PROVE  files' = files \/ (ToWrite /\ \E content : files' = Put(files, PlannedFile, content))
<1>1. [Next]_vars
  BY DEF Next
<1>2. ~EditFile /\ ~RemoveClient
  BY RunsDoNotEdit DEF Develop
<1>3. CASE WriteScaffold
  BY <1>3 DEF WriteScaffold
<1>4. CASE TearFile
  BY <1>4 DEF TearFile
<1> QED BY <1>1, <1>2, <1>3, <1>4, Steps

\* A file that developers wrote survives every run, whatever it finds and wherever
\* it is killed.
THEOREM ProductIsPreserved == Spec => ProductPreserved
<1>1. ASSUME TypeInv, Run \/ Kill, NEW path \in DOMAIN files, files[path] = "own"
      PROVE  path \in DOMAIN files' /\ files'[path] = "own"
  <2>1. CASE files' = files
    BY <1>1, <2>1
  <2>2. ASSUME ToWrite, NEW content, files' = Put(files, PlannedFile, content)
        PROVE  path \in DOMAIN files' /\ files'[path] = "own"
    <3>1. path # PlannedFile
      BY <1>1, <2>2 DEF ToWrite, Content
    <3> QED BY <1>1, <2>2, <3>1, Zenon DEF Put
  <2> QED BY <1>1, <2>1, <2>2, RunWritesPlannedFiles
<1>2. TypeInv /\ [Next]_vars =>
          [(\E path \in DOMAIN files :
               files[path] = "own" /\ ~(path \in DOMAIN files' /\ files'[path] = "own")) => Develop]_vars
  BY <1>1 DEF Next
<1> QED BY <1>2, TypeInvHolds, PTL DEF Spec, ProductPreserved

-----------------------------------------------------------------------------
(* What a write leaves: definitions *)

\* The directory a target gets after those before it in the choice o.
PickAfter(i, o) ==
    LET preferred == choose_dir(Specs[i])
    IN IF \/ Escapes(preferred)
          \/ \E j \in 1..(i - 1) : o[j] = preferred
          \/ Reserved(i, preferred)
       THEN Specs[i].dir ELSE preferred

\* choose_target_dirs would choose o.
Chooses(o) == \A i \in DOMAIN o : o[i] = PickAfter(i, o)

\* The matrix holds the choice of the last write.
Recorded == [i \in Targets |-> matrix[Specs[i].name]]
Follows == \A i \in DOMAIN chosen : chosen[i] = Recorded[i]
MatrixOf(o) == [name \in {Specs[i].name : i \in Targets} |-> o[CHOOSE i \in Targets : Specs[i].name = name]]

\* The directories to mark for a choice o.
MarkOf(i, o) == [name |-> TargetName(i), dir |-> o[i], place |-> marker_dir(Specs[i], o[i])]
ExtensionsOf(o) == extension_client_dirs(o)
MarksOf(o) == {MarkOf(i, o) : i \in Targets} \cup {ExtensionMark(d) : d \in ExtensionsOf(o)}
Marker(mark) == [target |-> mark.name, digest |-> surface]
Marked(mark) ==
    /\ mark.place \in DOMAIN marker /\ marker[mark.place] = Marker(mark)
    /\ mark.place \in DOMAIN seal /\ seal[mark.place] = surface

\* Nothing is missing in the surface, and it is what Prepared makes of it.
Missing(s) == {key \in Standard : baseline_symbols[key].name \notin Names(SymbolsOf(s))}
SurfaceReady ==
    /\ surface.plain = {} /\ surface.interfaces = manifest.interfaces /\ Missing(surface) = {}
    /\ SchemaErrors(surface) \cup semantic_errors(surface) = {}

Depends == schema /\ manifest.state = Whole /\ manifest.interfaces \notin {"none", "unversioned"}

\* What every write has brought up to date when it chooses again: all that the
\* register is made from, and the register.
Derived ==
    LET o == Recorded
    IN /\ matrix = MatrixOf(o) /\ o \in [Targets -> dirs]
       /\ \A i \in Targets : Implemented(i, o[i]) /\ Chosen(i, o[i]) /\ ~Reserved(i, o[i])
       /\ \A i, j \in Targets : o[i] = o[j] => i = j
       /\ Depends /\ SurfaceReady /\ fingerprint = surface
       /\ \A mark \in MarksOf(o) : Marked(mark)
Contracted ==
    /\ Derived
    /\ register = [state |-> Whole, digest |-> surface, entries |-> {Entry(mark) : mark \in MarksOf(Recorded)}]

\* .zpkg.toml says what ensure_manifest would make of it.
ManifestStays(o) ==
    /\ manifest.state = Whole /\ ~Shares(manifest.targets)
    /\ \A n \in DOMAIN manifest.targets : ~Escapes(manifest.targets[n])
    /\ \/ Mature
       \/ /\ DOMAIN manifest.targets \cap Obsolete = {}
          /\ "repository" \notin Obsolete =>
                "repository" \in DOMAIN manifest.targets /\ manifest.targets["repository"] = <<>>
          /\ \A i \in Published :
                Specs[i].zed \in DOMAIN manifest.targets /\ manifest.targets[Specs[i].zed] = o[i]

Stays(o) == Chooses(o) /\ ManifestStays(o)

\* What a sound write relies on while it makes directories: a target with a name
\* in the manifest keeps the directory it names, and one without keeps its own
\* place, or the directory it would have without a word in the manifest.
Present(i) == \E n \in ToSet(DeclaredNames(Specs[i])) : n \in DOMAIN manifest.targets
HomeKept(i) == chosen[i] \in {Specs[i].dir, undeclared_dir(Specs[i])}
Lasting ==
    IF Mature
    THEN /\ ~Shares(manifest.targets)
         /\ \A i \in Targets : \A n \in ToSet(DeclaredNames(Specs[i])) \cap DOMAIN manifest.targets :
                manifest.targets[n] \in dirs
         /\ \A i \in Targets : IF Present(i) THEN chosen[i] = PickAfter(i, chosen) ELSE HomeKept(i)
    ELSE /\ \A n \in Foreign :
             /\ manifest.targets[n] # <<>> /\ ~Escapes(manifest.targets[n])
             /\ \A m \in Foreign : manifest.targets[m] = manifest.targets[n] => m = n
             /\ \A i \in Published : chosen[i] # manifest.targets[n]
         /\ \A i \in Published : chosen[i] # <<>>
         /\ \A i \in Targets \ Published : HomeKept(i)

AfterMatrix == Later \ {"matrix"}
AfterSchema == AfterMatrix \ {"schema"}
AfterSurface == AfterSchema \ {"surface"}
AfterFingerprint == {"mark", "seal"}

ChoiceInv == pc \in {"choose", "rechoose"} => Chooses(chosen)
LastingInv ==
    /\ sound /\ pc = "scaffold" => Lasting
    /\ sound /\ pc \in Later => Stays(chosen)
    /\ sound /\ pc = "rechoose" => Stays(Recorded) /\ Follows
PhaseInv ==
    /\ pc \in Later => manifest.state = Whole
    /\ pc \in AfterMatrix => matrix = MatrixOf(chosen)
    /\ pc \in AfterSchema => schema /\ manifest.interfaces \notin {"none", "unversioned"}
    /\ pc \in AfterSurface => SurfaceReady
    /\ pc \in AfterFingerprint =>
        /\ fingerprint = surface /\ work \subseteq ToMark
        /\ \A mark \in ToMark \ work : Marked(mark)
        /\ entries = {Entry(mark) : mark \in ToMark \ work}
    /\ pc = "seal" =>
        /\ work # {} /\ Marking.place \in DOMAIN marker /\ marker[Marking.place] = Marker(Marking)
    /\ pc = "rechoose" => Contracted
SettledInv ==
    settled =>
        /\ Contracted /\ Stays(Recorded)
        /\ plan = <<>> /\ Follows

-----------------------------------------------------------------------------
(* What stays the same *)

LEMMA SameUndeclared ==
    ASSUME dirs' = dirs, (\A i \in Targets : InSharedPackage(Specs[i])' <=> InSharedPackage(Specs[i]))
    PROVE  \A i \in Targets : undeclared_dir(Specs[i])' = undeclared_dir(Specs[i])
<1> SUFFICES ASSUME NEW i \in Targets
             PROVE  undeclared_dir(Specs[i])' = undeclared_dir(Specs[i])
  OBVIOUS
<1>1. ExistingAliases(Specs[i])' = ExistingAliases(Specs[i])
  BY DEF ExistingAliases
<1>2. (Specs[i].dir \in dirs)' <=> Specs[i].dir \in dirs
  OBVIOUS
<1>3. InSharedPackage(Specs[i])' <=> InSharedPackage(Specs[i])
  OBVIOUS
<1>4. Min(ExistingAliases(Specs[i]))' = Min(ExistingAliases(Specs[i]))
  BY <1>1, Zenon
<1> QED BY <1>1, <1>2, <1>3, <1>4 DEF undeclared_dir

LEMMA SameShared ==
    ASSUME files' = files
    PROVE  \A i \in Targets : InSharedPackage(Specs[i])' <=> InSharedPackage(Specs[i])
BY DEF InSharedPackage

LEMMA SameChoice ==
    ASSUME UNCHANGED <<dirs, files, manifest>>, NEW i \in Targets
    PROVE  /\ undeclared_dir(Specs[i])' = undeclared_dir(Specs[i])
           /\ choose_dir(Specs[i])' = choose_dir(Specs[i])
<1>1. undeclared_dir(Specs[i])' = undeclared_dir(Specs[i])
  BY SameShared, SameUndeclared
<1>2. Declared(Specs[i])' = Declared(Specs[i])
  BY DEF Declared
<1>3. Min(Declared(Specs[i]))' = Min(Declared(Specs[i]))
  BY <1>2, Zenon
<1>4. manifest'.targets = manifest.targets
  OBVIOUS
<1> QED BY <1>1, <1>2, <1>3, <1>4, Zenon DEF choose_dir

LEMMA SameManifest ==
    ASSUME manifest' = manifest
    PROVE  Mature' = Mature /\ Obsolete' = Obsolete /\ Foreign' = Foreign /\ Configured' = Configured
<1>1. Configured' = Configured
  BY DEF Configured
<1>2. Obsolete' = Obsolete
  BY <1>1 DEF Obsolete
<1>3. Foreign' = Foreign
  BY <1>2 DEF Foreign
<1>4. {n \in Configured : Safe(manifest.targets[n])}' = {n \in Configured : Safe(manifest.targets[n])}
  BY <1>1
<1>5. Mature' = Mature
  BY <1>1, <1>4 DEF Mature
<1> QED BY <1>1, <1>2, <1>3, <1>5

LEMMA SameStaysChosen ==
    ASSUME UNCHANGED <<dirs, files, manifest, chosen>>, Stays(chosen), DOMAIN chosen \subseteq Targets
    PROVE  Stays(chosen)'
<1>1. \A i \in DOMAIN chosen : PickAfter(i, chosen)' = PickAfter(i, chosen)
  <2> SUFFICES ASSUME NEW i \in DOMAIN chosen PROVE PickAfter(i, chosen)' = PickAfter(i, chosen)
    OBVIOUS
  <2>1. choose_dir(Specs[i])' = choose_dir(Specs[i])
    BY SameChoice
  <2> QED BY <2>1 DEF PickAfter, Reserved
<1>2. Chooses(chosen)'
  BY <1>1 DEF Stays, Chooses
<1>3. ManifestStays(chosen)'
  BY SameManifest DEF Stays, ManifestStays
<1> QED BY <1>2, <1>3 DEF Stays

LEMMA SameStaysRecorded ==
    ASSUME UNCHANGED <<dirs, files, manifest, matrix>>, Stays(Recorded)
    PROVE  Stays(Recorded)'
<1>1. Recorded' = Recorded /\ DOMAIN Recorded = Targets
  BY DEF Recorded
<1>2. \A i \in Targets : PickAfter(i, Recorded)' = PickAfter(i, Recorded)
  <2> SUFFICES ASSUME NEW i \in Targets PROVE PickAfter(i, Recorded)' = PickAfter(i, Recorded)
    OBVIOUS
  <2>1. choose_dir(Specs[i])' = choose_dir(Specs[i])
    BY SameChoice
  <2> QED BY <1>1, <2>1 DEF PickAfter, Reserved
<1>3. Chooses(Recorded)'
  BY <1>1, <1>2 DEF Stays, Chooses
<1>4. ManifestStays(Recorded)'
  BY <1>1, SameManifest DEF Stays, ManifestStays
<1> QED BY <1>3, <1>4 DEF Stays

LEMMA SameEvidence ==
    ASSUME files' = files, NEW d
    PROVE  implementation_evidence(d)' = implementation_evidence(d)
BY DEF implementation_evidence, Content

LEMMA SameSurface ==
    ASSUME UNCHANGED <<surface, manifest>>, SurfaceReady
    PROVE  SurfaceReady'
BY DEF SurfaceReady, Missing

LEMMA SameExtensions ==
    ASSUME dirs' = dirs
    PROVE  /\ ClientDirs' = ClientDirs
           /\ Recorded' = Recorded => ExtensionsOf(Recorded)' = ExtensionsOf(Recorded)
           /\ chosen' = chosen => Extensions' = Extensions
<1>1. ClientDirs' = ClientDirs
  BY DEF ClientDirs
<1> QED BY <1>1 DEF ExtensionsOf, Extensions, extension_client_dirs

LEMMA SameMarks ==
    ASSUME UNCHANGED <<dirs, matrix>>
    PROVE  MarksOf(Recorded)' = MarksOf(Recorded)
<1>1. Recorded' = Recorded
  BY DEF Recorded
<1>2. ExtensionsOf(Recorded)' = ExtensionsOf(Recorded)
  BY <1>1, SameExtensions
<1>3. {MarkOf(i, Recorded) : i \in Targets}' = {MarkOf(i, Recorded) : i \in Targets}
  BY <1>1 DEF MarkOf, marker_dir, TargetName
<1>4. {ExtensionMark(d) : d \in ExtensionsOf(Recorded)}' = {ExtensionMark(d) : d \in ExtensionsOf(Recorded)}
  BY <1>2 DEF ExtensionMark, ExtensionName
<1> QED BY <1>3, <1>4 DEF MarksOf

LEMMA SameDerived ==
    ASSUME UNCHANGED <<dirs, files, manifest, schema, surface>>,
           UNCHANGED <<fingerprint, marker, seal, matrix>>, Derived
    PROVE  Derived' /\ {Entry(mark) : mark \in MarksOf(Recorded)}' = {Entry(mark) : mark \in MarksOf(Recorded)}
<1>2. Recorded' = Recorded /\ MatrixOf(Recorded)' = MatrixOf(Recorded)
  BY DEF Recorded, MatrixOf
<1>3. MarksOf(Recorded)' = MarksOf(Recorded)
  BY SameMarks
<1>4. \A i \in Targets : Implemented(i, Recorded[i]) => Implemented(i, Recorded[i])'
  BY <1>2 DEF Implemented, has_product_implementation, SharesPackage
<1>5. \A mark \in MarksOf(Recorded) : Marked(mark) => Marked(mark)'
  BY DEF Marked, Marker
<1>6. {Entry(mark) : mark \in MarksOf(Recorded)}' = {Entry(mark) : mark \in MarksOf(Recorded)}
  <2>1. \A mark : Entry(mark)' = Entry(mark)
    BY SameEvidence DEF Entry
  <2> QED BY <1>3, <2>1
<1>7. Depends' /\ SurfaceReady'
  BY SameSurface DEF Derived, Depends
<1> QED
  BY <1>2, <1>3, <1>4, <1>5, <1>6, <1>7 DEF Derived, Chosen, Reserved

LEMMA SameContracted ==
    ASSUME UNCHANGED repo, Contracted
    PROVE  Contracted'
<1>1. /\ UNCHANGED <<dirs, files, manifest, schema, surface>>
      /\ UNCHANGED <<fingerprint, marker, seal, register, matrix>>
  BY DEF repo
<1> QED BY <1>1, SameDerived DEF Contracted

-----------------------------------------------------------------------------
(* Choosing again *)

LEMMA PickIsAfter ==
    ASSUME TypeInv, Len(chosen) < Len(Specs), NEW o, \A j \in 1..Len(chosen) : o[j] = chosen[j]
    PROVE  PickFor(Len(chosen) + 1) = PickAfter(Len(chosen) + 1, o)
<1> DEFINE i == Len(chosen) + 1
           preferred == choose_dir(Specs[i])
<1>1. DOMAIN chosen = 1..Len(chosen) /\ 1..(i - 1) = 1..Len(chosen)
  BY DEF TypeInv, ChosenOK
<1>2. preferred \in ToSet(chosen) <=> \E j \in 1..(i - 1) : o[j] = preferred
  BY <1>1 DEF ToSet
<1> QED BY <1>2 DEF PickFor, PickAfter

LEMMA ChoiceNext == TypeInv /\ ChoiceInv /\ [Next]_vars => ChoiceInv'
<1> SUFFICES ASSUME TypeInv, ChoiceInv, [Next]_vars, pc' \in {"choose", "rechoose"}
             PROVE  Chooses(chosen)'
  BY DEF ChoiceInv
<1>1. DOMAIN chosen \subseteq Targets
  BY HardenerAssumption DEF HardenerAssumption, TypeInv, ChosenOK, Targets
<1>2. CASE chosen' = <<>>
  BY <1>2 DEF Chooses
<1>3. CASE UNCHANGED <<repo, chosen>> /\ pc' = pc
  <2>1. \A i \in DOMAIN chosen : PickAfter(i, chosen)' = PickAfter(i, chosen)
    <3> SUFFICES ASSUME NEW i \in DOMAIN chosen PROVE PickAfter(i, chosen)' = PickAfter(i, chosen)
      OBVIOUS
    <3>1. choose_dir(Specs[i])' = choose_dir(Specs[i])
      BY <1>1, <1>3, SameChoice DEF repo
    <3> QED BY <1>3, <3>1 DEF PickAfter, Reserved
  <2> QED BY <1>3, <2>1 DEF ChoiceInv, Chooses
<1>4. CASE Choose
  <2>0. PICK i \in Targets : i = Len(chosen) + 1
    BY <1>4, ChooseAppends
  <2>1. /\ i \in Targets /\ DOMAIN chosen = 1..Len(chosen) /\ DOMAIN chosen' = 1..i /\ Len(chosen) \in Nat
        /\ \A k \in 1..Len(chosen) : chosen'[k] = chosen[k]
        /\ chosen'[i] = PickFor(i) /\ UNCHANGED repo /\ Len(chosen) < Len(Specs)
    BY <1>4, <2>0, ChooseAppends DEF Choose, TypeInv, ChosenOK
  <2>2. Chooses(chosen)
    BY <1>4 DEF Choose, ChoiceInv
  <2>3. ASSUME NEW k \in Targets
        PROVE  choose_dir(Specs[k])' = choose_dir(Specs[k])
    BY <2>1, SameChoice DEF repo
  <2>4. ASSUME NEW k \in 1..Len(chosen)
        PROVE  chosen'[k] = PickAfter(k, chosen)'
    <3>1. chosen[k] = PickAfter(k, chosen) /\ k \in Targets
      BY <1>1, <2>1, <2>2 DEF Chooses
    <3>2. \A j \in 1..(k - 1) : chosen'[j] = chosen[j]
      BY <2>1
    <3>3. choose_dir(Specs[k])' = choose_dir(Specs[k])
      BY <2>3, <3>1
    <3> QED BY <2>1, <3>1, <3>2, <3>3 DEF PickAfter, Reserved
  <2>5. chosen'[i] = PickAfter(i, chosen)'
    <3>1. PickFor(i) = PickAfter(i, chosen)
      BY <2>0, <2>1, PickIsAfter
    <3>2. choose_dir(Specs[i])' = choose_dir(Specs[i])
      BY <2>1, <2>3
    <3>3. \A j \in 1..(i - 1) : chosen'[j] = chosen[j]
      BY <2>0, <2>1
    <3> QED BY <2>1, <3>1, <3>2, <3>3 DEF PickAfter, Reserved
  <2>6. \A k \in DOMAIN chosen' : k = i \/ k \in 1..Len(chosen)
    BY <2>0, <2>1
  <2> QED BY <2>4, <2>5, <2>6 DEF Chooses
<1>5. CASE Develop
  BY <1>5 DEF Develop, EditFile, RemoveClient, EditManifest, EditSurface, Edit
<1>6. CASE pc = "idle"
  BY <1>2, <1>3, <1>5, <1>6, Phases DEF Over, Choose, StartWriting, OpenTarget, WriteScaffold, EnsureManifest,
     GoesOn, Later, Writing, WriteRegister, TypeInv, ControlOK, memory
<1>7. CASE pc # "idle"
  <2>1. CASE StartWriting \/ OpenTarget \/ WriteScaffold
    BY <2>1 DEF StartWriting, OpenTarget, WriteScaffold, Proceed
  <2>2. CASE GoesOn \/ (EnsureManifest /\ pc' = "matrix") \/ Over
    BY <2>2 DEF GoesOn, Later, Writing, Over
  <2>3. CASE WriteRegister
    BY <1>2, <2>3 DEF WriteRegister
  <2> QED BY <1>3, <1>4, <1>5, <1>7, <2>1, <2>2, <2>3, Phases
<1> QED BY <1>6, <1>7

-----------------------------------------------------------------------------
(* The surface *)

\* Enriching a symbol leaves its name alone.
LEMMA EnrichedKeepsName ==
    ASSUME NEW key \in Known
    PROVE  Enriched(Written(key)).name = Written(key).name
<1>1. CASE key \in Standard
  <2>1. \E name, kind, visibility, members : baseline_symbols[key] = Symbol(name, kind, visibility, members)
    BY <1>1 DEF Standard, baseline_symbols
  <2>2. PICK name, kind, visibility, members : Written(key) = Symbol(name, kind, visibility, members)
    BY <1>1, <2>1 DEF Written
  <2> QED BY <2>2 DEF Symbol, Enriched
<1>2. CASE key \notin Standard
  <2>1. Written(key) \in Symbols
    BY <1>2, AdditionsAssumption DEF AdditionsAssumption, Known, Written
  <2> QED BY <2>1 DEF Symbols, Enriched
<1> QED BY <1>1, <1>2

LEMMA NamesOfSymbols ==
    ASSUME NEW s \in Surfaces
    PROVE  Names(SymbolsOf(s)) = {Written(key).name : key \in s.symbols}
<1>1. s.symbols \subseteq Known
  BY DEF Surfaces
<1>2. \A key \in s.symbols :
        (IF key \in s.plain THEN Written(key) ELSE Enriched(Written(key))).name = Written(key).name
  BY <1>1, EnrichedKeepsName
<1> QED BY <1>2 DEF Names, SymbolsOf

LEMMA MissingOf ==
    ASSUME NEW s \in Surfaces
    PROVE  Missing(s) = {key \in Standard : \A k \in s.symbols : Written(k).name # baseline_symbols[key].name}
BY NamesOfSymbols DEF Missing

LEMMA PreparedIsReady ==
    ASSUME surface \in Surfaces, manifest.interfaces \in Versions
    PROVE  Prepared.plain = {} /\ Prepared.interfaces = manifest.interfaces /\ Missing(Prepared) = {}
<1>1. Prepared \in Surfaces
  BY PreparedFits
<1>2. \A key \in Standard : Written(key) = baseline_symbols[key]
  BY DEF Written
<1>3. CASE surface = NoSurface
  <2>1. Prepared.plain = {} /\ Prepared.interfaces = manifest.interfaces /\ Prepared.symbols = Standard
    BY <1>3 DEF Prepared, enrich_contract_metadata, baseline_surface, Surface
  <2> QED BY <1>1, <1>2, <2>1, MissingOf
<1>4. CASE surface # NoSurface
  <2>1. merge_standard_symbols(surface)
            = [surface EXCEPT !.symbols = @ \cup Missing(surface), !.plain = @ \cup Missing(surface)]
    BY DEF merge_standard_symbols, Missing
  <2>2. /\ Prepared.plain = {} /\ Prepared.interfaces = manifest.interfaces
        /\ Prepared.symbols = surface.symbols \cup Missing(surface)
    BY <1>4, <2>1 DEF Prepared, enrich_contract_metadata, Surfaces
  <2>3. Missing(surface) = {key \in Standard : \A k \in surface.symbols : Written(k).name # baseline_symbols[key].name}
    BY MissingOf
  <2> QED BY <1>1, <1>2, <2>2, <2>3, MissingOf
<1> QED BY <1>3, <1>4

\* A surface that was prepared is left as it is.
LEMMA ReadyIsPrepared ==
    ASSUME surface \in Surfaces, manifest.interfaces \in Versions, SurfaceReady,
           manifest.interfaces \notin {"none", "unversioned"}
    PROVE  Prepared = surface /\ surface \notin {NoSurface, TornSurface} /\ SurfaceErrors = {}
<1>1. surface.interfaces \in {"1", "2"}
  BY DEF SurfaceReady, Versions
<1>2. surface # NoSurface /\ surface # TornSurface
  BY <1>1 DEF NoSurface, TornSurface, Surface
<1>3. merge_standard_symbols(surface)
        = [surface EXCEPT !.symbols = @ \cup Missing(surface), !.plain = @ \cup Missing(surface)]
  BY DEF merge_standard_symbols, Missing
<1>4. Prepared = surface
  BY <1>2, <1>3 DEF Prepared, enrich_contract_metadata, Surfaces, SurfaceReady
<1> QED BY <1>2, <1>4 DEF SurfaceReady, SurfaceErrors

-----------------------------------------------------------------------------
(* Places and names of the marks *)

\* A choice of a directory for each target, as choose_target_dirs makes it.
Choice(o) ==
    /\ o \in [Targets -> Paths]
    /\ \A i \in Targets : Nested \notin ToSet(o[i])
    /\ \A i, j \in Targets : o[i] = o[j] => i = j

LEMMA MarkerDirs ==
    ASSUME NEW i \in Targets, NEW d \in Paths
    PROVE  \/ marker_dir(Specs[i], d) = d
           \/ /\ d = SharedDir /\ Nested \in ToSet(marker_dir(Specs[i], d))
              /\ Len(marker_dir(Specs[i], d)) = 4
<1> DEFINE place == <<"clients", "typescript">> \o <<Nested, Specs[i].runtime>>
<1>1. /\ DOMAIN place = 1..4 /\ Len(place) = 4 /\ place[3] = Nested
  OBVIOUS
<1>2. Nested \in ToSet(place)
  BY <1>1 DEF ToSet
<1>3. marker_dir(Specs[i], d) = d \/ (d = SharedDir /\ marker_dir(Specs[i], d) = place)
  BY DEF marker_dir, SharedDir
<1> QED BY <1>1, <1>2, <1>3

LEMMA MarksApart ==
    ASSUME TypeInv, NEW o, Choice(o), NEW m \in MarksOf(o), NEW n \in MarksOf(o),
           m.place = n.place \/ m.name = n.name
    PROVE  m = n
<1>1. \A d \in ExtensionsOf(o) :
        d \in Paths /\ Len(d) = 2 /\ d[1] = "clients" /\ \A i \in Targets : ~Under(d, o[i])
  BY DEF ExtensionsOf, extension_client_dirs, ClientDirs, ToSet, Choice, TypeInv, DirsOK
<1>2. ASSUME NEW i \in Targets, NEW j \in Targets,
             MarkOf(i, o).place = MarkOf(j, o).place \/ MarkOf(i, o).name = MarkOf(j, o).name
      PROVE  i = j
  <2>1. CASE MarkOf(i, o).place = MarkOf(j, o).place
    <3>1. marker_dir(Specs[i], o[i]) = marker_dir(Specs[j], o[j])
      BY <2>1 DEF MarkOf
    <3>2. o[i] \in Paths /\ o[j] \in Paths /\ Nested \notin ToSet(o[i]) /\ Nested \notin ToSet(o[j])
      BY DEF Choice
    <3>3. o[i] = o[j]
      BY <3>1, <3>2, MarkerDirs
    <3> QED BY <3>3 DEF Choice
  <2>2. CASE MarkOf(i, o).name = MarkOf(j, o).name
    <3>1. Specs[i].name = Specs[j].name
      BY <2>2 DEF MarkOf, TargetName
    <3> QED BY <3>1, NamesAssumption DEF NamesAssumption
  <2> QED BY <1>2, <2>1, <2>2
<1>3. ASSUME NEW i \in Targets, NEW d \in ExtensionsOf(o)
      PROVE  MarkOf(i, o).place # ExtensionMark(d).place /\ MarkOf(i, o).name # ExtensionMark(d).name
  <2>1. marker_dir(Specs[i], o[i]) = o[i] \/ Len(marker_dir(Specs[i], o[i])) = 4
    BY MarkerDirs DEF Choice
  <2>2. o[i] # d
    BY <1>1, UnderSelf
  <2>3. MarkOf(i, o).place # ExtensionMark(d).place
    BY <1>1, <2>1, <2>2 DEF MarkOf, ExtensionMark
  <2> QED BY <2>3 DEF MarkOf, ExtensionMark, TargetName, ExtensionName
<1>4. ASSUME NEW d \in ExtensionsOf(o), NEW e \in ExtensionsOf(o),
             ExtensionMark(d).place = ExtensionMark(e).place \/ ExtensionMark(d).name = ExtensionMark(e).name
      PROVE  d = e
  <2>1. CASE ExtensionMark(d).place = ExtensionMark(e).place
    BY <2>1 DEF ExtensionMark
  <2>2. CASE ExtensionMark(d).name = ExtensionMark(e).name
    <3>1. d[2] = e[2]
      BY <2>2 DEF ExtensionMark, ExtensionName
    <3>2. \A k \in 1..2 : d[k] = e[k]
      BY <1>1, <3>1
    <3> QED BY <1>1, <3>2, SeqEqual DEF Paths
  <2> QED BY <1>4, <2>1, <2>2
<1>5. ASSUME NEW i \in Targets, m = MarkOf(i, o)
      PROVE  m = n
  BY <1>2, <1>3, <1>5 DEF MarksOf
<1>6. ASSUME NEW d \in ExtensionsOf(o), m = ExtensionMark(d)
      PROVE  m = n
  BY <1>3, <1>4, <1>6 DEF MarksOf
<1> QED BY <1>5, <1>6 DEF MarksOf

LEMMA TargetsCount == IsFiniteSet(Targets) /\ Cardinality(Targets) = Len(Specs)
<1>1. PICK n \in Nat : n = Len(Specs)
  BY HardenerAssumption DEF HardenerAssumption
<1>2. IsFiniteSet(1..n) /\ Cardinality(1..n) = IF 1 > n THEN 0 ELSE n - 1 + 1
  BY FS_Interval
<1>3. Cardinality(1..n) = n
  BY <1>2
<1> QED BY <1>1, <1>2, <1>3 DEF Targets

\* The register has an entry for each target and for each extension.
LEMMA EntriesCount ==
    ASSUME TypeInv, NEW o, Choice(o)
    PROVE  /\ IsFiniteSet(MarksOf(o)) /\ IsFiniteSet({Entry(mark) : mark \in MarksOf(o)})
           /\ Cardinality({Entry(mark) : mark \in MarksOf(o)}) = Len(Specs) + Cardinality(ExtensionsOf(o))
           /\ IsFiniteSet(ExtensionsOf(o))
<1> DEFINE T == {MarkOf(i, o) : i \in Targets}
           E == {ExtensionMark(d) : d \in ExtensionsOf(o)}
           R == {Entry(mark) : mark \in MarksOf(o)}
           f == [i \in Targets |-> MarkOf(i, o)]
           g == [d \in ExtensionsOf(o) |-> ExtensionMark(d)]
           h == [mark \in MarksOf(o) |-> Entry(mark)]
<1>1. MarksOf(o) = T \cup E
  BY DEF MarksOf
<1>2. \A m, n \in MarksOf(o) : m.place = n.place \/ m.name = n.name => m = n
  BY MarksApart
<1>3. \A i \in Targets, d \in ExtensionsOf(o) : MarkOf(i, o).name # ExtensionMark(d).name
  BY DEF MarkOf, ExtensionMark, TargetName, ExtensionName
<1>4. T \cap E = {}
  BY <1>3
<1>5. IsFiniteSet(Targets) /\ Cardinality(Targets) = Len(Specs)
  BY TargetsCount
<1>6. IsFiniteSet(ExtensionsOf(o))
  <2>1. ExtensionsOf(o) \subseteq dirs
    BY DEF ExtensionsOf, extension_client_dirs, ClientDirs
  <2> QED BY <2>1, FS_Subset DEF TypeInv, DirsOK
<1>7. f \in Bijection(Targets, T)
  <2>1. \A i, j \in Targets : MarkOf(i, o) = MarkOf(j, o) => i = j
    BY DEF MarkOf, Choice
  <2>2. f \in Surjection(Targets, T)
    BY DEF Surjection
  <2>3. f \in Injection(Targets, T)
    BY <2>1 DEF Injection, IsInjective
  <2> QED BY <2>2, <2>3 DEF Bijection
<1>8. g \in Bijection(ExtensionsOf(o), E)
  <2>1. \A d, e \in ExtensionsOf(o) : ExtensionMark(d) = ExtensionMark(e) => d = e
    BY DEF ExtensionMark
  <2>2. g \in Surjection(ExtensionsOf(o), E)
    BY DEF Surjection
  <2>3. g \in Injection(ExtensionsOf(o), E)
    BY <2>1 DEF Injection, IsInjective
  <2> QED BY <2>2, <2>3 DEF Bijection
<1>9. h \in Bijection(MarksOf(o), R)
  <2>1. \A m, n \in MarksOf(o) : Entry(m) = Entry(n) => m = n
    BY <1>2 DEF Entry
  <2>2. h \in Surjection(MarksOf(o), R)
    BY DEF Surjection
  <2>3. h \in Injection(MarksOf(o), R)
    BY <2>1 DEF Injection, IsInjective
  <2> QED BY <2>2, <2>3 DEF Bijection
<1> HIDE DEF T, E, R, f, g, h
<1>10. IsFiniteSet(T) /\ Cardinality(T) = Len(Specs)
  BY <1>5, <1>7, FS_Bijection DEF ExistsBijection
<1>11. IsFiniteSet(E) /\ Cardinality(E) = Cardinality(ExtensionsOf(o))
  BY <1>6, <1>8, FS_Bijection DEF ExistsBijection
<1>12. IsFiniteSet(T \cup E) /\ Cardinality(T \cup E) = Cardinality(T) + Cardinality(E)
  <2>1. Cardinality(T \cap E) = 0
    BY <1>4, FS_EmptySet
  <2>2. Cardinality(T) \in Nat /\ Cardinality(E) \in Nat
    BY <1>10, <1>11, FS_CardinalityType
  <2>3. /\ IsFiniteSet(T \cup E)
        /\ Cardinality(T \cup E) = Cardinality(T) + Cardinality(E) - Cardinality(T \cap E)
    BY <1>10, <1>11, FS_Union
  <2> QED BY <2>1, <2>2, <2>3
<1>13. IsFiniteSet(R) /\ Cardinality(R) = Cardinality(MarksOf(o))
  BY <1>1, <1>9, <1>12, FS_Bijection DEF ExistsBijection
<1> QED BY <1>1, <1>6, <1>10, <1>11, <1>12, <1>13 DEF R

-----------------------------------------------------------------------------
(* What a write left passes verify *)

LEMMA ContractedIsChoice ==
    ASSUME TypeInv, Contracted
    PROVE  Choice(Recorded) /\ \A i \in Targets : Recorded[i] \in dirs
BY DEF Contracted, Derived, Choice, Chosen, TypeInv, DirsOK

LEMMA AllFollow ==
    ASSUME TypeInv, Follows, AllChosen
    PROVE  /\ chosen = Recorded /\ DOMAIN chosen = Targets
           /\ Extensions = ExtensionsOf(Recorded)
           /\ ToMark = MarksOf(Recorded)
           /\ \A i \in Targets : DirOf(i) = Recorded[i]
<1>1. DOMAIN chosen = Targets /\ chosen = [i \in DOMAIN chosen |-> chosen[i]]
  BY HardenerAssumption DEF HardenerAssumption, TypeInv, ChosenOK, AllChosen, Targets
<1>2. chosen = Recorded
  BY <1>1 DEF Follows, Recorded
<1>3. Extensions = ExtensionsOf(Recorded)
  BY <1>2 DEF Extensions, ExtensionsOf
<1>4. {TargetMark(i) : i \in Targets} = {MarkOf(i, Recorded) : i \in Targets}
  BY <1>2 DEF TargetMark, MarkOf, DirOf
<1> QED BY <1>1, <1>2, <1>3, <1>4 DEF ToMark, MarksOf, DirOf

LEMMA MarkedIsRight ==
    ASSUME NEW mark, Marked(mark)
    PROVE  MarkerErrors(mark.name, mark.place) = {}
BY DEF Marked, Marker, MarkerErrors

LEMMA WriteVerifies ==
    ASSUME TypeInv, Contracted, Stays(Recorded), Follows, AllChosen
    PROVE  verify = {}
<1> DEFINE o == Recorded
<1>1. /\ chosen = o /\ Extensions = ExtensionsOf(o) /\ ToMark = MarksOf(o)
      /\ \A i \in Targets : DirOf(i) = o[i]
  BY AllFollow
<1>2. Choice(o) /\ \A i \in Targets : o[i] \in dirs
  BY ContractedIsChoice
<1>3. schema /\ manifest.state = Whole /\ SurfaceReady /\ manifest.interfaces \notin {"none", "unversioned"}
  BY DEF Contracted, Derived, Depends
<1>4. surface \notin {NoSurface, TornSurface} /\ SurfaceErrors = {}
  BY <1>3, ReadyIsPrepared DEF TypeInv, ManifestOK
<1>5. ~Shares(manifest.targets) /\ ~(\E n \in DOMAIN manifest.targets : Escapes(manifest.targets[n]))
  BY DEF Stays, ManifestStays
<1>6. TargetErrors = {}
  <2>1. ASSUME NEW i \in Targets
        PROVE  DirOf(i) \in dirs /\ MarkerErrors(TargetName(i), marker_dir(Specs[i], DirOf(i))) = {}
    <3>1. MarkOf(i, o) \in MarksOf(o)
      BY DEF MarksOf
    <3>2. MarkerErrors(MarkOf(i, o).name, MarkOf(i, o).place) = {}
      BY <3>1, MarkedIsRight DEF Contracted, Derived
    <3> QED BY <1>1, <1>2, <3>2 DEF MarkOf
  <2>2. ASSUME NEW d \in Extensions
        PROVE  MarkerErrors(ExtensionName(d), d) = {}
    <3>1. ExtensionMark(d) \in MarksOf(o)
      BY <1>1 DEF MarksOf
    <3>2. MarkerErrors(ExtensionMark(d).name, ExtensionMark(d).place) = {}
      BY <3>1, MarkedIsRight DEF Contracted, Derived
    <3> QED BY <3>2 DEF ExtensionMark
  <2> QED BY <2>1, <2>2 DEF TargetErrors
<1>7. RegisterErrors = {}
  <2>1. register.state = Whole /\ register.entries = {Entry(mark) : mark \in MarksOf(o)}
    BY DEF Contracted, Derived
  <2>2. Cardinality(register.entries) = Len(Specs) + Cardinality(Extensions)
    BY <1>1, <1>2, <2>1, EntriesCount
  <2>3. \A e \in register.entries : e.evidence = implementation_evidence(e.dir)
    BY <2>1 DEF Entry
  <2>4. ASSUME NEW d \in ClientDirs
        PROVE  \E e \in register.entries : Under(d, e.dir)
    <3>1. CASE d \in Extensions
      <4>1. ExtensionMark(d) \in MarksOf(o) /\ ExtensionMark(d).dir = d
        BY <1>1, <3>1 DEF MarksOf, ExtensionMark
      <4>2. Entry(ExtensionMark(d)) \in register.entries /\ Entry(ExtensionMark(d)).dir = d
        BY <2>1, <4>1 DEF Entry
      <4>3. Under(d, d)
        BY UnderSelf DEF ClientDirs, TypeInv, DirsOK
      <4> QED BY <4>2, <4>3
    <3>2. CASE d \notin Extensions
      <4>1. PICK p \in ToSet(chosen) : Under(d, p)
        BY <3>2 DEF Extensions, extension_client_dirs
      <4>2. PICK i \in Targets : p = o[i]
        BY <1>1, <4>1 DEF ToSet, Recorded
      <4>3. MarkOf(i, o) \in MarksOf(o) /\ MarkOf(i, o).dir = p
        BY <4>2 DEF MarksOf, MarkOf
      <4>4. Entry(MarkOf(i, o)) \in register.entries /\ Entry(MarkOf(i, o)).dir = p
        BY <2>1, <4>3 DEF Entry
      <4> QED BY <4>1, <4>4
    <3> QED BY <3>1, <3>2
  <2> QED BY <2>1, <2>2, <2>3, <2>4 DEF RegisterErrors
<1>8. DOMAIN matrix = {Specs[i].name : i \in Targets}
  BY DEF Contracted, Derived, MatrixOf
<1> QED BY <1>3, <1>4, <1>5, <1>6, <1>7, <1>8 DEF verify

-----------------------------------------------------------------------------
(* A settled repository is left as it is *)

LEMMA MarkingIsWork ==
    ASSUME work # {}
    PROVE  Marking \in work
<1> DEFINE left == {i \in Targets : TargetMark(i) \in work}
<1>1. CASE left # {}
  <2>1. left \subseteq Nat
    BY DEF Targets
  <2>2. Min(left) \in left
    BY <1>1, <2>1, MinIsLeast
  <2> QED BY <1>1, <2>2 DEF Marking
<1>2. CASE left = {}
  BY <1>2 DEF Marking
<1> QED BY <1>1, <1>2

LEMMA ManifestIsKept ==
    ASSUME TypeInv, NEW o, ManifestStays(o), \A i \in Published : chosen[i] = o[i]
    PROVE  Rewritten = manifest
<1>1. CASE Mature
  BY <1>1 DEF Rewritten
<1>2. CASE ~Mature
  <2> DEFINE names == ((DOMAIN manifest.targets \cup {"repository"}) \ Obsolete) \cup {Specs[i].zed : i \in Published}
  <2>1. DOMAIN Migrated = names
    BY DEF Migrated
  <2>2. names = DOMAIN manifest.targets
    <3>1. "repository" \notin Obsolete => "repository" \in DOMAIN manifest.targets
      BY <1>2 DEF ManifestStays
    <3>2. DOMAIN manifest.targets \cap Obsolete = {}
      BY <1>2 DEF ManifestStays
    <3>3. \A i \in Published : Specs[i].zed \in DOMAIN manifest.targets
      BY <1>2 DEF ManifestStays
    <3> QED BY <3>1, <3>2, <3>3
  <2>3. ASSUME NEW n \in DOMAIN manifest.targets
        PROVE  Migrated[n] = manifest.targets[n]
    <3>1. CASE n = "repository" /\ Migrated[n] = <<>>
      BY <1>2, <3>1 DEF ManifestStays
    <3>2. ASSUME NEW i \in Published, n = Specs[i].zed
          PROVE  Migrated[n] = manifest.targets[n]
      BY <1>2, <3>2, MigratedSays DEF ManifestStays
    <3>3. CASE n \in Foreign
      BY <3>3, MigratedSays
    <3> QED BY <2>1, <2>2, <3>1, <3>2, <3>3, MigratedSays
  <2>4. Migrated = manifest.targets
    <3>1. Migrated = [n \in DOMAIN Migrated |-> Migrated[n]]
      BY DEF Migrated
    <3>2. manifest.targets = [n \in DOMAIN manifest.targets |-> manifest.targets[n]]
      BY DEF TypeInv, ManifestOK
    <3> QED BY <2>1, <2>2, <2>3, <3>1, <3>2
  <2>5. manifest.state = Whole
    BY DEF ManifestStays
  <2> QED BY <1>2, <2>4, <2>5 DEF Rewritten, TypeInv, ManifestOK
<1> QED BY <1>1, <1>2

LEMMA SettledKeeps ==
    ASSUME TypeInv, PhaseInv, SettledInv, settled, Run \/ Kill
    PROVE  UNCHANGED repo /\ settled'
<1> DEFINE o == Recorded
<1>1. Contracted /\ Stays(o) /\ plan = <<>> /\ Follows
  BY DEF SettledInv
<1>2. manifest.state = Whole /\ schema /\ SurfaceReady /\ manifest.interfaces \notin {"none", "unversioned"}
  BY <1>1 DEF Contracted, Derived, Depends
<1>3. Prepared = surface /\ surface \notin {NoSurface, TornSurface}
  BY <1>2, ReadyIsPrepared DEF TypeInv, ManifestOK
<1>4. pc \in Writing => /\ chosen = o /\ ToMark = MarksOf(o)
                        /\ \A i \in Targets : DirOf(i) = o[i] /\ o[i] \in dirs
                        /\ Rewritten = manifest
  <2> SUFFICES ASSUME pc \in Writing
               PROVE  /\ chosen = o /\ ToMark = MarksOf(o)
                      /\ \A i \in Targets : DirOf(i) = o[i] /\ o[i] \in dirs
                      /\ Rewritten = manifest
    OBVIOUS
  <2>1. chosen = o /\ ToMark = MarksOf(o) /\ \A i \in Targets : DirOf(i) = o[i]
    BY <1>1, AllFollow DEF TypeInv, ControlOK
  <2>2. Rewritten = manifest
    BY <1>1, <2>1, ManifestIsKept DEF Stays
  <2> QED BY <1>1, <2>1, <2>2, ContractedIsChoice
<1>5. ASSUME NEW m \in {"write", "check"}, NEW g \in BOOLEAN, Start(m, g)
      PROVE  UNCHANGED repo /\ settled'
  BY <1>2, <1>5 DEF Start
<1>6. CASE Choose
  BY <1>6, ChooseAppends
<1>7. CASE StartWriting
  BY <1>7 DEF StartWriting
<1>8. CASE OpenTarget
  <2>1. DirOf(next) \in dirs
    BY <1>4, <1>8 DEF OpenTarget, Writing
  <2>2. dirs' = dirs
    BY <1>8, <2>1 DEF OpenTarget, TypeInv, DirsOK
  <2> QED BY <1>8, <2>2 DEF OpenTarget, Proceed, repo
<1>9. CASE WriteScaffold
  BY <1>1, <1>9 DEF WriteScaffold
<1>10. CASE EnsureManifest
  <2>1. manifest' = manifest /\ Proceed("matrix")
    BY <1>2, <1>4, <1>10 DEF EnsureManifest, Writing, Torn, Whole
  <2> QED BY <1>10, <2>1 DEF EnsureManifest, Proceed, repo
<1>11. CASE EnsureMatrix
  <2>1. matrix' = MatrixOf(o)
    BY <1>4, <1>11 DEF EnsureMatrix, MatrixOf, DirOf, Writing
  <2>2. matrix' = matrix
    BY <1>1, <2>1 DEF Contracted, Derived
  <2> QED BY <1>11, <2>2 DEF EnsureMatrix, Proceed, repo
<1>12. CASE WriteSchema
  <2>1. schema' = schema
    BY <1>2, <1>12 DEF WriteSchema, TypeInv, ControlOK
  <2>2. Proceed("surface")
    BY <1>2, <1>12 DEF WriteSchema
  <2> QED BY <1>12, <2>1, <2>2 DEF WriteSchema, Proceed, repo
<1>13. CASE WriteSurface
  <2>1. SchemaErrors(Prepared) \cup semantic_errors(Prepared) = {} /\ surface # TornSurface
    BY <1>2, <1>3 DEF SurfaceReady
  <2>2. surface' = surface /\ Proceed("fingerprint")
    BY <1>3, <1>13, <2>1 DEF WriteSurface
  <2> QED BY <1>13, <2>2 DEF WriteSurface, Proceed, repo
<1>14. CASE WriteFingerprint
  BY <1>1, <1>14 DEF WriteFingerprint, Contracted, Derived, Proceed, repo
<1>15. ASSUME pc \in {"mark", "seal"}, work # {}
       PROVE  Marked(Marking)
  <2>1. Marking \in work /\ work \subseteq ToMark
    BY <1>15, MarkingIsWork DEF PhaseInv, AfterFingerprint
  <2>2. Marking \in MarksOf(o)
    BY <1>4, <1>15, <2>1 DEF Writing
  <2> QED BY <1>1, <2>2 DEF Contracted, Derived
<1>16. CASE WriteMarker
  <2>1. Marked(Marking)
    BY <1>15, <1>16 DEF WriteMarker
  <2>2. marker' = Put(marker, Marking.place, Marker(Marking))
    BY <1>16 DEF WriteMarker, Marker
  <2>3. marker' = marker
    BY <2>1, <2>2 DEF Put, Marked, TypeInv, MarkersOK
  <2> QED BY <1>16, <2>3 DEF WriteMarker, Proceed, repo
<1>17. CASE WriteSeal
  <2>1. Marked(Marking)
    BY <1>15, <1>17 DEF WriteSeal, PhaseInv
  <2>2. seal' = Put(seal, Marking.place, surface)
    BY <1>17 DEF WriteSeal
  <2>3. seal' = seal
    BY <2>1, <2>2 DEF Put, Marked, TypeInv, MarkersOK
  <2> QED BY <1>17, <2>3 DEF WriteSeal, Proceed, repo
<1>18. CASE WriteRegister
  <2>1. entries = {Entry(mark) : mark \in MarksOf(o)}
    BY <1>4, <1>18 DEF WriteRegister, PhaseInv, AfterFingerprint, Writing
  <2>2. register' = register
    BY <1>1, <1>18, <2>1 DEF WriteRegister, Contracted, Derived
  <2> QED BY <1>18, <2>2 DEF WriteRegister, Proceed, repo
<1>19. CASE Verify
  <2>1. CASE mode = "check"
    BY <1>19, <2>1 DEF Verify, Raise
  <2>2. CASE mode = "write"
    <3>1. verify = {}
      BY <1>1, <1>19, <2>2, WriteVerifies DEF Verify
    <3> QED BY <1>19, <2>2, <3>1 DEF Verify
  <2> QED BY <2>1, <2>2 DEF TypeInv, ControlOK
<1>20. CASE Kill
  <2>1. ~TearFile
    BY <1>1 DEF TearFile
  <2>2. ~TearManifest
    BY <1>4 DEF TearManifest, Writing
  <2>3. ~TearSurface
    BY <1>3 DEF TearSurface
  <2> QED BY <1>20, <2>1, <2>2, <2>3 DEF Kill
<1>21. CASE \E m \in {"write", "check"}, g \in BOOLEAN : Start(m, g)
  BY <1>5, <1>21
<1> QED
  BY <1>6, <1>7, <1>8, <1>9, <1>10, <1>11, <1>12, <1>13, <1>14, <1>16, <1>17, <1>18, <1>19, <1>20, <1>21
     DEF Run, Scaffold, Contract

-----------------------------------------------------------------------------
(* One phase after the other *)

LEMMA MatureIsWhole ==
    ASSUME TypeInv, Mature
    PROVE  manifest.state = Whole
<1> DEFINE kept == {n \in Configured : Safe(manifest.targets[n])}
<1>1. MinimumTargets \in 3..Len(Specs) /\ Len(Specs) \in Nat
  BY NamesAssumption, HardenerAssumption DEF NamesAssumption, HardenerAssumption
<1>2. Cardinality(kept) >= MinimumTargets - 2
  BY DEF Mature
<1>3. kept # {}
  BY <1>1, <1>2, FS_EmptySet
<1>4. DOMAIN manifest.targets # {}
  BY <1>3 DEF Configured
<1>5. manifest.targets # <<>>
  BY <1>4
<1> QED BY <1>5 DEF TypeInv, ManifestOK

LEMMA RecordedIsChosen ==
    ASSUME TypeInv, AllChosen, matrix = MatrixOf(chosen)
    PROVE  /\ Recorded = chosen /\ MatrixOf(Recorded) = matrix
           /\ MarksOf(Recorded) = ToMark /\ Follows
<1>1. DOMAIN chosen = Targets /\ chosen = [i \in Targets |-> chosen[i]]
  BY HardenerAssumption DEF HardenerAssumption, TypeInv, ChosenOK, AllChosen, Targets
<1>2. ASSUME NEW i \in Targets
      PROVE  Recorded[i] = chosen[i]
  <2>1. (CHOOSE j \in Targets : Specs[j].name = Specs[i].name) = i
    <3>1. \A j \in Targets : Specs[j].name = Specs[i].name => j = i
      BY NamesAssumption DEF NamesAssumption
    <3> QED BY <3>1
  <2>2. matrix[Specs[i].name] = chosen[CHOOSE j \in Targets : Specs[j].name = Specs[i].name]
    BY DEF MatrixOf
  <2> QED BY <2>1, <2>2 DEF Recorded
<1>3. Recorded = chosen
  BY <1>1, <1>2 DEF Recorded
<1>4. Follows
  BY <1>3 DEF Follows
<1> QED BY <1>3, <1>4, AllFollow

LEMMA SameToMark ==
    ASSUME UNCHANGED <<dirs, chosen>>
    PROVE  /\ ToMark' = ToMark /\ MatrixOf(chosen)' = MatrixOf(chosen)
           /\ work' = work => Marking' = Marking
<1>1. \A i \in Targets : TargetMark(i)' = TargetMark(i)
  BY DEF TargetMark, TargetName, DirOf, marker_dir
<1>2. Extensions' = Extensions
  BY SameExtensions
<1>3. ToMark' = ToMark
  BY <1>1, <1>2 DEF ToMark, ExtensionMark, ExtensionName
<1>4. ASSUME work' = work
      PROVE  Marking' = Marking
  <2>1. {i \in Targets : TargetMark(i) \in work}' = {i \in Targets : TargetMark(i) \in work}
    BY <1>1, <1>4
  <2>2. Min({i \in Targets : TargetMark(i) \in work})' = Min({i \in Targets : TargetMark(i) \in work})
    BY <2>1, Zenon
  <2>3. TargetMark(Min({i \in Targets : TargetMark(i) \in work}))'
            = TargetMark(Min({i \in Targets : TargetMark(i) \in work}))
    BY <2>2 DEF TargetMark, TargetName, DirOf, marker_dir
  <2> QED BY <1>4, <2>1, <2>3 DEF Marking
<1>5. MatrixOf(chosen)' = MatrixOf(chosen)
  BY DEF MatrixOf
<1> QED BY <1>3, <1>4, <1>5

LEMMA PhaseNext == TypeInv /\ PhaseInv /\ [Next]_vars => PhaseInv'
<1> SUFFICES ASSUME TypeInv, PhaseInv, [Next]_vars PROVE PhaseInv'
  OBVIOUS
<1> USE DEF Later, Writing, AfterMatrix, AfterSchema, AfterSurface, AfterFingerprint
<1>1. CASE pc' \notin Later \cup {"rechoose"}
  BY <1>1 DEF PhaseInv
<1>2. CASE UNCHANGED <<repo, chosen, pc, work, entries>>
  <2>1. /\ UNCHANGED <<dirs, files, manifest, schema, surface>>
        /\ UNCHANGED <<fingerprint, marker, seal, register, matrix>>
        /\ UNCHANGED <<chosen, pc, work, entries>>
    BY <1>2 DEF repo
  <2>2. ToMark' = ToMark /\ MatrixOf(chosen)' = MatrixOf(chosen) /\ Marking' = Marking
    BY <2>1, SameToMark
  <2>3. \A mark : Entry(mark)' = Entry(mark) /\ (Marked(mark) => Marked(mark)') /\ Marker(mark)' = Marker(mark)
    BY <2>1, SameEvidence DEF Entry, Marked, Marker
  <2>4. (SurfaceReady => SurfaceReady') /\ (Contracted => Contracted')
    BY <1>2, <2>1, SameSurface, SameContracted
  <2>5. {Entry(mark) : mark \in ToMark \ work}' = {Entry(mark) : mark \in ToMark \ work}
    BY <2>1, <2>2, <2>3
  <2> QED BY <2>1, <2>2, <2>3, <2>4, <2>5 DEF PhaseInv
<1>3. CASE Choose
  <2>1. pc' = pc /\ UNCHANGED repo /\ pc \in {"choose", "rechoose"}
    BY <1>3, ChooseAppends DEF Choose
  <2> QED BY <2>1, SameContracted DEF PhaseInv
<1>4. CASE EnsureManifest /\ pc' = "matrix"
  <2>1. manifest' = Rewritten
    BY <1>4 DEF EnsureManifest, Raise, Finish
  <2>2. manifest'.state = Whole
    BY <2>1, MatureIsWhole DEF Rewritten, TypeInv, ManifestOK
  <2> QED BY <1>4, <2>2 DEF PhaseInv
<1>5. CASE EnsureMatrix
  <2>1. pc' = "schema" /\ UNCHANGED <<manifest, chosen>> /\ matrix' = MatrixOf(chosen) /\ pc = "matrix"
    BY <1>5 DEF EnsureMatrix, Proceed, memory, MatrixOf, DirOf
  <2>2. MatrixOf(chosen)' = MatrixOf(chosen)
    BY <2>1 DEF MatrixOf
  <2> QED BY <2>1, <2>2 DEF PhaseInv
<1>6. CASE WriteSchema /\ pc' = "surface"
  <2>1. /\ pc = "schema" /\ UNCHANGED <<manifest, chosen, matrix>> /\ schema'
        /\ manifest.interfaces \notin {"none", "unversioned"}
    BY <1>6 DEF WriteSchema, Raise, Finish, Proceed, memory
  <2>2. MatrixOf(chosen)' = MatrixOf(chosen)
    BY <2>1 DEF MatrixOf
  <2> QED BY <1>6, <2>1, <2>2 DEF PhaseInv
<1>7. CASE WriteSurface /\ pc' = "fingerprint"
  <2>1. /\ pc = "surface" /\ UNCHANGED <<manifest, chosen, matrix, schema>> /\ surface' = Prepared
        /\ SchemaErrors(Prepared) \cup semantic_errors(Prepared) = {}
    BY <1>7 DEF WriteSurface, Raise, Finish, Proceed, memory
  <2>2. MatrixOf(chosen)' = MatrixOf(chosen)
    BY <2>1 DEF MatrixOf
  <2>3. Prepared.plain = {} /\ Prepared.interfaces = manifest.interfaces /\ Missing(Prepared) = {}
    BY PreparedIsReady DEF TypeInv, ManifestOK
  <2>4. SurfaceReady'
    BY <2>1, <2>3 DEF SurfaceReady, Missing
  <2> QED BY <1>7, <2>1, <2>2, <2>4 DEF PhaseInv
<1>8. CASE WriteFingerprint
  <2>1. /\ pc = "fingerprint" /\ pc' = "mark" /\ UNCHANGED <<dirs, manifest, chosen, matrix, schema, surface>>
        /\ fingerprint' = surface /\ work' = ToMark /\ entries' = {}
    BY <1>8 DEF WriteFingerprint, Proceed
  <2>2. ToMark' = ToMark /\ MatrixOf(chosen)' = MatrixOf(chosen)
    BY <2>1, SameToMark
  <2>3. SurfaceReady => SurfaceReady'
    BY <2>1, SameSurface
  <2> QED BY <2>1, <2>2, <2>3 DEF PhaseInv
<1>9. ASSUME pc \in {"mark", "seal"}, work # {}
      PROVE  /\ Marking \in work /\ Marking \in ToMark
             /\ \A m \in ToMark \ {Marking} : m.place # Marking.place
  <2>1. Marking \in work /\ Marking \in ToMark
    BY <1>9, MarkingIsWork DEF PhaseInv
  <2>2. ToMark = MarksOf(Recorded) /\ Recorded = chosen
    BY <1>9, RecordedIsChosen DEF PhaseInv, TypeInv, ControlOK
  <2>3. Choice(Recorded)
    BY <1>9, <2>2, HardenerAssumption
       DEF HardenerAssumption, TypeInv, ControlOK, ChosenOK, ChosenApart, Chosen, Choice, AllChosen, Targets
  <2> QED BY <2>1, <2>2, <2>3, MarksApart
<1>10. CASE WriteMarker
  <2>1. /\ pc = "mark" /\ pc' = "seal" /\ work # {} /\ UNCHANGED <<dirs, files, manifest, chosen, matrix, schema>>
        /\ UNCHANGED <<surface, seal, fingerprint, work, entries>>
        /\ marker' = Put(marker, Marking.place, Marker(Marking))
    BY <1>10 DEF WriteMarker, Proceed, memory, Marker
  <2>2. ToMark' = ToMark /\ MatrixOf(chosen)' = MatrixOf(chosen) /\ Marking' = Marking
    BY <2>1, SameToMark
  <2>3. /\ Marking.place \in DOMAIN marker' /\ marker'[Marking.place] = Marker(Marking)
        /\ \A p \in DOMAIN marker \ {Marking.place} : p \in DOMAIN marker' /\ marker'[p] = marker[p]
    BY <2>1, Zenon DEF Put
  <2>4. \A m \in ToMark \ work : Marked(m)'
    BY <1>9, <2>1, <2>3 DEF PhaseInv, Marked, Marker
  <2>5. \A m : Marker(m)' = Marker(m) /\ Entry(m)' = Entry(m)
    BY <2>1, SameEvidence DEF Marker, Entry
  <2>6. {Entry(mark) : mark \in ToMark \ work}' = {Entry(mark) : mark \in ToMark \ work}
    BY <2>1, <2>2, <2>5
  <2>7. SurfaceReady => SurfaceReady'
    BY <2>1, SameSurface
  <2> QED BY <2>1, <2>2, <2>3, <2>4, <2>5, <2>6, <2>7 DEF PhaseInv
<1>11. CASE WriteSeal
  <2>1. /\ pc = "seal" /\ pc' = "mark" /\ UNCHANGED <<dirs, files, manifest, chosen, matrix, schema>>
        /\ UNCHANGED <<surface, marker, fingerprint>>
        /\ work' = work \ {Marking} /\ entries' = entries \cup {Entry(Marking)}
        /\ seal' = Put(seal, Marking.place, surface) /\ work # {}
    BY <1>11 DEF WriteSeal, Proceed, PhaseInv
  <2>2. ToMark' = ToMark /\ MatrixOf(chosen)' = MatrixOf(chosen)
    BY <2>1, SameToMark
  <2>3. /\ Marking.place \in DOMAIN seal' /\ seal'[Marking.place] = surface
        /\ \A p \in DOMAIN seal \ {Marking.place} : p \in DOMAIN seal' /\ seal'[p] = seal[p]
    BY <2>1, Zenon DEF Put
  <2>4. \A m \in ToMark \ work : Marked(m)'
    BY <1>9, <2>1, <2>3 DEF PhaseInv, Marked, Marker
  <2>5. ASSUME NEW mark, mark = Marking
        PROVE  Marked(mark)'
    <3>1. Marking.place \in DOMAIN marker /\ marker[Marking.place] = Marker(Marking)
      BY <2>1 DEF PhaseInv
    <3> QED BY <2>1, <2>3, <2>5, <3>1 DEF Marked, Marker
  <2>6. ToMark \ work' = (ToMark \ work) \cup {Marking}
    BY <1>9, <2>1
  <2>7. \A m \in ToMark \ work' : Marked(m)'
    BY <2>4, <2>5, <2>6
  <2>8. \A m : Entry(m)' = Entry(m)
    BY <2>1, SameEvidence DEF Entry
  <2>9. entries' = {Entry(m) : m \in ToMark \ work'}
    BY <2>1, <2>6 DEF PhaseInv
  <2>10. entries' = {Entry(m) : m \in ToMark \ work}'
    BY <2>2, <2>8, <2>9
  <2>11. SurfaceReady => SurfaceReady'
    BY <2>1, SameSurface
  <2>12. work' \subseteq ToMark'
    BY <2>1, <2>2 DEF PhaseInv
  <2> QED BY <2>1, <2>2, <2>7, <2>10, <2>11, <2>12 DEF PhaseInv
<1>12. CASE WriteRegister
  <2>1. /\ pc = "mark" /\ pc' = "rechoose" /\ work = {} /\ plan = <<>> /\ next = Len(Specs) + 1
        /\ UNCHANGED <<dirs, files, manifest, schema, surface>>
        /\ UNCHANGED <<fingerprint, marker, seal, matrix>>
        /\ register' = [state |-> Whole, digest |-> surface, entries |-> entries]
    BY <1>12 DEF WriteRegister, Proceed, TypeInv, ControlOK
  <2>2. Recorded = chosen /\ MatrixOf(Recorded) = matrix /\ MarksOf(Recorded) = ToMark
    BY <2>1, RecordedIsChosen DEF PhaseInv, TypeInv, ControlOK
  <2>3. Derived
    <3>1. DOMAIN chosen = Targets /\ Targets = 1..(next - 1) /\ chosen = [i \in Targets |-> chosen[i]]
      BY <2>1, HardenerAssumption DEF HardenerAssumption, TypeInv, ControlOK, ChosenOK, AllChosen, Targets
    <3>2. \A i \in Targets : chosen[i] \in dirs /\ Implemented(i, chosen[i])
      BY <2>1, <3>1 DEF TypeInv, DoneOK, DirOf
    <3>3. \A i \in Targets : Chosen(i, chosen[i]) /\ ~Reserved(i, chosen[i])
      BY <3>1 DEF TypeInv, ChosenOK, ChosenApart
    <3>4. \A i, j \in Targets : chosen[i] = chosen[j] => i = j
      BY <3>1 DEF TypeInv, ChosenOK, ChosenApart
    <3>5. chosen \in [Targets -> dirs]
      BY <3>1, <3>2
    <3>6. Depends /\ SurfaceReady /\ fingerprint = surface /\ \A mark \in ToMark : Marked(mark)
      BY <2>1 DEF PhaseInv, Depends
    <3> QED BY <2>2, <3>2, <3>3, <3>4, <3>5, <3>6 DEF Derived
  <2>4. entries = {Entry(mark) : mark \in MarksOf(Recorded)}
    BY <2>1, <2>2 DEF PhaseInv
  <2>5. Derived' /\ {Entry(mark) : mark \in MarksOf(Recorded)}' = entries
    BY <2>1, <2>3, <2>4, SameDerived
  <2>6. Contracted'
    BY <2>1, <2>5 DEF Contracted
  <2> QED BY <2>1, <2>6 DEF PhaseInv
<1>13. CASE UNCHANGED vars
  BY <1>2, <1>13 DEF vars, memory
<1>14. ASSUME NEW m \in {"write", "check"}, NEW g \in BOOLEAN, Start(m, g)
       PROVE  pc' \notin Later \cup {"rechoose"}
  BY <1>14 DEF Start, Raise, Finish
<1>15. CASE StartWriting \/ OpenTarget \/ WriteScaffold \/ Verify \/ Kill
  <2>1. pc' \notin Later \cup {"rechoose"}
    BY <1>15 DEF StartWriting, OpenTarget, WriteScaffold, Verify, Kill, Proceed, Raise, Finish
  <2> QED BY <1>1, <2>1
<1>16. CASE Develop
  <2>1. pc' = "idle"
    BY <1>16 DEF Develop, EditFile, RemoveClient, EditManifest, EditSurface, Edit
  <2> QED BY <1>1, <2>1
<1>17. CASE EnsureManifest \/ WriteSchema \/ WriteSurface
  <2>2. EnsureManifest => pc' \in {"idle", "matrix"}
    BY DEF EnsureManifest, Raise, Finish, Proceed
  <2>3. WriteSchema => pc' \in {"idle", "surface"}
    BY DEF WriteSchema, Raise, Finish, Proceed
  <2>4. WriteSurface => pc' \in {"idle", "fingerprint"}
    BY DEF WriteSurface, Raise, Finish, Proceed
  <2>5. CASE pc' = "idle"
    BY <1>1, <2>5
  <2> QED BY <1>4, <1>6, <1>7, <1>17, <2>2, <2>3, <2>4, <2>5
<1>18. CASE Run
  <2>1. CASE \E m \in {"write", "check"}, g \in BOOLEAN : Start(m, g)
    BY <1>1, <1>14, <2>1
  <2> QED BY <1>3, <1>5, <1>8, <1>10, <1>11, <1>12, <1>15, <1>17, <1>18, <2>1 DEF Run, Scaffold, Contract
<1> QED BY <1>13, <1>15, <1>16, <1>18 DEF Next

-----------------------------------------------------------------------------
(* Settled *)

\* Only verify, at the end of a write, says that a repository is settled.
LEMMA OnlyVerifySettles ==
    ASSUME [Next]_vars, settled', ~settled
    PROVE  Verify /\ mode = "write"
<1>1. ~Raise
  BY Raised
<1>2. CASE UNCHANGED vars
  BY <1>2 DEF vars
<1>3. ASSUME NEW m \in {"write", "check"}, NEW g \in BOOLEAN, Start(m, g)
      PROVE  FALSE
  BY <1>1, <1>3 DEF Start
<1>4. CASE Choose \/ StartWriting
  BY <1>1, <1>4 DEF Choose, StartWriting
<1>5. CASE OpenTarget \/ WriteScaffold \/ EnsureMatrix
  BY <1>5 DEF OpenTarget, WriteScaffold, EnsureMatrix, Proceed
<1>6. CASE EnsureManifest \/ WriteSchema \/ WriteSurface
  BY <1>1, <1>6 DEF EnsureManifest, WriteSchema, WriteSurface, Proceed
<1>7. CASE WriteFingerprint \/ WriteMarker \/ WriteSeal \/ WriteRegister
  BY <1>7 DEF WriteFingerprint, WriteMarker, WriteSeal, WriteRegister, Proceed
<1>8. CASE Kill
  BY <1>8 DEF Kill
<1>9. CASE Develop
  BY <1>9 DEF Develop, EditFile, RemoveClient, EditManifest, EditSurface, Edit
<1>10. CASE Verify
  BY <1>1, <1>10 DEF Verify
<1>11. CASE \E m \in {"write", "check"}, g \in BOOLEAN : Start(m, g)
  BY <1>3, <1>11
<1> QED
  BY <1>2, <1>4, <1>5, <1>6, <1>7, <1>8, <1>9, <1>10, <1>11 DEF Next, Run, Scaffold, Contract

\* Where the repository stays as it is, choosing goes on along the recorded choice.
LEMMA ChooseFollows ==
    ASSUME TypeInv, Follows, Stays(Recorded), Choose
    PROVE  Follows'
<1> DEFINE o == Recorded
<1>1. PICK i \in Targets : i = Len(chosen) + 1
  BY ChooseAppends
<1>2. /\ DOMAIN chosen = 1..Len(chosen) /\ DOMAIN chosen' = 1..i /\ Len(chosen) \in Nat
      /\ \A k \in 1..Len(chosen) : chosen'[k] = chosen[k]
      /\ chosen'[i] = PickFor(i) /\ UNCHANGED repo /\ Len(chosen) < Len(Specs)
  BY <1>1, ChooseAppends DEF Choose, TypeInv, ChosenOK
<1>3. \A j \in 1..Len(chosen) : o[j] = chosen[j]
  BY <1>2 DEF Follows
<1>4. PickFor(i) = PickAfter(i, o)
  BY <1>1, <1>2, <1>3, PickIsAfter
<1>5. o[i] = PickAfter(i, o)
  BY DEF Stays, Chooses, Recorded
<1>6. Recorded' = Recorded
  BY <1>2 DEF repo, Recorded
<1>7. \A k \in DOMAIN chosen' : k = i \/ k \in 1..Len(chosen)
  BY <1>1, <1>2
<1> QED BY <1>2, <1>3, <1>4, <1>5, <1>6, <1>7 DEF Follows

LEMMA SettledNext ==
    TypeInv /\ PhaseInv /\ LastingInv /\ SettledInv /\ [Next]_vars => SettledInv'
<1> SUFFICES ASSUME TypeInv, PhaseInv, LastingInv, SettledInv, [Next]_vars, settled'
             PROVE  Contracted' /\ Stays(Recorded)' /\ plan' = <<>> /\ Follows'
  BY DEF SettledInv
<1>1. CASE ~settled
  <2>1. Verify /\ mode = "write"
    BY <1>1, OnlyVerifySettles
  <2>2. pc = "rechoose" /\ UNCHANGED repo
    BY <2>1 DEF Verify
  <2>3. /\ settled' = (verify = {} /\ (sound \/ settled))
        /\ chosen' = <<>> /\ plan' = <<>>
    <3>1. settled' = (verify = {} /\ (sound \/ settled))
      BY <2>1 DEF Verify
    <3>2. chosen' = <<>> /\ plan' = <<>>
      BY <2>1 DEF Verify, Finish, Raise
    <3> QED BY <3>1, <3>2
  <2>4. sound
    BY <1>1, <2>3
  <2>5. Contracted /\ Stays(Recorded)
    BY <2>2, <2>4 DEF PhaseInv, LastingInv
  <2>6. Contracted' /\ Stays(Recorded)'
    BY <2>2, <2>5, SameContracted, SameStaysRecorded DEF repo
  <2>7. Follows'
    BY <2>3 DEF Follows
  <2> QED BY <2>3, <2>6, <2>7
<1>2. CASE settled
  <2>1. Contracted /\ Stays(Recorded) /\ plan = <<>> /\ Follows
    BY <1>2 DEF SettledInv
  <2>2. ~Develop
    BY DEF Develop, EditFile, RemoveClient, EditManifest, EditSurface, Edit
  <2>3. UNCHANGED repo
    BY <1>2, <2>2, SettledKeeps DEF Next, vars
  <2>4. Contracted' /\ Stays(Recorded)' /\ Recorded' = Recorded
    BY <2>1, <2>3, SameContracted, SameStaysRecorded DEF repo, Recorded
  <2>5. CASE UNCHANGED <<chosen, plan>>
    BY <2>1, <2>4, <2>5 DEF Follows
  <2>6. CASE chosen' = <<>> /\ plan' = <<>>
    BY <2>4, <2>6 DEF Follows
  <2>7. CASE Choose
    BY <2>1, <2>4, <2>7, ChooseFollows, ChooseAppends
  <2>8. CASE OpenTarget
    <3>1. next \in Targets /\ chosen' = chosen
      BY <2>8 DEF OpenTarget
    <3>2. DirOf(next) = Recorded[next]
      BY <2>1, <2>8, <3>1, AllFollow DEF OpenTarget, TypeInv, ControlOK, Writing
    <3>3. Implemented(next, DirOf(next))
      BY <2>1, <3>1, <3>2 DEF Contracted, Derived
    <3>4. plan' = <<>>
      BY <2>8, <3>3 DEF OpenTarget, Implemented, SharesPackage
    <3> QED BY <2>1, <2>4, <3>1, <3>4 DEF Follows
  <2>9. CASE WriteScaffold
    BY <2>1, <2>9 DEF WriteScaffold
  <2>10. CASE WriteRegister
    BY <2>1, <2>6, <2>10 DEF WriteRegister
  <2>11. CASE EnsureManifest /\ pc' = "matrix"
    BY <2>5, <2>11 DEF EnsureManifest, memory, Raise, Finish
  <2> QED
    BY <2>2, <2>4, <2>5, <2>6, <2>7, <2>8, <2>9, <2>10, <2>11, Phases DEF Over, GoesOn, StartWriting, memory
<1> QED BY <1>1, <1>2 DEF TypeInv, ControlOK

-----------------------------------------------------------------------------
(* A sound write lasts *)

\* A target that keeps its home still has it when another directory is made.
LEMMA HomeSurvivesDirectory ==
    ASSUME TypeInv, AllChosen, OpenTarget, NEW i \in Targets, HomeKept(i)
    PROVE  HomeKept(i)'
<1> DEFINE spec == Specs[i]
<1>1. next \in Targets /\ dirs' = dirs \cup Prefixes(DirOf(next)) /\ UNCHANGED <<files, chosen>>
  BY DEF OpenTarget
<1>2. DOMAIN chosen = Targets /\ DirOf(next) = chosen[next] /\ spec.dir \in Paths
  BY SpecTypes, HardenerAssumption DEF HardenerAssumption, TypeInv, ChosenOK, AllChosen, Targets, DirOf
<1>3. CASE chosen[i] = spec.dir
  BY <1>1, <1>3 DEF HomeKept
<1>4. CASE chosen[i] # spec.dir
  <2>1. chosen[i] = undeclared_dir(spec) /\ undeclared_dir(spec) # spec.dir
    BY <1>4 DEF HomeKept
  <2>2. spec.dir \notin dirs
    BY <2>1 DEF undeclared_dir
  <2>3. spec.dir \notin Prefixes(DirOf(next))
    <3>1. CASE chosen[next] \in dirs
      BY <1>2, <2>2, <3>1 DEF TypeInv, DirsOK
    <3>2. CASE chosen[next] = Specs[next].dir
      <4>1. Under(spec.dir, Specs[next].dir) => i = next
        BY <1>1, NamesAssumption DEF NamesAssumption
      <4>2. ~Under(spec.dir, Specs[next].dir)
        BY <1>4, <3>2, <4>1
      <4>3. Specs[next].dir \in Paths
        BY <1>1, SpecTypes
      <4> QED BY <1>2, <3>2, <4>2, <4>3, PrefixesIff
    <3> QED BY <1>1, <1>2, <3>1, <3>2 DEF TypeInv, ChosenOK, Chosen
  <2>4. spec.dir \notin dirs'
    BY <1>1, <2>2, <2>3
  <2>5. InSharedPackage(spec)' <=> InSharedPackage(spec)
    BY <1>1, SameShared
  <2>6. CASE InSharedPackage(spec)
    BY <1>1, <2>1, <2>2, <2>4, <2>5, <2>6 DEF undeclared_dir, HomeKept
  <2>7. CASE ~InSharedPackage(spec)
    <3>1. ExistingAliases(spec) # {} /\ undeclared_dir(spec) = spec.aliases[Min(ExistingAliases(spec))]
      BY <2>1, <2>2, <2>7 DEF undeclared_dir
    <3>2. DOMAIN spec.aliases \subseteq {1}
      BY SpecTypes, NamesAssumption DEF NamesAssumption
    <3>3. ExistingAliases(spec) = {1} /\ ExistingAliases(spec)' = {1}
      BY <1>1, <3>1, <3>2 DEF ExistingAliases
    <3>4. Min(ExistingAliases(spec))' = Min(ExistingAliases(spec))
      BY <3>3, Zenon
    <3>5. undeclared_dir(spec)' = undeclared_dir(spec)
      BY <2>4, <2>5, <2>7, <3>1, <3>3, <3>4 DEF undeclared_dir
    <3> QED BY <1>1, <2>1, <3>5 DEF HomeKept
  <2> QED BY <2>6, <2>7
<1> QED BY <1>3, <1>4

\* No package that is written makes a target part of the shared one.
LEMMA SharedSurvivesFile ==
    ASSUME TypeInv, WriteScaffold, NEW i \in Targets
    PROVE  InSharedPackage(Specs[i])' <=> InSharedPackage(Specs[i])
<1>1. DOMAIN files' = DOMAIN files \cup {PlannedFile} /\ plan # <<>>
  BY ScaffoldPuts
<1>2. /\ next - 1 \in Targets /\ Head(plan) \in ToSet(Specs[next - 1].files)
      /\ ~SharesPackage(next - 1, DirOf(next - 1))
  BY <1>1, PlanHead
<1>3. /\ Head(plan) # Slice(Specs[i].runtime)
      /\ Head(plan).name = "package.json" => Specs[next - 1].runtime # "none"
  BY <1>2, FilesAssumption DEF FilesAssumption
<1>4. PlannedFile[1] = DirOf(next - 1) /\ PlannedFile[2] = Head(plan)
  BY DEF PlannedFile
<1>5. ~(PlannedFile[1] = SharedDir /\ PlannedFile[2].name = "package.json")
  BY <1>2, <1>3, <1>4 DEF SharesPackage
<1>6. ~(PlannedFile[1] = SharedDir /\ PlannedFile[2] = Slice(Specs[i].runtime))
  BY <1>3, <1>4
<1> HIDE DEF PlannedFile
<1>7. (\E path \in DOMAIN files' : path[1] = SharedDir /\ path[2].name = "package.json")
        <=> \E path \in DOMAIN files : path[1] = SharedDir /\ path[2].name = "package.json"
  BY <1>1, <1>5
<1>8. (\E path \in DOMAIN files' : path[1] = SharedDir /\ path[2] = Slice(Specs[i].runtime))
        <=> \E path \in DOMAIN files : path[1] = SharedDir /\ path[2] = Slice(Specs[i].runtime)
  BY <1>1, <1>6
<1> QED BY <1>7, <1>8 DEF InSharedPackage

\* A target with a name in a complete manifest keeps the directory it names.
LEMMA PresentKept ==
    ASSUME UNCHANGED manifest, dirs \subseteq dirs', NEW i \in Targets, Present(i),
           \A n \in ToSet(DeclaredNames(Specs[i])) \cap DOMAIN manifest.targets : manifest.targets[n] \in dirs
    PROVE  choose_dir(Specs[i])' = choose_dir(Specs[i])
<1> DEFINE names == DeclaredNames(Specs[i])
           there == {k \in DOMAIN names : names[k] \in DOMAIN manifest.targets}
<1>1. Declared(Specs[i]) = there /\ Declared(Specs[i])' = there
  BY DEF Declared, ToSet
<1>2. there # {}
  BY DEF Present, ToSet
<1>3. manifest'.targets = manifest.targets
  OBVIOUS
<1> HIDE DEF there
<1> QED BY <1>1, <1>2, <1>3, Zenon DEF choose_dir

LEMMA LastingStep ==
    ASSUME TypeInv, AllChosen, Lasting, UNCHANGED <<manifest, chosen>>, dirs \subseteq dirs',
           \A i \in Targets : HomeKept(i) => HomeKept(i)'
    PROVE  Lasting'
<1>1. Mature' = Mature /\ Foreign' = Foreign
  BY SameManifest
<1>2. CASE Mature
  <2>1. /\ ~Shares(manifest.targets)
        /\ \A i \in Targets : \A n \in ToSet(DeclaredNames(Specs[i])) \cap DOMAIN manifest.targets :
            manifest.targets[n] \in dirs
        /\ \A i \in Targets : IF Present(i) THEN chosen[i] = PickAfter(i, chosen) ELSE HomeKept(i)
    BY <1>2 DEF Lasting
  <2>2. ASSUME NEW i \in Targets
        PROVE  IF Present(i)' THEN chosen'[i] = PickAfter(i, chosen)' ELSE HomeKept(i)'
    <3>1. Present(i)' <=> Present(i)
      BY DEF Present
    <3>2. CASE Present(i)
      <4>1. choose_dir(Specs[i])' = choose_dir(Specs[i])
        BY <2>1, <3>2, PresentKept
      <4>2. PickAfter(i, chosen)' = PickAfter(i, chosen)
        BY <4>1 DEF PickAfter, Reserved
      <4> QED BY <2>1, <3>1, <3>2, <4>2
    <3>3. CASE ~Present(i)
      BY <2>1, <3>1, <3>3
    <3> QED BY <3>2, <3>3
  <2> QED BY <1>1, <1>2, <2>1, <2>2 DEF Lasting
<1>3. CASE ~Mature
  BY <1>1, <1>3 DEF Lasting
<1> QED BY <1>2, <1>3

LEMMA SoundLasts ==
    ASSUME TypeInv, AllChosen, Chooses(chosen), Sound
    PROVE  Lasting
<1>1. DOMAIN chosen = Targets
  BY HardenerAssumption DEF HardenerAssumption, TypeInv, ChosenOK, AllChosen, Targets
<1>2. CASE Mature
  <2>1. ASSUME NEW i \in Targets, ~Present(i)
        PROVE  HomeKept(i)
    <3>1. Declared(Specs[i]) = {}
      BY <2>1 DEF Declared, Present, ToSet
    <3>2. choose_dir(Specs[i]) = undeclared_dir(Specs[i])
      BY <3>1 DEF choose_dir
    <3>3. chosen[i] = PickAfter(i, chosen)
      BY <1>1 DEF Chooses
    <3> QED BY <3>2, <3>3 DEF PickAfter, HomeKept
  <2>2. \A i \in Targets : chosen[i] = PickAfter(i, chosen)
    BY <1>1 DEF Chooses
  <2> QED BY <1>2, <2>1, <2>2 DEF Lasting, Sound
<1>3. CASE ~Mature
  BY <1>3 DEF Lasting, Sound, HomeKept
<1> QED BY <1>2, <1>3

-----------------------------------------------------------------------------
(* What ensure_manifest writes lasts *)

LEMMA HomeIsKept ==
    ASSUME NEW i \in Targets, HomeKept(i), chosen[i] \in dirs
    PROVE  chosen[i] = undeclared_dir(Specs[i])
BY DEF HomeKept, undeclared_dir

LEMMA PickIsKept ==
    ASSUME TypeInv, AllChosen, chosen' = chosen, NEW i \in Targets, choose_dir(Specs[i])' = chosen[i]
    PROVE  PickAfter(i, chosen)' = chosen[i]
<1>1. i \in DOMAIN chosen /\ \A j \in 1..(i - 1) : j \in DOMAIN chosen /\ j # i
  BY HardenerAssumption DEF HardenerAssumption, TypeInv, ChosenOK, AllChosen, Targets
<1>2. ~Escapes(chosen[i]) /\ ~Reserved(i, chosen[i]) /\ \A j \in 1..(i - 1) : chosen[j] # chosen[i]
  BY <1>1 DEF TypeInv, ChosenOK, ChosenApart, Chosen
<1> QED BY <1>2 DEF PickAfter, Reserved

\* The names that ensure_manifest takes out are not in what it writes.
LEMMA MigratedIsClean ==
    ASSUME NEW i \in Targets, NEW n \in ToSet(Specs[i].zedAliases)
    PROVE  n \notin DOMAIN Migrated
<1>1. n \in Obsolete
  BY DEF Obsolete
<1>2. n \notin Foreign
  BY <1>1 DEF Foreign
<1>3. \A j \in Published : n # Specs[j].zed
  BY NamesAssumption DEF NamesAssumption, Published
<1> QED BY <1>1, <1>2, <1>3, MigratedSays

\* A target that is published gets the directory its name in the new manifest has.
LEMMA PublishedFollows ==
    ASSUME NEW i \in Published, Specs[i].zed \in DOMAIN manifest'.targets,
           manifest'.targets[Specs[i].zed] \in dirs'
    PROVE  choose_dir(Specs[i])' = manifest'.targets[Specs[i].zed]
<1> DEFINE names == DeclaredNames(Specs[i])
           declared == Declared(Specs[i])'
<1>1. i \in Targets /\ Specs[i].publish
  BY DEF Published
<1>2. names = <<Specs[i].zed>> \o Specs[i].zedAliases
  BY <1>1 DEF DeclaredNames
<1>3. 1 \in DOMAIN names /\ names[1] = Specs[i].zed /\ DOMAIN names \subseteq Nat \ {0}
  BY <1>1, <1>2, SpecTypes
<1>4. 1 \in declared /\ declared \subseteq Nat \ {0}
  BY <1>3 DEF Declared
<1>5. Min(declared) \in declared /\ Min(declared) <= 1
  BY <1>4, MinIsLeast
<1>6. Min(declared) = 1
  BY <1>4, <1>5
<1> QED BY <1>3, <1>4, <1>6 DEF choose_dir

LEMMA CompleteStays ==
    ASSUME TypeInv, AllChosen, Lasting, Mature, \A i \in Targets : chosen[i] \in dirs,
           UNCHANGED <<dirs, files, manifest, chosen>>
    PROVE  Stays(chosen)'
<1>1. DOMAIN chosen = Targets
  BY HardenerAssumption DEF HardenerAssumption, TypeInv, ChosenOK, AllChosen, Targets
<1>2. ASSUME NEW i \in Targets
      PROVE  PickAfter(i, chosen)' = chosen[i]
  <2>1. CASE Present(i)
    <3>1. chosen[i] = PickAfter(i, chosen)
      BY <2>1 DEF Lasting
    <3>2. choose_dir(Specs[i])' = choose_dir(Specs[i])
      BY SameChoice
    <3> QED BY <3>1, <3>2 DEF PickAfter, Reserved
  <2>2. CASE ~Present(i)
    <3>1. Declared(Specs[i]) = {}
      BY <2>2 DEF Declared, Present, ToSet
    <3>2. choose_dir(Specs[i]) = undeclared_dir(Specs[i])
      BY <3>1 DEF choose_dir
    <3>3. HomeKept(i)
      BY <2>2 DEF Lasting
    <3>4. choose_dir(Specs[i])' = chosen[i]
      BY <3>2, <3>3, HomeIsKept, SameChoice
    <3> QED BY <3>4, PickIsKept
  <2> QED BY <2>1, <2>2
<1>3. Chooses(chosen)'
  BY <1>1, <1>2 DEF Chooses
<1>4. ASSUME NEW n \in DOMAIN manifest.targets
      PROVE  ~Escapes(manifest.targets[n])
  <2>1. CASE n \in Configured
    BY <2>1 DEF Mature, Safe
  <2>2. CASE n \notin Configured
    BY <2>2 DEF Configured, Escapes
  <2> QED BY <2>1, <2>2
<1>5. manifest.state = Whole /\ ~Shares(manifest.targets)
  BY MatureIsWhole DEF Lasting
<1>6. Mature'
  BY SameManifest
<1>7. ManifestStays(chosen)'
  BY <1>4, <1>5, <1>6 DEF ManifestStays
<1> QED BY <1>3, <1>7 DEF Stays

LEMMA MigratedStays ==
    ASSUME TypeInv, AllChosen, Lasting, ~Mature, \A i \in Targets : chosen[i] \in dirs,
           manifest' = Rewritten, UNCHANGED <<dirs, files, chosen>>
    PROVE  Stays(chosen)'
<1>1. DOMAIN chosen = Targets /\ Published \subseteq Targets
  BY HardenerAssumption DEF HardenerAssumption, TypeInv, ChosenOK, AllChosen, Targets, Published
<1>2. manifest'.state = Whole /\ manifest'.targets = Migrated
  BY DEF Rewritten, TypeInv, ManifestOK
<1>3. /\ \A n \in Foreign :
          /\ manifest.targets[n] # <<>> /\ ~Escapes(manifest.targets[n])
          /\ \A m \in Foreign : manifest.targets[m] = manifest.targets[n] => m = n
          /\ \A i \in Published : chosen[i] # manifest.targets[n]
      /\ \A i \in Published : chosen[i] # <<>>
      /\ \A i \in Targets \ Published : HomeKept(i)
  BY DEF Lasting
<1>4. ASSUME NEW i \in Targets
      PROVE  PickAfter(i, chosen)' = chosen[i]
  <2>1. CASE i \in Published
    <3>1. Specs[i].zed \in DOMAIN manifest'.targets /\ manifest'.targets[Specs[i].zed] = chosen[i]
      BY <1>2, <2>1, MigratedSays
    <3>2. choose_dir(Specs[i])' = chosen[i]
      BY <2>1, <3>1, PublishedFollows
    <3> QED BY <3>2, PickIsKept
  <2>2. CASE i \notin Published
    <3>1. DeclaredNames(Specs[i]) = Specs[i].zedAliases
      <4>1. ~Specs[i].publish
        BY <2>2 DEF Published
      <4> QED BY <4>1, SpecTypes DEF DeclaredNames
    <3>2. \A k \in DOMAIN Specs[i].zedAliases : Specs[i].zedAliases[k] \notin DOMAIN Migrated
      BY MigratedIsClean DEF ToSet
    <3>3. Declared(Specs[i])' = {}
      BY <1>2, <3>1, <3>2 DEF Declared
    <3>4. choose_dir(Specs[i])' = undeclared_dir(Specs[i])'
      BY <3>3 DEF choose_dir
    <3>5. undeclared_dir(Specs[i])' = undeclared_dir(Specs[i])
      BY SameShared, SameUndeclared
    <3>6. chosen[i] = undeclared_dir(Specs[i])
      BY <1>3, <2>2, HomeIsKept
    <3>7. choose_dir(Specs[i])' = chosen[i]
      BY <3>4, <3>5, <3>6
    <3> QED BY <3>7, PickIsKept
  <2> QED BY <2>1, <2>2
<1>5. Chooses(chosen)'
  BY <1>1, <1>4 DEF Chooses
<1>6. ASSUME NEW n \in DOMAIN Migrated
      PROVE  \/ n = "repository" /\ n \notin Obsolete /\ Migrated[n] = <<>>
             \/ \E i \in Published : n = Specs[i].zed /\ Migrated[n] = chosen[i] /\ chosen[i] # <<>>
             \/ n \in Foreign /\ Migrated[n] = manifest.targets[n] /\ Migrated[n] # <<>>
  BY <1>3, MigratedSays
<1>7. \A n \in DOMAIN Migrated : ~Escapes(Migrated[n])
  <2>1. \A i \in Published : ~Escapes(chosen[i])
    BY <1>1 DEF TypeInv, ChosenOK, Chosen
  <2>2. ~Escapes(<<>>)
    BY DEF Escapes
  <2> QED BY <1>3, <1>6, <2>1, <2>2
<1>8. \A i, j \in Published : chosen[i] = chosen[j] => i = j
  BY <1>1 DEF TypeInv, ChosenOK, ChosenApart
<1>9. ASSUME NEW m \in DOMAIN Migrated, NEW n \in DOMAIN Migrated, Migrated[m] = Migrated[n]
      PROVE  m = n
  <2>1. CASE m \in Foreign /\ Migrated[m] = manifest.targets[m] /\ Migrated[m] # <<>>
    BY <1>3, <1>6, <1>9, <2>1
  <2>2. CASE n \in Foreign /\ Migrated[n] = manifest.targets[n] /\ Migrated[n] # <<>>
    BY <1>3, <1>6, <1>9, <2>2
  <2> QED BY <1>6, <1>8, <1>9, <2>1, <2>2
<1>10. ~Shares(Migrated)
  BY <1>9 DEF Shares
<1>11. DOMAIN Migrated \cap Obsolete' = {}
  <2> SUFFICES ASSUME NEW n \in DOMAIN Migrated, n \in Obsolete'
               PROVE  FALSE
    OBVIOUS
  <2>1. \A i \in Targets : n \notin ToSet(Specs[i].zedAliases)
    BY MigratedIsClean
  <2>2. n = "contract" /\ n \notin Configured'
    BY <2>1 DEF Obsolete
  <2>3. Migrated[n] = <<>>
    BY <1>2, <2>2 DEF Configured
  <2>4. n # "repository"
    BY <2>2
  <2> QED BY <1>6, <2>3, <2>4
<1>12. "repository" \notin Obsolete' => "repository" \in DOMAIN Migrated /\ Migrated["repository"] = <<>>
  <2>1. "repository" \notin Obsolete' => "repository" \notin Obsolete
    BY DEF Obsolete
  <2> QED BY <2>1, MigratedSays
<1>13. \A i \in Published : Specs[i].zed \in DOMAIN Migrated /\ Migrated[Specs[i].zed] = chosen[i]
  BY MigratedSays
<1> HIDE DEF Migrated
<1>14. ManifestStays(chosen)'
  BY <1>2, <1>7, <1>10, <1>11, <1>12, <1>13 DEF ManifestStays
<1> QED BY <1>5, <1>14 DEF Stays

LEMMA LastingStays ==
    ASSUME TypeInv, AllChosen, Lasting, EnsureManifest, pc' = "matrix"
    PROVE  Stays(chosen)'
<1>1. /\ manifest' = Rewritten /\ UNCHANGED <<dirs, files, chosen>>
      /\ pc = "scaffold" /\ plan = <<>> /\ next > Len(Specs)
  BY DEF EnsureManifest, memory, Raise, Finish
<1>2. next = Len(Specs) + 1
  BY <1>1, HardenerAssumption DEF HardenerAssumption, TypeInv, ControlOK
<1>3. \A i \in Targets : chosen[i] \in dirs
  BY <1>1, <1>2, HardenerAssumption DEF HardenerAssumption, TypeInv, DoneOK, Writing, DirOf, Targets
<1>4. CASE Mature
  BY <1>1, <1>3, <1>4, CompleteStays DEF Rewritten
<1> QED BY <1>1, <1>3, <1>4, MigratedStays

LEMMA SameHome ==
    ASSUME UNCHANGED <<dirs, files, manifest, chosen>>
    PROVE  \A i \in Targets : HomeKept(i) => HomeKept(i)'
BY SameChoice DEF HomeKept

LEMMA LastingNext == TypeInv /\ ChoiceInv /\ PhaseInv /\ LastingInv /\ [Next]_vars => LastingInv'
<1> SUFFICES ASSUME TypeInv, ChoiceInv, PhaseInv, LastingInv, [Next]_vars
             PROVE  LastingInv'
  OBVIOUS
<1>1. DOMAIN chosen \subseteq Targets
  BY HardenerAssumption DEF HardenerAssumption, TypeInv, ChosenOK, Targets
<1>2. CASE pc' \notin Writing \cup {"rechoose"}
  BY <1>2 DEF LastingInv, Writing, Later
<1>3. CASE Over \/ Develop \/ pc' = "choose"
  <2>1. pc' \in {"idle", "choose"}
    BY <1>3 DEF Over, Develop, EditFile, RemoveClient, EditManifest, EditSurface, Edit, TypeInv, ControlOK
  <2> QED BY <1>2, <2>1 DEF Writing
<1>4. CASE UNCHANGED <<repo, mode, pc, chosen, next, plan, settled, sound>>
  <2>0. UNCHANGED <<dirs, files, manifest, matrix, chosen>> /\ pc' = pc /\ sound' = sound
    BY <1>4 DEF repo
  <2>1. CASE sound /\ pc = "scaffold"
    <3>1. Lasting /\ AllChosen
      BY <2>1 DEF LastingInv, TypeInv, ControlOK, Writing
    <3>2. Lasting'
      BY <2>0, <3>1, SameHome, LastingStep
    <3> QED BY <2>0, <2>1, <3>2 DEF LastingInv, Later, Writing
  <2>2. CASE sound /\ pc \in Later
    <3>1. Stays(chosen)'
      BY <1>1, <2>0, <2>2, SameStaysChosen DEF LastingInv
    <3> QED BY <2>0, <2>2, <3>1 DEF LastingInv, Later, Writing
  <2>3. CASE sound /\ pc = "rechoose"
    <3>1. Stays(Recorded)' /\ Follows'
      BY <2>0, <2>3, SameStaysRecorded DEF LastingInv, Follows, Recorded
    <3> QED BY <2>0, <2>3, <3>1 DEF LastingInv, Later, Writing
  <2> QED BY <2>0, <2>1, <2>2, <2>3 DEF LastingInv
<1>5. CASE Choose
  <2>1. UNCHANGED <<dirs, files, manifest, matrix, pc, sound>>
    BY <1>5, ChooseAppends DEF repo
  <2>2. pc \in {"choose", "rechoose"}
    BY <1>5 DEF Choose
  <2>3. CASE sound /\ pc = "rechoose"
    <3>1. Stays(Recorded)' /\ Follows'
      BY <1>5, <2>1, <2>3, SameStaysRecorded, ChooseFollows DEF LastingInv
    <3> QED BY <2>1, <2>3, <3>1 DEF LastingInv, Later, Writing
  <2> QED BY <2>1, <2>2, <2>3 DEF LastingInv, Later, Writing
<1>6. CASE StartWriting
  <2>1. /\ UNCHANGED <<dirs, files, manifest, chosen>> /\ AllChosen /\ sound' = Sound
        /\ pc = "choose" /\ pc' = "scaffold"
    BY <1>6 DEF StartWriting, repo, memory
  <2>2. ASSUME sound'
        PROVE  Lasting'
    <3>1. Lasting
      BY <2>1, <2>2, SoundLasts DEF ChoiceInv
    <3> QED BY <2>1, <3>1, SameHome, LastingStep
  <2> QED BY <2>1, <2>2 DEF LastingInv, Later, Writing
<1>7. CASE OpenTarget \/ WriteScaffold
  <2>1. /\ pc = "scaffold" /\ pc' = "scaffold" /\ UNCHANGED <<manifest, chosen, sound>>
        /\ dirs \subseteq dirs'
    BY <1>7 DEF OpenTarget, WriteScaffold, Proceed
  <2>2. AllChosen
    BY <2>1 DEF TypeInv, ControlOK, Writing
  <2>3. \A i \in Targets : HomeKept(i) => HomeKept(i)'
    <3>1. CASE OpenTarget
      BY <2>2, <3>1, HomeSurvivesDirectory
    <3>2. CASE WriteScaffold
      <4>1. dirs' = dirs /\ chosen' = chosen
        BY <3>2 DEF WriteScaffold
      <4>2. \A i \in Targets : undeclared_dir(Specs[i])' = undeclared_dir(Specs[i])
        BY <3>2, <4>1, SharedSurvivesFile, SameUndeclared
      <4> QED BY <4>1, <4>2 DEF HomeKept
    <3> QED BY <1>7, <3>1, <3>2
  <2>4. sound => Lasting'
    BY <2>1, <2>2, <2>3, LastingStep DEF LastingInv
  <2> QED BY <2>1, <2>4 DEF LastingInv, Later, Writing
<1>8. CASE EnsureManifest /\ pc' = "matrix"
  <2>1. AllChosen /\ pc = "scaffold" /\ sound' = sound
    BY <1>8 DEF EnsureManifest, Proceed, TypeInv, ControlOK, Writing, Raise, Finish
  <2>2. sound => Stays(chosen)'
    BY <1>8, <2>1, LastingStays DEF LastingInv
  <2> QED BY <1>8, <2>1, <2>2 DEF LastingInv, Later, Writing
<1>9. CASE GoesOn
  <2>1. pc \in Later /\ pc' \in Later /\ UNCHANGED <<dirs, files, chosen, sound>>
    BY <1>9 DEF GoesOn
  <2>2. manifest' = manifest
    <3>1. ~EnsureManifest /\ ~EditManifest /\ ~Kill
      BY <2>1 DEF EnsureManifest, EditManifest, Edit, Kill, Finish, Later, Writing
    <3> QED BY <3>1, Steps
  <2>3. sound => Stays(chosen)'
    BY <1>1, <2>1, <2>2, SameStaysChosen DEF LastingInv
  <2> QED BY <2>1, <2>3 DEF LastingInv, Later, Writing
<1>10. CASE WriteRegister
  <2>1. /\ pc = "mark" /\ pc' = "rechoose" /\ chosen' = <<>> /\ sound' = sound
        /\ UNCHANGED <<dirs, files, manifest, matrix>>
    BY <1>10 DEF WriteRegister, Proceed
  <2>2. Recorded = chosen
    BY <2>1, RecordedIsChosen DEF PhaseInv, TypeInv, ControlOK, AfterMatrix, Later, Writing
  <2>3. sound => Stays(Recorded)'
    BY <2>1, <2>2, SameStaysRecorded DEF LastingInv, Later, Writing
  <2>4. Follows'
    BY <2>1 DEF Follows
  <2> QED BY <2>1, <2>3, <2>4 DEF LastingInv, Later, Writing
<1> QED BY <1>3, <1>4, <1>5, <1>6, <1>7, <1>8, <1>9, <1>10, Phases

-----------------------------------------------------------------------------
(* The inductive invariant *)

HardenerInv == TypeInv /\ ChoiceInv /\ LastingInv /\ PhaseInv /\ SettledInv

LEMMA HardenerInvHolds == Spec => []HardenerInv
<1>1. Init => HardenerInv
  <2> SUFFICES ASSUME Init PROVE HardenerInv
    OBVIOUS
  <2>1. pc = "idle" /\ settled = FALSE
    BY DEF Init
  <2> QED
    BY <2>1, TypeInit DEF HardenerInv, ChoiceInv, LastingInv, PhaseInv, SettledInv, Later, Writing, AfterMatrix,
       AfterSchema, AfterSurface, AfterFingerprint
<1>2. HardenerInv /\ [Next]_vars => HardenerInv'
  BY TypeNext, ChoiceNext, LastingNext, PhaseNext, SettledNext DEF HardenerInv
<1> QED BY <1>1, <1>2, PTL DEF Spec

\* What a write leaves passes verify, which chooses the directories again, unless
\* it found in .zpkg.toml what ensure_manifest does not put right.
THEOREM WritesEndVerified == Spec => WriteEndsVerified
<1>1. HardenerInv => (Verify /\ mode = "write" /\ sound => report' = {})
  <2> SUFFICES ASSUME HardenerInv, Verify, mode = "write", sound
               PROVE  report' = {}
    OBVIOUS
  <2>1. pc = "rechoose" /\ AllChosen
    BY DEF Verify
  <2>2. Contracted /\ Stays(Recorded) /\ Follows
    BY <2>1 DEF HardenerInv, PhaseInv, LastingInv
  <2>3. verify = {}
    BY <2>1, <2>2, WriteVerifies DEF HardenerInv
  <2> QED BY <2>3 DEF Verify, Finish
<1>2. HardenerInv => [Verify /\ mode = "write" /\ sound => report' = {}]_vars
  BY <1>1
<1> QED BY <1>2, HardenerInvHolds, PTL DEF WriteEndsVerified

\* After a sound write that ended well no run, killed or not, changes a file.
THEOREM RunsAreIdempotent == Spec => SettledStays
<1>1. HardenerInv /\ (Run \/ Kill) /\ settled => UNCHANGED repo /\ settled'
  BY SettledKeeps DEF HardenerInv
<1>2. HardenerInv /\ [Next]_vars => [settled /\ ~(UNCHANGED repo /\ settled') => Develop]_vars
  BY <1>1 DEF Next
<1> QED BY <1>2, HardenerInvHolds, PTL DEF Spec, SettledStays

-----------------------------------------------------------------------------
(* CI accepts what a sound write left *)

LEMMA RegisterCovers ==
    ASSUME TypeInv, Contracted, NEW d \in ClientDirs
    PROVE  \E e \in register.entries : Under(d, e.dir)
<1> DEFINE o == Recorded
<1>1. register.entries = {Entry(mark) : mark \in MarksOf(o)}
  BY DEF Contracted
<1>2. CASE d \in ExtensionsOf(o)
  <2>1. ExtensionMark(d) \in MarksOf(o) /\ ExtensionMark(d).dir = d
    BY <1>2 DEF MarksOf, ExtensionMark
  <2>2. Entry(ExtensionMark(d)) \in register.entries /\ Entry(ExtensionMark(d)).dir = d
    BY <1>1, <2>1 DEF Entry
  <2>3. Under(d, d)
    BY UnderSelf DEF ClientDirs, TypeInv, DirsOK
  <2> QED BY <2>2, <2>3
<1>3. CASE d \notin ExtensionsOf(o)
  <2>1. PICK p \in ToSet(o) : Under(d, p)
    BY <1>3 DEF ExtensionsOf, extension_client_dirs
  <2>2. PICK i \in Targets : p = o[i]
    BY <2>1 DEF ToSet, Recorded
  <2>3. MarkOf(i, o) \in MarksOf(o) /\ MarkOf(i, o).dir = p
    BY <2>2 DEF MarksOf, MarkOf
  <2>4. Entry(MarkOf(i, o)) \in register.entries /\ Entry(MarkOf(i, o)).dir = p
    BY <1>1, <2>3 DEF Entry
  <2> QED BY <2>1, <2>4
<1> QED BY <1>2, <1>3

\* Every entry of the register is of a target or of an extension.
LEMMA EntriesAre ==
    ASSUME TypeInv, Contracted, NEW e \in register.entries
    PROVE  \/ \E i \in Targets : e = Entry(MarkOf(i, Recorded)) /\ MarkOf(i, Recorded) \in MarksOf(Recorded)
           \/ \E d \in ExtensionsOf(Recorded) :
                e = Entry(ExtensionMark(d)) /\ ExtensionMark(d) \in MarksOf(Recorded)
<1>1. PICK mark \in MarksOf(Recorded) : e = Entry(mark)
  BY DEF Contracted
<1> QED BY <1>1 DEF MarksOf

\* The verifier finds the markers where the hardener has put them.
LEMMA RootIsPlace ==
    ASSUME TypeInv, Contracted, Placed, NEW i \in Targets
    PROVE  marker_root(Recorded[i], RuntimeOf(TargetName(i))) = marker_dir(Specs[i], Recorded[i])
<1> DEFINE d == Recorded[i]
           e == Entry(MarkOf(i, Recorded))
<1>1. MarkOf(i, Recorded) \in MarksOf(Recorded) /\ e \in register.entries
  BY DEF MarksOf, Contracted
<1>2. e.target = TargetName(i) /\ e.dir = d
  BY DEF Entry, MarkOf
<1>3. marker_dir(Specs[i], d) \in DOMAIN marker
  BY <1>1 DEF Contracted, Derived, Marked, MarkOf
<1>4. CASE marker_dir(Specs[i], d) = d
  BY <1>3, <1>4 DEF marker_root
<1>5. CASE marker_dir(Specs[i], d) # d
  <2>1. d \notin DOMAIN marker
    BY <1>1, <1>2, <1>5 DEF Placed
  <2>2. Specs[i].runtime # "none" /\ marker_dir(Specs[i], d) = d \o <<Nested, Specs[i].runtime>>
    BY <1>5 DEF marker_dir
  <2>3. RuntimeOf(TargetName(i)) = Specs[i].runtime
    BY <2>2 DEF RuntimeOf, TargetName
  <2> QED BY <1>3, <2>1, <2>2, <2>3 DEF marker_root
<1> QED BY <1>4, <1>5

LEMMA VerifierAccepts ==
    ASSUME TypeInv, Contracted, Placed, NamesApart
    PROVE  verify_client_contract
<1> DEFINE o == Recorded
<1>1. Choice(o) /\ \A i \in Targets : o[i] \in dirs
  BY ContractedIsChoice
<1>2. SurfaceVerified
  <2>1. schema /\ SurfaceReady /\ manifest.state = Whole /\ manifest.interfaces \notin {"none", "unversioned"}
    BY DEF Contracted, Derived, Depends
  <2>2. surface \notin {NoSurface, TornSurface}
    BY <2>1, ReadyIsPrepared DEF TypeInv, ManifestOK
  <2>3. register.state = Whole /\ register.digest = surface /\ fingerprint = surface
    BY DEF Contracted, Derived
  <2>4. SchemaErrors(surface) = {} /\ manifest.interfaces = surface.interfaces
    BY <2>1 DEF SurfaceReady
  <2> QED BY <2>1, <2>2, <2>3, <2>4 DEF SurfaceVerified
<1>3. Cardinality(register.entries) >= MinimumTargets
  <2>1. register.entries = {Entry(mark) : mark \in MarksOf(o)}
    BY DEF Contracted
  <2>2. /\ Cardinality(register.entries) = Len(Specs) + Cardinality(ExtensionsOf(o))
        /\ Cardinality(ExtensionsOf(o)) \in Nat
    BY <1>1, <2>1, EntriesCount, FS_CardinalityType
  <2>3. MinimumTargets \in 3..Len(Specs) /\ Len(Specs) \in Nat
    BY NamesAssumption, HardenerAssumption DEF NamesAssumption, HardenerAssumption
  <2> QED BY <2>2, <2>3
<1>4. ASSUME NEW e \in register.entries, NEW f \in register.entries, contract_target(e) = contract_target(f)
      PROVE  e = f
  <2>1. e.target[1] = f.target[1] /\ e.target[2] = f.target[2]
    BY <1>4 DEF contract_target
  <2>2. ASSUME NEW i \in Targets
        PROVE  /\ Entry(MarkOf(i, o)).target[1] = "standard"
               /\ Entry(MarkOf(i, o)).target[2] = Specs[i].name
    BY DEF Entry, MarkOf, TargetName
  <2>3. ASSUME NEW d \in ExtensionsOf(o)
        PROVE  /\ Entry(ExtensionMark(d)).target[1] = "extension"
               /\ Entry(ExtensionMark(d)).target[2] = kebab(Entry(ExtensionMark(d)).dir[2])
    BY DEF Entry, ExtensionMark, ExtensionName
  <2>4. \/ \E i \in Targets : e = Entry(MarkOf(i, o))
        \/ \E d \in ExtensionsOf(o) : e = Entry(ExtensionMark(d))
    BY EntriesAre
  <2>5. \/ \E i \in Targets : f = Entry(MarkOf(i, o))
        \/ \E d \in ExtensionsOf(o) : f = Entry(ExtensionMark(d))
    BY EntriesAre
  <2>6. CASE e.target[1] = "standard"
    <3>1. PICK i \in Targets : e = Entry(MarkOf(i, o))
      BY <2>3, <2>4, <2>6
    <3>2. PICK j \in Targets : f = Entry(MarkOf(j, o))
      BY <2>1, <2>3, <2>5, <2>6
    <3>3. Specs[i].name = Specs[j].name
      BY <2>1, <2>2, <3>1, <3>2
    <3> QED BY <3>1, <3>2, <3>3, NamesAssumption DEF NamesAssumption
  <2>7. CASE e.target[1] = "extension"
    <3>1. e.target[2] = kebab(e.dir[2])
      BY <2>2, <2>3, <2>4, <2>7
    <3>2. f.target[2] = kebab(f.dir[2])
      BY <2>1, <2>2, <2>3, <2>5, <2>7
    <3> QED BY <2>1, <2>7, <3>1, <3>2 DEF NamesApart
  <2> QED BY <2>2, <2>3, <2>4, <2>6, <2>7
<1>5. ASSUME NEW e \in register.entries
      PROVE  EntryVerified(e)
  <2>1. Under(<<"clients">>, e.dir)
    BY DEF Placed
  <2>2. CASE \E i \in Targets : e = Entry(MarkOf(i, o)) /\ MarkOf(i, o) \in MarksOf(o)
    <3>1. PICK i \in Targets : e = Entry(MarkOf(i, o)) /\ MarkOf(i, o) \in MarksOf(o)
      BY <2>2
    <3>2. e.target = TargetName(i) /\ e.dir = o[i] /\ e.evidence = implementation_evidence(e.dir)
      BY <3>1 DEF Entry, MarkOf
    <3>3. e.target[1] = "standard"
      BY <3>2 DEF TargetName
    <3>4. e.evidence # {}
      BY <3>3 DEF Placed
    <3>5. MarkerErrors(e.target, marker_dir(Specs[i], o[i])) = {}
      <4>1. MarkerErrors(MarkOf(i, o).name, MarkOf(i, o).place) = {}
        BY <3>1, MarkedIsRight DEF Contracted, Derived
      <4> QED BY <3>2, <4>1 DEF MarkOf
    <3>6. marker_root(e.dir, RuntimeOf(e.target)) = marker_dir(Specs[i], o[i])
      BY <3>2, RootIsPlace
    <3> QED BY <1>1, <2>1, <3>2, <3>4, <3>5, <3>6 DEF EntryVerified
  <2>3. CASE \E d \in ExtensionsOf(o) : e = Entry(ExtensionMark(d)) /\ ExtensionMark(d) \in MarksOf(o)
    <3>1. PICK d \in ExtensionsOf(o) : e = Entry(ExtensionMark(d)) /\ ExtensionMark(d) \in MarksOf(o)
      BY <2>3
    <3>2. e.target = ExtensionName(d) /\ e.dir = d /\ e.evidence = implementation_evidence(e.dir)
      BY <3>1 DEF Entry, ExtensionMark
    <3>3. e.target[1] = "extension" /\ d \in dirs
      BY <3>2 DEF ExtensionName, ExtensionsOf, extension_client_dirs, ClientDirs
    <3>4. d \in DOMAIN marker
      BY <3>1 DEF Contracted, Derived, Marked, ExtensionMark
    <3>5. marker_root(e.dir, RuntimeOf(e.target)) = d
      BY <3>2, <3>4 DEF marker_root
    <3>6. MarkerErrors(e.target, d) = {}
      <4>1. MarkerErrors(ExtensionMark(d).name, ExtensionMark(d).place) = {}
        BY <3>1, MarkedIsRight DEF Contracted, Derived
      <4> QED BY <3>2, <4>1 DEF ExtensionMark
    <3> QED BY <2>1, <3>2, <3>3, <3>5, <3>6 DEF EntryVerified
  <2> QED BY <2>2, <2>3, EntriesAre
<1> QED BY <1>2, <1>3, <1>4, <1>5, RegisterCovers DEF verify_client_contract

LEMMA Canary == CanaryRejected
<1> DEFINE canary == Symbol("privateCanary", "opaque", "private", {})
           leak == Member("signature", "public", {"privateCanary"}, FALSE)
           public == Symbol("publicCanary", "function", "public", {leak})
           symbols == private_leak_canary(SymbolsOf(surface))
<1>1. canary \in symbols /\ public \in symbols
  BY DEF private_leak_canary
<1>2. canary.visibility = "private" /\ canary.name = "privateCanary"
  BY DEF Symbol
<1>3. "privateCanary" \in private_symbol_names(symbols)
  BY <1>1, <1>2 DEF private_symbol_names, Names
<1>4. public.visibility = "public" /\ public.members = {leak} /\ public.name = "publicCanary"
  BY DEF Symbol
<1>5. leak.visibility = "public" /\ leak.refs = {"privateCanary"}
  BY DEF Member
<1>6. leak \in public_fragments(public)
  BY <1>4, <1>5 DEF public_fragments
<1>7. "privateCanary" \in named_refs(public_fragments(public))
  BY <1>5, <1>6 DEF named_refs
<1> HIDE DEF symbols, public
<1>8. boundary_errors(symbols) # {}
  BY <1>1, <1>3, <1>7 DEF boundary_errors
<1> QED BY <1>8 DEF CanaryRejected, symbols

\* The names that the standard symbols name in public are not private.
Open == {"Options", "Client", "Error"}

LEMMA StandardIsOpen ==
    ASSUME NEW key \in Standard
    PROVE  LET s == Enriched(Written(key))
           IN /\ s.visibility = "public" =>
                    \A m \in s.members : m.visibility = "public" => m.refs \subseteq Open
              /\ s.visibility = "private" => s.name \notin Open
              /\ s.visibility = Written(key).visibility
<1>1. \E name, kind, visibility, members :
            /\ baseline_symbols[key] = Symbol(name, kind, visibility, members)
            /\ visibility = "private" => name \notin Open
            /\ \A m \in members :
                /\ \E role, v, refs, async : m = Member(role, v, refs, async)
                /\ visibility = "public" /\ m.visibility = "public" => m.refs \subseteq Open
  <2>1. Standard = {"Options", "RequestContext", "Transport", "TelemetrySink", "Error", "Client",
                    "RequestBuilder", "createClient", "normalizeBaseUrl"}
    BY DEF Standard, baseline_symbols
  <2>2. CASE key = "Options"
    <3>1. baseline_symbols[key] = Symbol("Options", "type", "public", {Member("field", "public", {}, FALSE)})
      BY <2>2 DEF baseline_symbols
    <3> QED BY <3>1 DEF Member, Open
  <2>3. CASE key = "RequestContext"
    <3>1. baseline_symbols[key]
            = Symbol("RequestContext", "type", "private", {Member("field", "private", {}, FALSE)})
      BY <2>3 DEF baseline_symbols
    <3> QED BY <3>1 DEF Member, Open
  <2>4. CASE key = "Transport"
    <3>1. baseline_symbols[key]
            = Symbol("Transport", "interface", "public", {Member("method", "public", {"Error"}, TRUE)})
      BY <2>4 DEF baseline_symbols
    <3> QED BY <3>1 DEF Member, Open
  <2>5. CASE key = "TelemetrySink"
    <3>1. baseline_symbols[key]
            = Symbol("TelemetrySink", "interface", "private", {Member("method", "private", {}, FALSE)})
      BY <2>5 DEF baseline_symbols
    <3> QED BY <3>1 DEF Member, Open
  <2>6. CASE key = "Error"
    <3>1. baseline_symbols[key] = Symbol("Error", "type", "public", {Member("definition", "public", {}, FALSE)})
      BY <2>6 DEF baseline_symbols
    <3> QED BY <3>1 DEF Member, Open
  <2>7. CASE key = "Client"
    <3> DEFINE members == {Member("field", "private", {"Options"}, FALSE),
                           Member("constructor", "public", {"Options", "Client", "Error"}, FALSE),
                           Member("method", "public", {"Error"}, TRUE),
                           Member("method", "private", {"RequestContext", "Error"}, TRUE)}
    <3>1. baseline_symbols[key] = Symbol("Client", "class", "public", members)
      BY <2>7 DEF baseline_symbols
    <3>2. \A m \in members :
            /\ \E role, v, refs, async : m = Member(role, v, refs, async)
            /\ m.visibility = "public" => m.refs \subseteq Open
      BY DEF Member, Open
    <3> HIDE DEF members
    <3> QED BY <3>1, <3>2
  <2>8. CASE key = "RequestBuilder"
    <3>1. baseline_symbols[key]
            = Symbol("RequestBuilder", "class", "private",
                     {Member("constructor", "private", {"RequestBuilder"}, FALSE),
                      Member("method", "private", {}, FALSE)})
      BY <2>8 DEF baseline_symbols
    <3> QED BY <3>1 DEF Member, Open
  <2>9. CASE key = "createClient"
    <3>1. baseline_symbols[key]
            = Symbol("createClient", "function", "public",
                     {Member("signature", "public", {"Options", "Client", "Error"}, FALSE)})
      BY <2>9 DEF baseline_symbols
    <3> QED BY <3>1 DEF Member, Open
  <2>10. CASE key = "normalizeBaseUrl"
    <3>1. baseline_symbols[key]
            = Symbol("normalizeBaseUrl", "function", "private",
                     {Member("signature", "private", {"Error"}, FALSE)})
      BY <2>10 DEF baseline_symbols
    <3> QED BY <3>1 DEF Member, Open
  <2> QED BY <2>1, <2>2, <2>3, <2>4, <2>5, <2>6, <2>7, <2>8, <2>9, <2>10
<1>2. PICK name, kind, visibility, members :
            /\ Written(key) = Symbol(name, kind, visibility, members)
            /\ visibility = "private" => name \notin Open
            /\ \A m \in members :
                /\ \E role, v, refs, async : m = Member(role, v, refs, async)
                /\ visibility = "public" /\ m.visibility = "public" => m.refs \subseteq Open
  BY <1>1 DEF Written
<1>3. /\ Enriched(Written(key)).visibility = visibility /\ Enriched(Written(key)).name = name
      /\ Enriched(Written(key)).members = {IF m.role \in Callables /\ m.behavior = "unset"
                     THEN [m EXCEPT !.behavior = IF m.async THEN "async" ELSE "sync"]
                     ELSE m : m \in members}
      /\ Written(key).visibility = visibility
  BY <1>2 DEF Symbol, Enriched
<1>4. ASSUME NEW m \in members, NEW behavior
      PROVE  [m EXCEPT !.behavior = behavior].visibility = m.visibility
             /\ [m EXCEPT !.behavior = behavior].refs = m.refs
  BY <1>2 DEF Member
<1>5. ASSUME NEW n \in Enriched(Written(key)).members
      PROVE  \E m \in members : n.visibility = m.visibility /\ n.refs = m.refs
  <2>1. PICK m \in members :
            n = IF m.role \in Callables /\ m.behavior = "unset"
                THEN [m EXCEPT !.behavior = IF m.async THEN "async" ELSE "sync"]
                ELSE m
    BY <1>3
  <2>2. \E b : n = [m EXCEPT !.behavior = b] \/ n = m
    BY <2>1, Zenon
  <2>3. n.visibility = m.visibility /\ n.refs = m.refs
    BY <1>4, <2>2, Zenon
  <2> QED BY <2>3
<1> QED BY <1>2, <1>3, <1>5

\* Unless developers broke the boundary, no public symbol names a private one.
LEMMA Sealed ==
    ASSUME surface \in Surfaces, SurfaceReady, Leaks = {}
    PROVE  BoundaryKept
<1> DEFINE S == SymbolsOf(surface)
<1>1. S = {Enriched(Written(key)) : key \in surface.symbols} /\ surface.symbols \subseteq Known
  BY DEF SurfaceReady, SymbolsOf, Surfaces
<1>2. S # {}
  <2>1. "Client" \in Standard
    BY DEF Standard, baseline_symbols
  <2>2. baseline_symbols["Client"].name \in Names(S)
    BY <2>1 DEF SurfaceReady, Missing
  <2> QED BY <2>2 DEF Names
<1>3. ASSUME NEW s \in S, NEW r \in named_refs(public_fragments(s)), r \in private_symbol_names(S),
             s.name \in boundary_errors(S)
      PROVE  FALSE
  <2>1. PICK key \in surface.symbols : s = Enriched(Written(key))
    BY <1>1
  <2>2. key \in Standard
    <3>1. Written(key).name = s.name
      BY <1>1, <2>1, EnrichedKeepsName
    <3> QED BY <1>3, <3>1 DEF Leaks
  <2>3. PICK m \in s.members : m.visibility = "public" /\ r \in m.refs /\ s.visibility = "public"
    BY DEF named_refs, public_fragments
  <2>4. r \in Open
    BY <2>1, <2>2, <2>3, StandardIsOpen
  <2>5. PICK t \in S : t.visibility = "private" /\ t.name = r
    BY <1>3 DEF private_symbol_names, Names
  <2>6. PICK other \in surface.symbols : t = Enriched(Written(other))
    BY <1>1, <2>5
  <2>7. other \notin Standard
    BY <2>4, <2>5, <2>6, StandardIsOpen
  <2>8. Written(other).name = r
    BY <1>1, <2>5, <2>6, EnrichedKeepsName
  <2>9. \E k \in Standard : Written(k).name = r
    <3>1. {"Options", "Client", "Error"} \subseteq Standard
      BY DEF Standard, baseline_symbols
    <3>2. \A k \in Open : Written(k).name = k
      BY <3>1 DEF Open, Written, baseline_symbols, Symbol
    <3> QED BY <2>4, <3>1, <3>2 DEF Open
  <2> QED BY <2>7, <2>8, <2>9 DEF Leaks
<1>4. boundary_errors(S) = {}
  <2> SUFFICES ASSUME NEW x \in boundary_errors(S) PROVE FALSE
    OBVIOUS
  <2>1. PICK s \in S : s.name = x /\ named_refs(public_fragments(s)) \cap private_symbol_names(S) # {}
    BY <1>2 DEF boundary_errors
  <2> QED BY <1>3, <2>1
<1> QED BY <1>4 DEF BoundaryKept

\* Where every target is at home there are as many names below clients/ as CI asks
\* for, and the core targets are among them.
LEMMA Fleet ==
    ASSUME TypeInv, Contracted, AtHome
    PROVE  FleetKept
<1> DEFINE o == Recorded
           names == client_directory_names
           homes == {Specs[i].dir[2] : i \in Targets}
           used == {o[i][2] : i \in Targets}
           home == [n \in used |-> Specs[CHOOSE i \in Targets : o[i][2] = n].dir[2]]
<1>1. \A i \in Targets : o[i] \in dirs /\ o[i] \in Paths
  BY ContractedIsChoice DEF Choice
<1>2. ASSUME NEW i \in Targets
      PROVE  o[i] \in Places(i)
  <2>1. Entry(MarkOf(i, o)) \in register.entries
    BY DEF Contracted, MarksOf
  <2>2. Entry(MarkOf(i, o)).target = TargetName(i) /\ Entry(MarkOf(i, o)).dir = o[i]
    BY DEF Entry, MarkOf
  <2> QED BY <2>1, <2>2 DEF AtHome
<1>3. ASSUME NEW i \in Targets
      PROVE  o[i][2] \in names
  <2> DEFINE top == SubSeq(o[i], 1, 2)
  <2>1. o[i] \in Seq(STRING) /\ Len(o[i]) >= 2 /\ o[i][1] = "clients"
    BY <1>1, <1>2, PlacesAssumption DEF PlacesAssumption, Paths
  <2>2. top \in Prefixes(o[i])
    BY <2>1 DEF Prefixes
  <2>3. top \in dirs
    BY <1>1, <2>2 DEF TypeInv, DirsOK
  <2>4. Len(top) = 2 /\ top[1] = "clients" /\ top[2] = o[i][2]
    BY <2>1
  <2> HIDE DEF top
  <2> QED BY <2>3, <2>4 DEF client_directory_names, ClientDirs
<1>4. IsFiniteSet(names)
  <2> DEFINE second == [d \in ClientDirs |-> d[2]]
  <2>1. IsFiniteSet(ClientDirs)
    BY FS_Subset DEF ClientDirs, TypeInv, DirsOK
  <2>2. second \in Surjection(ClientDirs, names)
    BY DEF Surjection, client_directory_names
  <2> QED BY <2>1, <2>2, FS_Surjection
<1>5. used \subseteq names
  BY <1>3
<1>6. IsFiniteSet(used) /\ Cardinality(used) <= Cardinality(names)
  BY <1>4, <1>5, FS_Subset
<1>7. ASSUME NEW i \in Targets
      PROVE  home[o[i][2]] = Specs[i].dir[2]
  <2> DEFINE j == CHOOSE j \in Targets : o[j][2] = o[i][2]
  <2>1. j \in Targets /\ o[j][2] = o[i][2]
    OBVIOUS
  <2>2. home[o[i][2]] = Specs[j].dir[2]
    OBVIOUS
  <2> HIDE DEF j
  <2>3. Specs[j].dir[2] = Specs[i].dir[2]
    BY <1>2, <2>1, PlacesAssumption DEF PlacesAssumption
  <2> QED BY <2>2, <2>3
<1>8. home \in Surjection(used, homes)
  <2>1. home = [n \in used |-> home[n]]
    OBVIOUS
  <2> HIDE DEF home
  <2>2. \A n \in used : home[n] \in homes
    BY <1>7
  <2>3. \A n \in homes : \E m \in used : home[m] = n
    BY <1>7
  <2> HIDE DEF used, homes
  <2>4. home \in [used -> homes]
    BY <2>1, <2>2
  <2> QED BY <2>3, <2>4 DEF Surjection
<1>9. IsFiniteSet(homes) /\ Cardinality(homes) <= Cardinality(used)
  BY <1>6, <1>8, FS_Surjection
<1>10. Cardinality(names) >= MinimumTargets
  <2>1. Cardinality(homes) >= MinimumTargets
    BY PlacesAssumption DEF PlacesAssumption
  <2>2. Cardinality(homes) \in Nat /\ Cardinality(used) \in Nat /\ Cardinality(names) \in Nat
    BY <1>4, <1>6, <1>9, FS_CardinalityType
  <2>3. MinimumTargets \in Int
    BY NamesAssumption, HardenerAssumption DEF NamesAssumption, HardenerAssumption
  <2> HIDE DEF homes, used, names
  <2> QED BY <1>6, <1>9, <2>1, <2>2, <2>3
<1>11. missing_core_targets(names) = {}
  <2> SUFFICES ASSUME NEW core \in DOMAIN CORE_CLIENT_ALIASES
               PROVE  CORE_CLIENT_ALIASES[core] \cap names # {}
    BY DEF missing_core_targets
  <2>1. PICK i \in Targets : {a[2] : a \in Places(i)} \subseteq CORE_CLIENT_ALIASES[core]
    BY PlacesAssumption DEF PlacesAssumption
  <2> QED BY <1>2, <1>3, <2>1
<1> QED BY <1>10, <1>11 DEF FleetKept

\* CI accepts what a sound write left, wherevernobody has put a target, a marker or
\* code where TARGETS and the evidence do not know it, no two clients of other languages
\* have one name but for its kebab form, and nobody broke the boundary.
THEOREM CIAcceptsSoundWrites == Spec => []CIAccepts
<1>1. HardenerInv => CIAccepts
  <2> SUFFICES ASSUME HardenerInv, settled
               PROVE  /\ Placed /\ NamesApart => verify_client_contract
                      /\ AtHome => FleetKept
                      /\ Leaks = {} => BoundaryKept
                      /\ CanaryRejected
    BY DEF CIAccepts
  <2>1. TypeInv /\ Contracted
    BY DEF HardenerInv, SettledInv
  <2>2. surface \in Surfaces /\ SurfaceReady
    BY <2>1 DEF TypeInv, Contracted, Derived
  <2> QED BY <2>1, <2>2, VerifierAccepts, Fleet, Sealed, Canary
<1> QED BY <1>1, HardenerInvHolds, PTL
=============================================================================
