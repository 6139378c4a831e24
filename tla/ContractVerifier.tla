---------------------------- MODULE ContractVerifier --------------------------
(***************************************************************************)
(* The checks that CI runs on what scripts/harden_client_contract.py left: *)
(* verify_client_contract.py and the tests of client_contract_boundary.py. *)
(* They read the same files with code of their own.                        *)
(***************************************************************************)
EXTENDS ContractHardener

-----------------------------------------------------------------------------
(* verify_client_contract.py *)

RuntimeOf(target) == target[3]

\* The "target" of an entry, which does not say the runtime.
contract_target(e) == <<e.target[1], e.target[2]>>

\* Where the marker is: in the directory itself, or else in its nested contracts.
marker_root(d, runtime) ==
    LET nested == d \o <<Nested, runtime>>
    IN IF d \notin DOMAIN marker /\ nested \in DOMAIN marker THEN nested ELSE d

\* The surface is valid, and everything that was derived from it is up to date.
SurfaceVerified ==
    /\ schema /\ surface \notin {NoSurface, TornSurface} /\ register.state = Whole
    /\ SchemaErrors(surface) = {}
    /\ fingerprint = surface
    /\ register.digest = surface
    /\ manifest.state = Whole /\ manifest.interfaces = surface.interfaces
    /\ manifest.interfaces \notin {"none", "unversioned"}

EntryVerified(e) ==
    /\ Under(<<"clients">>, e.dir) /\ e.dir \in dirs
    /\ e.target[1] = "extension" \/ implementation_evidence(e.dir) # {}
    /\ e.evidence = implementation_evidence(e.dir)
    /\ MarkerErrors(e.target, marker_root(e.dir, RuntimeOf(e.target))) = {}

verify_client_contract ==
    /\ SurfaceVerified
    /\ Cardinality(register.entries) >= MinimumTargets
    /\ \A e, f \in register.entries : contract_target(e) = contract_target(f) => e = f
    /\ \A e \in register.entries : EntryVerified(e)
    /\ \A d \in ClientDirs : \E e \in register.entries : Under(d, e.dir)

-----------------------------------------------------------------------------
(* tests/test_client_contract_boundary.py *)

client_directory_names == {d[2] : d \in ClientDirs}

BoundaryKept == boundary_errors(SymbolsOf(surface)) = {}
CanaryRejected == boundary_errors(private_leak_canary(SymbolsOf(surface))) # {}
FleetKept ==
    /\ Cardinality(client_directory_names) >= MinimumTargets
    /\ missing_core_targets(client_directory_names) = {}

-----------------------------------------------------------------------------
(* The two implementations agree *)

\* The places TARGETS knows for a target.
Places(i) == {Specs[i].dir} \cup ToSet(Specs[i].aliases)

\* What is true of TARGETS: enough names below clients/, of which no two targets
\* have one unless they share it everywhere, and among them those CI asks for.
ASSUME PlacesAssumption ==
    /\ Cardinality({Specs[i].dir[2] : i \in Targets}) >= MinimumTargets
    /\ \A i \in Targets : \A a \in Places(i) : Len(a) >= 2 /\ a[1] = "clients"
    /\ \A i, j \in Targets : \A a \in Places(i), b \in Places(j) :
            a[2] = b[2] => Specs[i].dir[2] = Specs[j].dir[2]
    /\ \A core \in DOMAIN CORE_CLIENT_ALIASES : \E i \in Targets :
            {a[2] : a \in Places(i)} \subseteq CORE_CLIENT_ALIASES[core]

\* Nobody has put a target outside of clients/, or code where the evidence does not
\* look; and no marker is left in a shared package from a time before it was shared:
\* marker_root would take it for the marker of each runtime in there.
Placed ==
    \A e \in register.entries :
        /\ Under(<<"clients">>, e.dir)
        /\ e.target[1] = "standard" => e.evidence # {}
        /\ \A i \in Targets :
            e.target = TargetName(i) /\ marker_dir(Specs[i], e.dir) # e.dir => e.dir \notin DOMAIN marker

\* No two clients of other languages have one name but for its kebab form.
NamesApart ==
    \A e, f \in register.entries :
        /\ e.target[1] = "extension" /\ f.target[1] = "extension"
        /\ kebab(e.dir[2]) = kebab(f.dir[2])
        => e = f

\* Nobody has put a target where TARGETS does not know it.
AtHome == \A e \in register.entries, i \in Targets : e.target = TargetName(i) => e.dir \in Places(i)

\* The symbols of developers that name a private symbol in public, or are a
\* private symbol with the name of a standard one.
Leaks ==
    {key \in surface.symbols \ Standard :
        \/ Written(key).name \in boundary_errors(SymbolsOf(surface))
        \/ \E other \in Standard : Written(key).name = Written(other).name}

\* After a write that ended well CI accepts the repository, though its verifier
\* looks for the markers, the evidence and the interfaces by itself, reads two
\* files that the hardener's own verify does not, and wants every target to be
\* called something else, which the hardener does not look at.  The boundary between public
\* and private holds unless developers broke it, and the tests would see that.
CIAccepts ==
    settled /\ pc = "idle" =>
        /\ Placed /\ NamesApart => verify_client_contract
        /\ AtHome => FleetKept
        /\ Leaks = {} => BoundaryKept
        /\ CanaryRejected

\* "duplicate contract target": what the verifier calls an error is not what a
\* write that ended well leaves behind: no two entries of the register have one
\* target.
ContractTargetsAreUnique ==
    settled /\ pc = "idle" =>
        \A e, f \in register.entries : contract_target(e) = contract_target(f) => e = f
=============================================================================
