----------------------------- MODULE RuntimeGuard -----------------------------
(***************************************************************************)
(* What must be true before a job on POWER runs anything: the package that *)
(* was uploaded is the one that was recorded (backend/runtime_package.py   *)
(* and runtime_package_guard.py), and the scientific packages are those of *)
(* the preparation (backend/runtime_environment.py).                       *)
(*                                                                         *)
(* A directory is a function from file names to entries; a manifest, from  *)
(* file names to digests.                                                  *)
(***************************************************************************)
EXTENDS Naturals

CONSTANTS
    Modules,        \* the files of the package
    Packages,       \* PARITY_CRITICAL_PACKAGES
    Absent

-----------------------------------------------------------------------------
(* The package.                                                            *)

Sha(bytes) == <<"sha256", bytes>>

Entry(kind, bytes) == [kind |-> kind, bytes |-> bytes]

runtime_package_manifest_for_sources(sources) == [f \in DOMAIN sources |-> Sha(sources[f])]

\* The bytes as they are, without newline translation.
Uploaded(sources) == [f \in DOMAIN sources |-> Entry("file", sources[f])]

bmd_runtime_package_problems(package, manifest) ==
    {f \in DOMAIN manifest \cup DOMAIN package :
        \/ f \notin DOMAIN package \/ f \notin DOMAIN manifest
        \/ package[f].kind # "file" \/ Sha(package[f].bytes) # manifest[f]}

\* The finder knows the names of the manifest, no others.
Finds(manifest, f) == f \in DOMAIN manifest

\* (Faulty: the bytes are not hashed again.)
LoadsUnchecked(package, manifest, f) == Finds(manifest, f) /\ f \in DOMAIN package

\* A module is compiled from bytes that are hashed again.
Loads(package, manifest, f) ==
    Finds(manifest, f) /\ f \in DOMAIN package /\ Sha(package[f].bytes) = manifest[f]

-----------------------------------------------------------------------------
(* The scientific packages.  A stack is the versions, and whether the      *)
(* settings of atomate2 change the inputs.                                 *)

POLICY_VERSION == 1

Stack(packages, updates) == [packages |-> packages, updates |-> updates]

prepared_runtime_parity(stack) == [policy |-> POLICY_VERSION, packages |-> stack.packages]

prepared_parity_problems(prepared) ==
    IF prepared = Absent THEN {"runtime_parity"}
    ELSE {p \in {"policy_version"} : prepared.policy # POLICY_VERSION}
         \cup {p \in Packages : prepared.packages[p] = Absent}

\* (Faulty: a package that is not installed is no problem.)
parity_problems_if_installed(prepared, actual) ==
    IF prepared_parity_problems(prepared) # {} THEN prepared_parity_problems(prepared)
    ELSE {p \in Packages : actual[p] \notin {Absent, prepared.packages[p]}}

runtime_parity_problems(prepared, actual) ==
    IF prepared_parity_problems(prepared) # {} THEN prepared_parity_problems(prepared)
    ELSE {p \in Packages : actual[p] # prepared.packages[p]}

atomate2_settings_problems(stack) == {s \in {"VASP_INCAR_UPDATES"} : stack.updates}

\* The record of a run, which is written whatever the outcome.
runtime_environment_record(run, prepared, stack) ==
    LET problems == runtime_parity_problems(prepared, stack.packages) \cup atomate2_settings_problems(stack)
    IN  [run      |-> run,
         status   |-> IF problems = {} THEN "passed" ELSE "failed",
         packages |-> stack.packages,
         updates  |-> stack.updates]

=============================================================================
