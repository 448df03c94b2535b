------------------------------ MODULE Versions ------------------------------
(***************************************************************************)
(* The versions devices report, how they compare, and what is decided by   *)
(* comparing them.  The order is partial: two prereleases of one version   *)
(* do not compare, and a prerelease is above the version it belongs to.    *)
(***************************************************************************)
EXTENDS Integers

CONSTANT U32Max         \* the largest number of 32 bits
ASSUME U32MaxAssumption == U32Max \in Nat

\* What the regular expression captures of a version; patch and prerelease are
\* optional.  A prerelease is only ever there or not there.
Absent == -1
Captures == [major : Nat, minor : Nat, patch : Nat \union {Absent}, pre : BOOLEAN]
Version == [major : Nat, minor : Nat, patch : Nat, pre : BOOLEAN]
Release(a, b, c) == [major |-> a, minor |-> b, patch |-> c, pre |-> FALSE]
NoVersion == [major |-> Absent, minor |-> Absent, patch |-> Absent, pre |-> FALSE]

\* Each number must fit into 32 bits; NoVersion is the error UnsupportedVersion.
ParseVersion(c) ==
    IF c.major <= U32Max /\ c.minor <= U32Max /\ c.patch <= U32Max
    THEN [c EXCEPT !.patch = IF @ = Absent THEN 0 ELSE @]
    ELSE NoVersion

-----------------------------------------------------------------------------
Compare(m, n) == CASE m < n -> "Less" [] m = n -> "Equal" [] m > n -> "Greater"

\* Mutant of PartialCmp: all are compared, the most significant last.
PartialCmpBackwards(v, w) ==
    CASE v.patch # w.patch -> Compare(v.patch, w.patch)
      [] v.patch = w.patch /\ v.minor # w.minor -> Compare(v.minor, w.minor)
      [] v.patch = w.patch /\ v.minor = w.minor -> Compare(v.major, w.major)

PartialCmp(v, w) ==
    CASE v.major # w.major -> Compare(v.major, w.major)
      [] v.major = w.major /\ v.minor # w.minor -> Compare(v.minor, w.minor)
      [] v.major = w.major /\ v.minor = w.minor /\ v.patch # w.patch ->
            Compare(v.patch, w.patch)
      [] v.major = w.major /\ v.minor = w.minor /\ v.patch = w.patch ->
            CASE v.pre /\ w.pre -> "None"
              [] v.pre /\ ~w.pre -> "Greater"
              [] ~v.pre /\ w.pre -> "Less"
              [] ~v.pre /\ ~w.pre -> "Equal"

\* The operators < and >= of a PartialOrd.
Below(v, w) == PartialCmp(v, w) = "Less"
AtLeast(v, w) == PartialCmp(v, w) \in {"Greater", "Equal"}

-----------------------------------------------------------------------------
Kinds == {"BitBox02", "Coldcard", "Specter", "SpecterSimulator", "Ledger",
          "LedgerSimulator", "Jade"}

\* The Ledger app must be 2.1 or later, or the device is Unsupported.
LedgerVersionSupported(v) == v.major >= 2 /\ (v.major = 2 => v.minor >= 1)

\* DEVICES_COMPATIBLE_WITH_TAPMINISCRIPT: the kinds, and the least versions of some.
CompatibleKinds == {"Ledger", "Specter", "SpecterSimulator", "Coldcard", "BitBox02"}
MinimalVersion(kind) ==
    CASE kind = "Ledger" -> Release(2, 2, 0)
      [] kind = "Coldcard" -> Release(6, 3, 3)
      [] kind = "BitBox02" -> Release(9, 21, 0)
      [] OTHER -> NoVersion

\* is_compatible_with_tapminiscript
IsCompatible(kind, v) ==
    /\ kind \in CompatibleKinds
    /\ MinimalVersion(kind) # NoVersion => v # NoVersion /\ AtLeast(v, MinimalVersion(kind))

-----------------------------------------------------------------------------
\* The releases in their order, by their numbers alone.
Later(v, w) ==
    \/ v.major < w.major
    \/ v.major = w.major /\ v.minor < w.minor
    \/ v.major = w.major /\ v.minor = w.minor /\ v.patch < w.patch
=============================================================================
