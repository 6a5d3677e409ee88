----------------------------- MODULE Hydration ------------------------------
(***************************************************************************)
(* What `trustfall scan` relies on in steps 1 and 2 (cli.py): discovery    *)
(* gives a list of groups, each with at least one artifact and none with a *)
(* digest; hashing then settles the artifacts one by one, in order, and    *)
(* neither adds nor drops one.  Discovery may end in an exception, hashing *)
(* may not: an artifact that cannot be read keeps the empty digest.        *)
(* Scan's actions Discover, DiscoverFails and HashArtifact take this for   *)
(* granted; FileScan implements it.                                        *)
(***************************************************************************)
EXTENDS Naturals, Sequences

CONSTANT NoDigest      \* the empty sha256

VARIABLES
  stage,     \* "discover", "hash", "hashed" or "raised"
  digests,   \* for each group the digests of its artifacts
  at         \* <<g, i>>: artifact i of group g is the next to hash

hydration == <<stage, digests, at>>

Unhashed(groups) ==
  \A g \in DOMAIN groups :
    /\ groups[g] # <<>>
    /\ \A i \in DOMAIN groups[g] : groups[g][i] = NoDigest

\* The place after <<g, i>>.
After(groups, g, i) == IF i < Len(groups[g]) THEN <<g, i + 1>> ELSE <<g + 1, 1>>

Init == stage = "discover" /\ digests = <<>> /\ at = <<1, 1>>

Discover ==
  /\ stage = "discover"
  /\ Unhashed(digests')
  /\ stage' = IF digests' = <<>> THEN "hashed" ELSE "hash"
  /\ UNCHANGED at

DiscoverFails ==
  /\ stage = "discover"
  /\ stage' = "raised"
  /\ UNCHANGED <<digests, at>>

HashArtifact ==
  /\ stage = "hash"
  /\ DOMAIN digests' = DOMAIN digests
  /\ \A g \in DOMAIN digests :
       /\ DOMAIN digests'[g] = DOMAIN digests[g]
       /\ \A i \in DOMAIN digests[g] :
            <<g, i>> # at => digests'[g][i] = digests[g][i]
  /\ at' = After(digests, at[1], at[2])
  /\ stage' = IF at'[1] > Len(digests) THEN "hashed" ELSE "hash"

Next == Discover \/ DiscoverFails \/ HashArtifact

Spec == Init /\ [][Next]_hydration

=============================================================================
