------------------------------- MODULE MCScan -------------------------------
(***************************************************************************)
(* Scan on a small registry: two models, two digests, at most two groups.  *)
(* The snapshots share a digest between two models, drop records, carry an *)
(* unsigned entry, fail to verify, and fail to parse.                      *)
(***************************************************************************)
EXTENDS Scan

CONSTANTS d1, d2, m1, m2, s1, s2

MCDigests == {d1, d2}
MCModels == {m1, m2}

WholeM1 == [model |-> m1, hashes |-> {d1, d2}]
PartM1  == [model |-> m1, hashes |-> {d2}]
PartM2  == [model |-> m2, hashes |-> {d1}]
NoName  == [model |-> NoModel, hashes |-> {d1}]
NoList  == [model |-> m1, hashes |-> {}]
MCClaims == {WholeM1, PartM1, PartM2, NoName}

Entry(claims, signed, unsigned) ==
  [wellFormed |-> TRUE, signed |-> signed, claims |-> claims,
   unsigned |-> unsigned]

Doc(models, digest, signature) ==
  [parse |-> "json", manifest |-> TRUE, signature |-> signature,
   digest |-> digest, models |-> models]

Garbled == [parse |-> "not_utf8", manifest |-> FALSE, signature |-> "missing",
            digest |-> NoDigest, models |-> <<>>]

MCSnapshotFiles ==
  {NoFile,
   Doc(<<Entry(WholeM1, TRUE, {})>>, s1, "good"),
   Doc(<<Entry(WholeM1, TRUE, {}), Entry(PartM2, TRUE, {})>>, s2, "good"),
   Doc(<<Entry(PartM1, TRUE, {}), Entry(PartM2, FALSE, {}),
         Entry(NoList, TRUE, {d1})>>, s2, "good"),
   Doc(<<Entry(WholeM1, TRUE, {})>>, s1, "bad"),
   Garbled}

Unhashed(claim, n) == [claim |-> claim, plain |-> TRUE,
                       digests |-> [i \in 1 .. n |-> NoDigest]]

MCInventories ==
  {<<>>, <<Unhashed(NoModel, 1)>>, <<Unhashed(m1, 2)>>,
   <<Unhashed(NoModel, 2)>>, <<[Unhashed(m1, 1) EXCEPT !.plain = FALSE]>>,
   <<Unhashed(m1, 1), Unhashed(NoModel, 2)>>}

=============================================================================
