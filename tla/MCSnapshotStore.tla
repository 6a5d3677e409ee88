-------------------------- MODULE MCSnapshotStore ---------------------------
(***************************************************************************)
(* Two refreshes and a reader; the server sends one of two good documents, *)
(* one that does not verify, or one that is no UTF-8.  Written at once,    *)
(* the two good ones may give a file that ends inside a character, or a    *)
(* document with the manifest of one and the records of the other.         *)
(***************************************************************************)
EXTENDS SnapshotStore

CONSTANTS p1, p2, r1, s1, s2

Doc(parse, digest, signature, models) ==
  [parse |-> parse, manifest |-> TRUE, signature |-> signature,
   digest |-> digest, models |-> models]

Old     == Doc("json", s1, "good", <<s1>>)
New     == Doc("json", s2, "good", <<s2>>)
Forged  == Doc("json", s2, "bad", <<s2>>)
Garbled == Doc("not_utf8", s2, "missing", <<>>)

Spliced == Doc("json", s1, "good", <<s2>>)
Cut     == Doc("not_utf8", s1, "good", <<s2>>)

MCRefreshers == {p1, p2}
MCReaders == {r1}
MCServed == {Old, New, Forged, Garbled}
MCInstalled == {NoFile, Old}

MCBlends(docs) ==
  {Holed} \cup (IF {Old, New} \subseteq docs THEN {Spliced, Cut} ELSE {})

=============================================================================
