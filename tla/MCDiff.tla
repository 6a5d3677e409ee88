------------------------------- MODULE MCDiff -------------------------------
(***************************************************************************)
(* DiffCommand on reports of at most two groups: every assignment of two   *)
(* digests to two files, unreadable files, a group that comes or goes, one *)
(* id in two sources, and two path groups with one id, which is what the   *)
(* path adapter makes of two files of one name and size in two folders.    *)
(* f2 and g2 have a forbidden phrase in their names.                       *)
(***************************************************************************)
EXTENDS DiffCommand

CONSTANTS d1, d2, NoDigest, f1, f2, g1, g2

MCForbidden == {f2, g2}

Group(source, id, status, files, place) ==
  [source |-> source, id |-> id, status |-> status, artifacts |-> files,
   place |-> place]

Of(f, d) == [x \in {f} |-> d]

Files == [{f1} -> {d1, d2, NoDigest}] \cup [{f2} -> {d1, d2}]
           \cup [{f1, f2} -> {d1, d2}]
           \cup {[x \in {f1, f2} |-> NoDigest]}

Ones == {<<Group("path", g1, st, files, "a")>> :
           st \in {"verified", "not_enrolled"}, files \in Files}

Twos == {<<Group("path", g1, st1, Of(f1, d1), "a"),
           Group("path", id, st2, Of(f1, d2), "b")>> :
           id \in {g1, g2}, st1, st2 \in {"verified", "not_enrolled"}}

Others == {<<>>, <<Group("hf_cache", g1, "unknown_variant", Of(f1, d1), "c")>>}

MCReports == Ones \cup Twos \cup Others

File(kind, scope, report) == [kind |-> kind, scope |-> scope, report |-> report]

MCInputs ==
  {File("scan", "default", r) : r \in MCReports}
    \cup {File("scan", scope, <<>>) : scope \in {"explicit", "absent"}}
    \cup {File(kind, "default", <<>>) :
            kind \in {"malformed"} \cup DOMAIN LoadExit}

=============================================================================
