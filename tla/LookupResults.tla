--------------------------- MODULE LookupResults ----------------------------
(***************************************************************************)
(* APILookupResult (api.py): what either HashLookup says of one digest.    *)
(* status "verified" carries the claims of a record whose signature was    *)
(* checked; "not_enrolled" and "error" carry none.                         *)
(***************************************************************************)
CONSTANT NoClaims     \* APILookupResult.record is None

LookupStatus == {"verified", "not_enrolled", "error"}

LookupResult(h, status, claims) ==
  [sha |-> h, status |-> status, claims |-> claims]

LookupError(h) == LookupResult(h, "error", NoClaims)

=============================================================================
