----------------------------- MODULE HashLookup -----------------------------
(***************************************************************************)
(* What a HashLookup promises verify_groups (scanner.py), with nothing     *)
(* said of requests, chunks or retries: a call that returns gives exactly  *)
(* one result per digest asked for, in the order asked, each of them an    *)
(* error, a "not enrolled", or the claims of a record the issuer signed.   *)
(* A call may also end in an exception.                                    *)
(***************************************************************************)
EXTENDS Naturals, Sequences, LookupResults

CONSTANTS
  Requests,      \* the sequences of digests that may be asked for
  SignedClaims,  \* the payloads the issuer's key has signed
  Pending,       \* the call has not returned
  Failed         \* the call ended in an exception

VARIABLES asked, answer

IsResult(r, h) ==
  \/ r = LookupResult(h, "error", NoClaims)
  \/ r = LookupResult(h, "not_enrolled", NoClaims)
  \/ \E c \in SignedClaims : r = LookupResult(h, "verified", c)

IsAnswer(a, hashes) ==
  /\ DOMAIN a = DOMAIN hashes
  /\ \A i \in DOMAIN hashes : IsResult(a[i], hashes[i])

Init == asked \in Requests /\ answer = Pending

Return ==
  /\ answer = Pending
  /\ answer' # Pending
  /\ answer' # Failed
  /\ IsAnswer(answer', asked)
  /\ UNCHANGED asked

Raise == answer = Pending /\ answer' = Failed /\ UNCHANGED asked

Next == Return \/ Raise

Spec == Init /\ [][Next]_<<asked, answer>>

=============================================================================
