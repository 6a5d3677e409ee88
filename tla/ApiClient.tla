------------------------------ MODULE ApiClient ------------------------------
(***************************************************************************)
(* One call of the public verify API client (api.py): verify_hash of one   *)
(* digest, as the verify command makes it (cli.py), or verify_manifest of  *)
(* a list of digests in chunks.  Each chunk is one request with retries;   *)
(* its answer becomes one result per digest.                               *)
(*                                                                         *)
(* A reply of the service is a record [code, retryAfter, body]; code 0     *)
(* stands for any httpx.HTTPError: no connection, a timeout, a broken      *)
(* answer.  body is a record [form, jws, entries]: form "bad" is no JSON,  *)
(* "other" is JSON that is not an object with a list of objects, "object"  *)
(* has the record_jws of the single endpoint and the entries of the batch  *)
(* one, each a record [sha, status, jws].                                  *)
(***************************************************************************)
EXTENDS Integers, Sequences, FiniteSets, LookupResults

CONSTANTS
  WellFormed,    \* strings that are 64 lower-case hex digits
  Lowered,       \* string -> what lower().strip() makes of it
  Requested,     \* what is asked: records [op, hashes]; op "manifest" is a
                 \* scan, op "hash" the verify command with what was typed
  MaxBatch,      \* MAX_BATCH_SIZE
  MaxRetries,    \* MAX_RETRIES
  Replies,       \* what the service, or the network, may answer
  NoReply,       \* no response to interpret
  NoToken,       \* record_jws absent or empty
  Payload,       \* token -> the claims it signs, NoClaims if it does not verify
  NoHeader,      \* no Retry-After, or one that float() refuses (an HTTP date)
  Infinite,      \* a Retry-After that float() reads as infinity
  NoExit,        \* the verify command has not ended
  Pending,       \* see HashLookup
  Failed

InitialBackoff == 1

ASSUME ClientConstants ==
  /\ MaxBatch \in Nat \ {0}
  /\ MaxRetries \in Nat
  /\ Requested \subseteq [op : {"hash", "manifest"}, hashes : Seq(DOMAIN Lowered)]
  /\ \A r \in Requested : r.op = "hash" => Len(r.hashes) = 1
  /\ NoToken \notin DOMAIN Payload
  /\ NoReply \notin Replies
  /\ \A r \in Replies :
       /\ r.retryAfter \in Nat \cup {NoHeader, Infinite}
       /\ Len(r.body.entries) \in Nat
       /\ DOMAIN r.body.entries = 1 .. Len(r.body.entries)
       /\ r.body.jws \in DOMAIN Payload \cup {NoToken}
       /\ \A k \in DOMAIN r.body.entries :
            r.body.entries[k].jws \in DOMAIN Payload \cup {NoToken}
  /\ NoExit \notin {0, 1, 2}

VARIABLES
  call,      \* the call under way
  results,   \* the results of the chunks that are done
  pc,        \* "send", "asleep", "returned", "crashed"
  attempt,   \* attempt of the current request, from 0
  backoff,   \* seconds
  wait,      \* seconds the client sleeps before the next attempt
  heard,     \* history: the final reply each result was built from
  exit,      \* exit code of the verify command
  sent,      \* history: requests of this call
  advice     \* history: the Retry-After of the last reply that was retried

vars == <<call, results, pc, attempt, backoff, wait, exit, heard, sent, advice>>

\* verify lowers and strips its argument; a scan has its digests from hashing.
CallFor(request) ==
  IF request.op = "hash"
  THEN [request EXCEPT !.hashes = <<Lowered[request.hashes[1]]>>]
  ELSE request

Calls == {CallFor(r) : r \in Requested}

Init ==
  /\ call \in Calls
  /\ results = <<>>
  /\ pc = "send"
  /\ attempt = 0
  /\ backoff = InitialBackoff
  /\ wait = 0
  /\ exit = NoExit
  /\ heard = <<>>
  /\ sent = 0
  /\ advice = NoHeader

-----------------------------------------------------------------------------
(***************************************************************************)
(* From a response to results.                                             *)
(***************************************************************************)
NotEnrolledResult(h) == LookupResult(h, "not_enrolled", NoClaims)

\* Mutation of FromToken: the signature is not looked at.
FromTokenUnverified(h, token) ==
  IF token # NoToken THEN LookupResult(h, "verified", Payload[token])
  ELSE LookupError(h)

\* A record_jws becomes a verified result only if its signature verifies.
FromToken(h, token) ==
  IF token # NoToken /\ Payload[token] # NoClaims
  THEN LookupResult(h, "verified", Payload[token])
  ELSE LookupError(h)

\* Mutation of FromEntries: a digest the answer leaves out is "not enrolled".
FromEntriesAbsent(h, entries) ==
  LET named == {i \in DOMAIN entries : entries[i].sha = h}
  IN  IF named = {} THEN NotEnrolledResult(h)
      ELSE LookupError(h)

\* Mutation of FromEntries: one entry with an unknown status spoils the batch.
FromEntriesAllOrNone(h, entries) ==
  LET named == {i \in DOMAIN entries : entries[i].sha = h}
      last  == entries[CHOOSE i \in named : \A j \in named : j <= i]
  IN  IF \/ named = {}
         \/ \E i \in DOMAIN entries : entries[i].status = "unheard_of"
      THEN LookupError(h)
      ELSE IF last.status = "not_enrolled" THEN NotEnrolledResult(h)
      ELSE FromToken(h, last.jws)

\* _build_batch_results for one digest: the last entry that names it counts.
FromEntries(h, entries) ==
  LET named == {i \in DOMAIN entries : entries[i].sha = h}
      last  == entries[CHOOSE i \in named : \A j \in named : j <= i]
  IN  IF named = {} THEN LookupError(h)
      ELSE IF last.status = "not_enrolled" THEN NotEnrolledResult(h)
      ELSE IF last.status = "verified" THEN FromToken(h, last.jws)
      ELSE LookupError(h)

\* The final response to a request, for one of the digests it asked about.
Interpret(h, reply) ==
  IF call.op = "hash" /\ reply.code = 404 THEN NotEnrolledResult(h)
  ELSE IF reply.code # 200 \/ reply.body.form = "bad" THEN LookupError(h)
  ELSE IF call.op = "hash" THEN FromToken(h, reply.body.jws)
  ELSE FromEntries(h, reply.body.entries)

\* An answer of the wrong shape: body.get, or entry.get, does not exist.
Uninterpretable(reply) == reply.code = 200 /\ reply.body.form = "other"

-----------------------------------------------------------------------------
Remaining == SubSeq(call.hashes, Len(results) + 1, Len(call.hashes))

\* _chunked: the next slice of at most MaxBatch digests.
Chunk == SubSeq(Remaining, 1,
                IF Len(Remaining) < MaxBatch THEN Len(Remaining) ELSE MaxBatch)

HasMalformed(chunk) == \E i \in DOMAIN chunk : chunk[i] \notin WellFormed

\* Mutation of FinishChunk: the results of a chunk go in front.
FinishChunkInFront(chunk, outcome, reply) ==
  /\ results' = outcome \o results
  /\ heard' = heard \o [i \in DOMAIN chunk |-> reply]
  /\ pc' = "send"
  /\ attempt' = 0
  /\ backoff' = InitialBackoff
  /\ wait' = 0
  /\ advice' = NoHeader

\* The chunk's results are appended and the next chunk starts afresh.
FinishChunk(chunk, outcome, reply) ==
  /\ results' = results \o outcome
  /\ heard' = heard \o [i \in DOMAIN chunk |-> reply]
  /\ pc' = "send"
  /\ attempt' = 0
  /\ backoff' = InitialBackoff
  /\ wait' = 0
  /\ advice' = NoHeader

\* Mutation of AllErrors: only the malformed digests of a chunk get a result.
ErrorsOfMalformed(chunk) ==
  LET refused == SelectSeq(chunk, LAMBDA h : h \notin WellFormed)
  IN  [i \in DOMAIN refused |-> LookupError(refused[i])]

\* Every digest of a chunk that got no usable response is an error.
AllErrors(chunk) == [i \in DOMAIN chunk |-> LookupError(chunk[i])]

\* One malformed digest fails its whole chunk; nothing is sent.
RefuseMalformed ==
  /\ pc = "send"
  /\ HasMalformed(Chunk)
  /\ FinishChunk(Chunk, AllErrors(Chunk), NoReply)
  /\ UNCHANGED <<call, exit, sent>>

\* Mutation of ReturnResults: waits for a last chunk that is full.
ReturnWhenFull ==
  /\ pc = "send"
  /\ Len(results) = Len(call.hashes)
  /\ Len(results) % MaxBatch = 0
  /\ pc' = "returned"
  /\ UNCHANGED <<call, results, attempt, backoff, wait, exit, heard, sent, advice>>

\* The loop over the chunks is done (at once for an empty list).
ReturnResults ==
  /\ pc = "send"
  /\ Remaining = <<>>
  /\ pc' = "returned"
  /\ UNCHANGED <<call, results, attempt, backoff, wait, exit, heard, sent, advice>>

CanRequest == pc = "send" /\ Remaining # <<>> /\ ~HasMalformed(Chunk)

\* Mutation of Retried: one attempt too many.
RetriedOnceMore(reply) == reply.code \in {0, 429, 503} /\ attempt <= MaxRetries

\* A transport error, or a 429 or 503, while attempts are left.
Retried(reply) == reply.code \in {0, 429, 503} /\ attempt < MaxRetries

\* Mutation of WaitFor: Retry-After replaces the backoff.
WaitAsTold(reply) ==
  IF reply.code = 0 \/ reply.retryAfter = NoHeader THEN backoff
  ELSE reply.retryAfter

\* Retry-After lengthens the wait; it never shortens it.
WaitFor(reply) ==
  IF reply.code = 0 \/ reply.retryAfter = NoHeader \/ reply.retryAfter < backoff
  THEN backoff
  ELSE reply.retryAfter

\* time.sleep refuses an infinite wait.
CannotSleep(reply) == reply.code # 0 /\ reply.retryAfter = Infinite

GoToSleep(reply) ==
  /\ CanRequest
  /\ Retried(reply)
  /\ ~CannotSleep(reply)
  /\ pc' = "asleep"
  /\ wait' = WaitFor(reply)
  /\ advice' = IF reply.code = 0 THEN NoHeader ELSE reply.retryAfter
  /\ sent' = sent + 1
  /\ UNCHANGED <<call, results, attempt, backoff, exit, heard>>

\* A reply that is not retried is the response; code 0 is "no response".
TakeReply(reply) ==
  /\ CanRequest
  /\ ~Retried(reply)
  /\ ~Uninterpretable(reply)
  /\ FinishChunk(Chunk,
       IF reply.code = 0 THEN AllErrors(Chunk)
       ELSE [i \in DOMAIN Chunk |-> Interpret(Chunk[i], reply)],
       reply)
  /\ sent' = sent + 1
  /\ UNCHANGED <<call, exit>>

\* OverflowError or AttributeError: neither api.py nor its callers catch it.
Crash(reply) ==
  /\ CanRequest
  /\ \/ Retried(reply) /\ CannotSleep(reply)
     \/ ~Retried(reply) /\ Uninterpretable(reply)
  /\ pc' = "crashed"
  /\ exit' = IF call.op = "hash" THEN 1 ELSE exit
  /\ sent' = sent + 1
  /\ UNCHANGED <<call, results, attempt, backoff, wait, heard, advice>>

\* The sleep is over: the backoff doubles and the next attempt is made.
Wake ==
  /\ pc = "asleep"
  /\ pc' = "send"
  /\ attempt' = attempt + 1
  /\ backoff' = 2 * backoff
  /\ UNCHANGED <<call, results, wait, exit, heard, sent, advice>>

Request == \E reply \in Replies :
             GoToSleep(reply) \/ TakeReply(reply) \/ Crash(reply)

\* The verify command shows its one result: 2 for an error, 0 otherwise.
EndVerify ==
  /\ call.op = "hash" /\ pc = "returned" /\ exit = NoExit
  /\ exit' = IF results[1].status = "error" THEN 2 ELSE 0
  /\ UNCHANGED <<call, results, pc, attempt, backoff, wait, heard, sent, advice>>

Next == RefuseMalformed \/ ReturnResults \/ Request \/ Wake \/ EndVerify

\* httpx gives up on a silent server, so every request gets some reply.
Fairness == WF_vars(Next)

Spec == Init /\ [][Next]_vars /\ Fairness

-----------------------------------------------------------------------------
SignedClaims == {Payload[t] : t \in DOMAIN Payload} \ {NoClaims}

ReplyOrNone == Replies \cup {NoReply}

\* The client's loop variables are in range, at every point of the call.
TypeOK ==
  /\ call \in Calls
  /\ pc \in {"send", "asleep", "returned", "crashed"}
  /\ attempt \in 0 .. MaxRetries
  /\ backoff \in Nat \ {0}
  /\ wait \in Nat
  /\ exit \in {NoExit, 0, 1, 2}
  /\ \A i \in DOMAIN results :
       /\ results[i].status \in LookupStatus
       /\ results[i].claims \in SignedClaims \cup {NoClaims}
  /\ \A k \in DOMAIN heard : heard[k] \in ReplyOrNone
  /\ sent \in Nat

(***************************************************************************)
(* Whatever the replies, results line up with the digests asked for, chunk *)
(* by chunk: position i holds the result of hashes[i], and a call that     *)
(* returned has them all ("one APILookupResult per input hash, in input    *)
(* order", verify_manifest).                                               *)
(***************************************************************************)
ResultsLineUp ==
  /\ \A i \in DOMAIN results : results[i].sha = call.hashes[i]
  /\ Len(heard) = Len(results)
  /\ pc = "returned" => Len(results) = Len(call.hashes)

\* An entry of the response gives digest h that status.
Says(reply, h, status) ==
  \E k \in DOMAIN reply.body.entries :
    reply.body.entries[k].sha = h /\ reply.body.entries[k].status = status

(***************************************************************************)
(* A failure is never reported as absence: "not_enrolled" at position i    *)
(* means the final response to its own chunk was a success that said so    *)
(* of that digest, or a 404 of the single endpoint (verify_hash,           *)
(* _build_batch_results).  And a script that runs the verify command can   *)
(* tell the two apart: exit code 0 means the service answered, with a 404  *)
(* or with a signed record.  A record whose signature does not verify is a *)
(* failure too, as a test demands (test_signature_mismatch_returns_error); *)
(* the opening comment of api.py has it as "not_enrolled" (README).        *)
(***************************************************************************)
FailureIsNotAbsence ==
  /\ \A i \in DOMAIN results :
       results[i].status = "not_enrolled" =>
         LET reply == heard[i]
         IN  /\ reply # NoReply
             /\ \/ call.op = "hash" /\ reply.code = 404
                \/ /\ call.op = "manifest" /\ reply.code = 200
                   /\ Says(reply, call.hashes[i], "not_enrolled")
  /\ exit = 0 =>
       /\ call.hashes[1] \in WellFormed
       /\ \/ heard[1].code = 404
          \/ heard[1].code = 200 /\ Payload[heard[1].body.jws] # NoClaims

\* The tokens of the response that are about digest h.
TokensOf(reply, h) ==
  IF call.op = "hash" THEN {reply.body.jws}
  ELSE {reply.body.entries[k].jws :
          k \in {j \in DOMAIN reply.body.entries : reply.body.entries[j].sha = h}}

(***************************************************************************)
(* The normative trust rule (_verify_jws): "verified" comes with claims    *)
(* that a token of the final response to that chunk signs.                 *)
(***************************************************************************)
VerifiedWasSigned ==
  \A i \in DOMAIN results :
    results[i].status = "verified" =>
      LET reply == heard[i]
      IN  /\ reply # NoReply
          /\ reply.code = 200
          /\ \E t \in TokensOf(reply, call.hashes[i]) \ {NoToken} :
               Payload[t] = results[i].claims /\ Payload[t] # NoClaims

\* An entry that says something the client can believe.
SoundEntry(e) ==
  \/ e.status = "not_enrolled"
  \/ e.status = "verified" /\ e.jws # NoToken /\ Payload[e.jws] # NoClaims

(***************************************************************************)
(* No answer is lost: if a successful response has one entry for a digest, *)
(* and the entry is sound, the digest's result is that entry's, whatever   *)
(* happened to the other entries, to earlier attempts or to other chunks.  *)
(***************************************************************************)
AnswersAreKept ==
  \A i \in DOMAIN results :
    ( /\ call.op = "manifest"
      /\ heard[i] # NoReply
      /\ heard[i].code = 200
      /\ heard[i].body.form = "object" ) =>
    LET entries == heard[i].body.entries
        named   == {k \in DOMAIN entries : entries[k].sha = call.hashes[i]}
    IN  (\E k \in named : named = {k} /\ SoundEntry(entries[k]))
          => \E k \in named : results[i].status = entries[k].status

\* The positions at which a chunk of the results begins.
ChunkStarts == {i \in DOMAIN heard : (i - 1) % MaxBatch = 0}

(***************************************************************************)
(* The client stops asking: at most MaxRetries + 1 requests for each chunk *)
(* that is well formed, none for one that is not.                          *)
(***************************************************************************)
RequestBudget ==
  LET asked    == {i \in ChunkStarts : heard[i] # NoReply}
      underway == attempt + (IF pc \in {"asleep", "crashed"} THEN 1 ELSE 0)
  IN  /\ sent <= Cardinality(asked) * (MaxRetries + 1) + underway
      /\ underway <= MaxRetries + 1

(***************************************************************************)
(* The client is patient: before attempt n + 1 it sleeps at least 2^n      *)
(* initial backoffs and at least what a Retry-After it can read asked for, *)
(* and it never sleeps after the last attempt.                             *)
(***************************************************************************)
PatientRetry ==
  pc = "asleep" =>
    /\ attempt < MaxRetries
    /\ wait >= InitialBackoff * 2 ^ attempt
    /\ advice # NoHeader => wait >= advice

(***************************************************************************)
(* A call is what a HashLookup promises.                                   *)
(***************************************************************************)
Lookup == INSTANCE HashLookup WITH
            Requests <- {c.hashes : c \in Calls},
            asked    <- call.hashes,
            answer   <- CASE pc = "returned" -> results
                          [] pc = "crashed"  -> Failed
                          [] OTHER           -> Pending

ImplementsHashLookup == Lookup!Spec

\* Retries are bounded and so are the chunks: every call comes to an end, and
\* the verify command ends with an exit code.
CallEnds == <>( /\ pc \in {"returned", "crashed"}
                /\ call.op = "hash" => exit # NoExit )

=============================================================================
