-------------------------- MODULE ApiClientProofs ---------------------------
(***************************************************************************)
(* Theorems about ApiClient, for every list of digests, every chunk size   *)
(* and number of retries, and every sequence of replies.                   *)
(*                                                                         *)
(* The invariant they follow from is that each result is what one function *)
(* of its digest and the reply heard for its chunk gives (ResultOf), and   *)
(* that results stand in the order of the digests.                         *)
(***************************************************************************)
EXTENDS ApiClient, Positions, SequenceTheorems

Strings == DOMAIN Lowered \cup {Lowered[s] : s \in DOMAIN Lowered}

Result == [sha : Strings, status : LookupStatus, claims : SignedClaims \cup {NoClaims}]

\* The result for a digest after the last request of its chunk.
ResultOf(h, reply) ==
  IF reply = NoReply \/ reply.code = 0 THEN LookupError(h) ELSE Interpret(h, reply)

SequencesInv ==
  /\ results \in Seq(Result)
  /\ heard \in Seq(ReplyOrNone)
  /\ Len(heard) = Len(results)
  /\ Len(results) <= Len(call.hashes)
  /\ pc = "returned" => Len(results) = Len(call.hashes)

\* Within a chunk: the client sleeps only if an attempt is left.
LoopInv ==
  /\ call \in Calls
  /\ pc \in {"send", "asleep", "returned", "crashed"}
  /\ attempt \in 0 .. MaxRetries
  /\ pc = "asleep" => attempt < MaxRetries
  /\ backoff \in Nat \ {0}
  /\ wait \in Nat
  /\ sent \in Nat

\* Every result is explained by the reply that was heard last for its chunk.
HeardInv ==
  \A i \in 1 .. Len(results) :
    /\ results[i] = ResultOf(call.hashes[i], heard[i])
    /\ heard[i] # NoReply => call.hashes[i] \in WellFormed

\* The verify command ends with 0 only after a result that is not an error.
VerifyInv ==
  /\ exit \in {NoExit, 0, 1, 2}
  /\ exit = 0 => pc = "returned" /\ call.op = "hash" /\ results[1].status # "error"

IInv == LoopInv /\ SequencesInv /\ HeardInv /\ VerifyInv

-----------------------------------------------------------------------------
(***************************************************************************)
(* Calls and chunks.                                                       *)
(***************************************************************************)

\* What is asked for is a sequence of strings; the verify command asks for one.
LEMMA CallsAreSequences ==
  ASSUME NEW c \in Calls
  PROVE  /\ c.op \in {"hash", "manifest"}
         /\ c.hashes \in Seq(Strings)
         /\ c.op = "hash" => Len(c.hashes) = 1
<1>1. PICK r \in Requested : c = CallFor(r)
  BY DEF Calls
<1>2. /\ r \in [op : {"hash", "manifest"}, hashes : Seq(DOMAIN Lowered)]
      /\ r.op = "hash" => Len(r.hashes) = 1
  BY ClientConstants
<1>3. r.hashes \in Seq(Strings)
  <2>1. r.hashes \in Seq(DOMAIN Lowered) /\ DOMAIN Lowered \subseteq Strings
    BY <1>2 DEF Strings
  <2> QED BY <2>1, SeqMonotonic
<1>4. CASE r.op = "hash"
  <2>1. c.op = "hash" /\ c.hashes = <<Lowered[r.hashes[1]]>>
    BY <1>1, <1>2, <1>4 DEF CallFor
  <2>2. r.hashes[1] \in DOMAIN Lowered
    <3>1. r.hashes \in Seq(DOMAIN Lowered) /\ 1 \in 1 .. Len(r.hashes)
      BY <1>2, <1>4
    <3> QED BY <3>1, ElementOfSeq
  <2>3. Lowered[r.hashes[1]] \in Strings
    BY <2>2 DEF Strings
  <2> QED BY <2>1, <2>3
<1>5. CASE r.op # "hash"
  BY <1>1, <1>2, <1>3, <1>5 DEF CallFor
<1> QED BY <1>4, <1>5

\* A chunk is the digests after those that have results.
LEMMA ChunkOfCall ==
  ASSUME LoopInv, SequencesInv
  PROVE  /\ Chunk \in Seq(Strings)
         /\ Len(results) \in Nat
         /\ Len(results) + Len(Chunk) <= Len(call.hashes)
         /\ Len(Chunk) <= MaxBatch
         /\ \A j \in 1 .. Len(Chunk) : Chunk[j] = call.hashes[Len(results) + j]
         /\ Len(Chunk) < MaxBatch => Len(results) + Len(Chunk) = Len(call.hashes)
<1> DEFINE n    == Len(results)
           all  == call.hashes
           rest == SubSeq(all, n + 1, Len(all))
           most == IF Len(rest) < MaxBatch THEN Len(rest) ELSE MaxBatch
<1>1. call \in Calls /\ all \in Seq(Strings) /\ n \in Nat /\ Len(all) \in Nat /\ n <= Len(all)
  <2>1. call \in Calls /\ n <= Len(all) /\ results \in Seq(Result)
    BY DEF LoopInv, SequencesInv
  <2>2. all \in Seq(Strings)
    BY <2>1, CallsAreSequences
  <2> QED BY <2>1, <2>2, LenProperties
<1>2. MaxBatch \in Nat \ {0}
  BY ClientConstants
<1>3. \A i \in n + 1 .. Len(all) : all[i] \in Strings
  BY <1>1, ElementOfSeq
<1>4. /\ rest \in Seq(Strings)
      /\ Len(rest) = Len(all) - n
      /\ \A i \in 1 .. Len(rest) : rest[i] = all[n + i]
  BY <1>1, <1>3, SubSeqProperties
<1>5. most \in Nat /\ most <= Len(rest) /\ most <= MaxBatch
  BY <1>1, <1>2, <1>4
<1>6. Chunk = SubSeq(rest, 1, most)
  BY DEF Chunk, Remaining
<1> HIDE DEF rest, most
<1>7. \A i \in 1 .. most : rest[i] \in Strings
  BY <1>1, <1>4, <1>5, ElementOfSeq
<1>8. /\ Chunk \in Seq(Strings)
      /\ Len(Chunk) = most
      /\ \A i \in 1 .. most : Chunk[i] = rest[i]
  BY <1>5, <1>6, <1>7, SubSeqProperties
<1>9. most < MaxBatch => most = Len(rest)
  BY <1>1, <1>2, <1>4 DEF most
<1>10. Len(Chunk) = most /\ n + most <= Len(all)
  BY <1>1, <1>4, <1>5, <1>8
<1>11. ASSUME NEW j \in 1 .. Len(Chunk)
       PROVE  Chunk[j] = all[n + j]
  <2>1. j \in 1 .. most /\ j \in 1 .. Len(rest)
    BY <1>1, <1>4, <1>5, <1>10
  <2> QED BY <1>4, <1>8, <2>1
<1>12. most < MaxBatch => n + most = Len(all)
  BY <1>1, <1>4, <1>9
<1> HIDE DEF n, all
<1> QED
  <2>1. n + Len(Chunk) <= Len(all) /\ (Len(Chunk) < MaxBatch => n + Len(Chunk) = Len(all))
    BY <1>10, <1>12
  <2>2. Len(Chunk) <= MaxBatch
    BY <1>5, <1>10
  <2> USE DEF n, all
  <2> QED BY <1>1, <1>8, <1>11, <2>1, <2>2

-----------------------------------------------------------------------------
(***************************************************************************)
(* What a reply says of a digest.                                          *)
(***************************************************************************)

\* What a reply is made of.
LEMMA ReplyShape ==
  ASSUME NEW reply \in Replies
  PROVE  /\ reply.retryAfter \in Nat \cup {NoHeader, Infinite}
         /\ reply # NoReply
         /\ reply.body.jws \in DOMAIN Payload \cup {NoToken}
         /\ Len(reply.body.entries) \in Nat
         /\ DOMAIN reply.body.entries = 1 .. Len(reply.body.entries)
         /\ \A k \in DOMAIN reply.body.entries :
              reply.body.entries[k].jws \in DOMAIN Payload \cup {NoToken}
BY ClientConstants

\* Of the entries that name a digest, a batch answer's result is the last one's.
LEMMA FromLastEntry ==
  ASSUME NEW entries, NEW h,
         Len(entries) \in Nat, DOMAIN entries = 1 .. Len(entries)
  PROVE  \/ /\ \A k \in DOMAIN entries : entries[k].sha # h
            /\ FromEntries(h, entries) = LookupError(h)
         \/ \E k \in DOMAIN entries :
              /\ entries[k].sha = h
              /\ FromEntries(h, entries) =
                   IF entries[k].status = "not_enrolled" THEN NotEnrolledResult(h)
                   ELSE IF entries[k].status = "verified" THEN FromToken(h, entries[k].jws)
                   ELSE LookupError(h)
<1> DEFINE named == {k \in DOMAIN entries : entries[k].sha = h}
           pick  == CHOOSE k \in named : \A j \in named : j <= k
<1>1. CASE named = {}
  <2>1. FromEntries(h, entries) = LookupError(h)
    BY <1>1 DEF FromEntries
  <2> QED BY <1>1, <2>1
<1>2. CASE named # {}
  <2>1. \E k \in named : \A j \in named : j <= k
    <3>1. named \subseteq 1 .. Len(entries)
      OBVIOUS
    <3> HIDE DEF named
    <3> QED BY <1>2, <3>1, LastPosition
  <2>2. pick \in named
    <3> HIDE DEF named
    <3> QED BY <2>1
  <2>3. FromEntries(h, entries) =
          IF entries[pick].status = "not_enrolled" THEN NotEnrolledResult(h)
          ELSE IF entries[pick].status = "verified" THEN FromToken(h, entries[pick].jws)
          ELSE LookupError(h)
    BY <1>2 DEF FromEntries
  <2>4. pick \in DOMAIN entries /\ entries[pick].sha = h
    BY <2>2
  <2> HIDE DEF pick
  <2> QED BY <2>3, <2>4
<1> QED BY <1>1, <1>2

\* A token gives an error, or the claims that its signature covers.
LEMMA TokenResult ==
  ASSUME NEW h, NEW token \in DOMAIN Payload \cup {NoToken}
  PROVE  \/ FromToken(h, token) = LookupError(h)
         \/ /\ token # NoToken /\ Payload[token] # NoClaims
            /\ Payload[token] \in SignedClaims
            /\ FromToken(h, token) = LookupResult(h, "verified", Payload[token])
BY DEF FromToken, SignedClaims

\* The three things that can be said of a digest are results.
LEMMA ResultsAreTyped ==
  ASSUME NEW h \in Strings
  PROVE  /\ LookupError(h) \in Result
         /\ NotEnrolledResult(h) \in Result
         /\ \A c \in SignedClaims : LookupResult(h, "verified", c) \in Result
BY DEF Result, LookupError, NotEnrolledResult, LookupResult, LookupStatus

\* Every reply, usable or not, gives every digest one of the three results.
LEMMA ResultOfIsResult ==
  ASSUME NEW h \in Strings, NEW reply \in ReplyOrNone
  PROVE  ResultOf(h, reply) \in Result
<1>1. LookupError(h) \in Result /\ NotEnrolledResult(h) \in Result
  BY ResultsAreTyped
<1>2. CASE reply = NoReply \/ reply.code = 0
  BY <1>1, <1>2 DEF ResultOf
<1>3. CASE reply # NoReply /\ reply.code # 0
  <2>1. reply \in Replies /\ ResultOf(h, reply) = Interpret(h, reply)
    BY <1>3 DEF ResultOf, ReplyOrNone
  <2>2. \A token \in DOMAIN Payload \cup {NoToken} : FromToken(h, token) \in Result
    BY <1>1, TokenResult, ResultsAreTyped
  <2>3. FromToken(h, reply.body.jws) \in Result
    BY <2>1, <2>2, ReplyShape
  <2>4. FromEntries(h, reply.body.entries) \in Result
    <3> DEFINE entries == reply.body.entries
    <3>1. /\ Len(entries) \in Nat
          /\ DOMAIN entries = 1 .. Len(entries)
          /\ \A k \in DOMAIN entries : entries[k].jws \in DOMAIN Payload \cup {NoToken}
      BY <2>1, ReplyShape
    <3> HIDE DEF entries
    <3>2. FromEntries(h, entries) \in Result
      BY <1>1, <2>2, <3>1, FromLastEntry
    <3> QED BY <3>2 DEF entries
  <2> QED BY <1>1, <2>1, <2>3, <2>4 DEF Interpret
<1> QED BY <1>2, <1>3

-----------------------------------------------------------------------------
(***************************************************************************)
(* The invariant.                                                          *)
(***************************************************************************)

\* The end of a chunk explains one more result for each of its digests, and
\* leaves those before as they are.
LEMMA ChunkEnds ==
  ASSUME IInv, NEW reply \in ReplyOrNone, NEW outcome,
         pc = "send", call' = call, exit' = exit,
         outcome = [i \in DOMAIN Chunk |-> ResultOf(Chunk[i], reply)],
         reply # NoReply => ~HasMalformed(Chunk),
         FinishChunk(Chunk, outcome, reply)
  PROVE  SequencesInv' /\ HeardInv'
<1> DEFINE n     == Len(results)
           m     == Len(Chunk)
           again == [i \in DOMAIN Chunk |-> reply]
<1>1. /\ results \in Seq(Result) /\ heard \in Seq(ReplyOrNone)
      /\ Len(heard) = n /\ n \in Nat
  BY LenProperties DEF IInv, SequencesInv
<1>2. /\ Chunk \in Seq(Strings)
      /\ n + m <= Len(call.hashes)
      /\ \A j \in 1 .. m : Chunk[j] = call.hashes[n + j]
  BY ChunkOfCall DEF IInv
<1>3. m \in Nat /\ DOMAIN Chunk = 1 .. m /\ \A j \in 1 .. m : Chunk[j] \in Strings
  BY <1>2, LenProperties, ElementOfSeq
<1>4. /\ outcome \in Seq(Result) /\ Len(outcome) = m
      /\ \A j \in 1 .. m : outcome[j] = ResultOf(Chunk[j], reply)
  <2>1. outcome = [i \in 1 .. m |-> ResultOf(Chunk[i], reply)]
    BY <1>3
  <2>2. \A i \in 1 .. m : ResultOf(Chunk[i], reply) \in Result
    BY <1>3, ResultOfIsResult
  <2>3. outcome \in [1 .. m -> Result]
    BY <2>1, <2>2
  <2>4. outcome \in Seq(Result)
    BY <1>3, <2>3, SeqDef
  <2> HIDE DEF m
  <2> QED BY <1>3, <2>1, <2>3, <2>4, LenProperties
<1>5. again \in Seq(ReplyOrNone) /\ Len(again) = m /\ \A j \in 1 .. m : again[j] = reply
  <2>1. again = [i \in 1 .. m |-> reply] /\ again \in [1 .. m -> ReplyOrNone]
    BY <1>3
  <2>2. again \in Seq(ReplyOrNone)
    BY <1>3, <2>1, SeqDef
  <2> HIDE DEF m, again
  <2> QED BY <1>3, <2>1, <2>2, LenProperties
<1>6. results' = results \o outcome /\ heard' = heard \o again /\ pc' = "send"
  BY DEF FinishChunk
<1> HIDE DEF n, m, again
<1>7. /\ results' \in Seq(Result) /\ Len(results') = n + m
      /\ \A i \in 1 .. n + m :
           results'[i] = IF i <= n THEN results[i] ELSE outcome[i - n]
  BY <1>1, <1>4, <1>6, ConcatProperties DEF n
<1>8. /\ heard' \in Seq(ReplyOrNone) /\ Len(heard') = n + m
      /\ \A i \in 1 .. n + m : heard'[i] = IF i <= n THEN heard[i] ELSE again[i - n]
  <2>1. heard \in Seq(ReplyOrNone) /\ again \in Seq(ReplyOrNone)
    BY <1>1, <1>5
  <2>2. /\ heard \o again \in Seq(ReplyOrNone)
        /\ Len(heard \o again) = Len(heard) + Len(again)
        /\ \A i \in 1 .. Len(heard) + Len(again) :
             (heard \o again)[i] = IF i <= Len(heard) THEN heard[i] ELSE again[i - Len(heard)]
    BY ONLY <2>1, ConcatProperties
  <2> QED BY <1>1, <1>5, <1>6, <2>2
<1>9. SequencesInv'
  BY <1>2, <1>6, <1>7, <1>8 DEF SequencesInv
<1>10. ASSUME NEW i \in 1 .. n + m
       PROVE  /\ results'[i] = ResultOf(call.hashes[i], heard'[i])
              /\ heard'[i] # NoReply => call.hashes[i] \in WellFormed
  <2>1. CASE i <= n
    <3>1. i \in 1 .. Len(results)
      BY <1>1, <1>3, <2>1 DEF n
    <3> QED BY <1>7, <1>8, <2>1, <3>1 DEF IInv, HeardInv
  <2>2. CASE ~ (i <= n)
    <3>1. i - n \in 1 .. m /\ n + (i - n) = i
      BY <1>1, <1>3, <2>2
    <3>2. results'[i] = outcome[i - n] /\ heard'[i] = again[i - n]
      BY <1>7, <1>8, <2>2
    <3>3. results'[i] = ResultOf(Chunk[i - n], reply) /\ heard'[i] = reply
      BY <1>4, <1>5, <3>1, <3>2
    <3>4. Chunk[i - n] = call.hashes[i]
      BY <1>2, <3>1
    <3>5. reply # NoReply => Chunk[i - n] \in WellFormed
      BY <1>3, <3>1 DEF HasMalformed
    <3> QED BY <3>3, <3>4, <3>5
  <2> QED BY <2>1, <2>2
<1>11. HeardInv'
  <2>1. \A h, r : ResultOf(h, r)' = ResultOf(h, r)
    BY DEF ResultOf, Interpret
  <2> QED BY <1>7, <1>10, <2>1 DEF HeardInv
<1> QED BY <1>9, <1>11

\* The results and replies of IInv have the types TypeOK asks for.
LEMMA SequencesAreTyped ==
  ASSUME SequencesInv
  PROVE  /\ \A i \in DOMAIN results :
              /\ results[i].status \in LookupStatus
              /\ results[i].claims \in SignedClaims \cup {NoClaims}
         /\ \A k \in DOMAIN heard : heard[k] \in ReplyOrNone
<1>1. results \in Seq(Result) /\ heard \in Seq(ReplyOrNone)
  BY DEF SequencesInv
<1>2. \A i \in DOMAIN results : results[i] \in Result
  BY <1>1, LenProperties, ElementOfSeq
<1>3. \A k \in DOMAIN heard : heard[k] \in ReplyOrNone
  BY <1>1, LenProperties, ElementOfSeq
<1> QED BY <1>2, <1>3 DEF Result

\* The invariant holds before the first request.
LEMMA InitIInv == Init => IInv
<1> SUFFICES ASSUME Init PROVE IInv
  OBVIOUS
<1>1. call \in Calls /\ Len(call.hashes) \in Nat
  BY CallsAreSequences, LenProperties DEF Init
<1>2. SequencesInv
  <2>1. /\ results \in Seq(Result) /\ Len(results) = 0
        /\ heard \in Seq(ReplyOrNone) /\ Len(heard) = 0
    BY EmptySeq DEF Init
  <2> QED BY <1>1, <2>1 DEF SequencesInv, Init
<1>3. LoopInv
  BY <1>1, <1>2, ClientConstants
  DEF Init, LoopInv, InitialBackoff
<1>4. HeardInv /\ VerifyInv
  BY <1>2, ClientConstants, EmptySeq DEF Init, HeardInv, VerifyInv
<1> QED BY <1>2, <1>3, <1>4 DEF IInv

\* A step that adds no result and changes no call keeps what results say.
LEMMA ResultsStay ==
  ASSUME IInv, UNCHANGED <<call, results, heard>>, pc' # "returned"
  PROVE  SequencesInv' /\ HeardInv'
<1>1. SequencesInv'
  BY DEF IInv, SequencesInv
<1>2. \A h, r : ResultOf(h, r)' = ResultOf(h, r)
  BY DEF ResultOf, Interpret
<1>3. HeardInv'
  BY <1>2 DEF IInv, HeardInv
<1> QED BY <1>1, <1>3

\* Every request, sleep, return and exception keeps the invariant.
LEMMA StepIInv == IInv /\ [Next]_vars => IInv'
<1> SUFFICES ASSUME IInv, [Next]_vars PROVE IInv'
  OBVIOUS
<1>0. /\ call \in Calls /\ attempt \in 0 .. MaxRetries /\ backoff \in Nat \ {0}
      /\ wait \in Nat /\ exit \in {NoExit, 0, 1, 2} /\ sent \in Nat
      /\ MaxRetries \in Nat /\ NoExit \notin {0, 1, 2}
      /\ pc = "asleep" => attempt < MaxRetries
      /\ exit = 0 => pc = "returned" /\ call.op = "hash" /\ results[1].status # "error"
  BY ClientConstants DEF IInv, LoopInv, VerifyInv
<1>1. CASE RefuseMalformed
  <2> DEFINE outcome == AllErrors(Chunk)
  <2>1. /\ pc = "send" /\ call' = call /\ exit' = exit /\ sent' = sent
        /\ FinishChunk(Chunk, outcome, NoReply)
    BY <1>1 DEF RefuseMalformed
  <2>2. outcome = [i \in DOMAIN Chunk |-> ResultOf(Chunk[i], NoReply)]
    BY DEF AllErrors, ResultOf
  <2>3. NoReply \in ReplyOrNone
    BY DEF ReplyOrNone
  <2> HIDE DEF outcome
  <2>4. SequencesInv' /\ HeardInv'
    BY <2>1, <2>2, <2>3, ChunkEnds
  <2>5. pc' = "send" /\ attempt' = 0 /\ backoff' = 1 /\ wait' = 0
    BY <2>1 DEF FinishChunk, InitialBackoff
  <2>6. LoopInv'
    BY <1>0, <2>1, <2>4, <2>5 DEF LoopInv
  <2>7. VerifyInv'
    BY <1>0, <2>1, <2>5 DEF VerifyInv
  <2> QED BY <2>4, <2>6, <2>7 DEF IInv
<1>2. CASE ReturnResults
  <2>1. /\ pc = "send" /\ Remaining = <<>> /\ pc' = "returned"
        /\ UNCHANGED <<call, results, attempt, backoff, wait, exit, heard, sent, advice>>
    BY <1>2 DEF ReturnResults
  <2>2. Len(results) = Len(call.hashes)
    <3>1. Len(Chunk) = 0 /\ MaxBatch \in Nat \ {0}
      BY <2>1, ClientConstants, EmptySeq, SubSeqEmpty DEF Chunk
    <3>2. Len(results) + Len(Chunk) = Len(call.hashes) /\ Len(results) \in Nat
      BY <3>1, ChunkOfCall DEF IInv
    <3> QED BY <3>1, <3>2
  <2>3. SequencesInv' /\ HeardInv'
    <3>1. \A h, r : ResultOf(h, r)' = ResultOf(h, r)
      BY <2>1 DEF ResultOf, Interpret
    <3> QED BY <2>1, <2>2, <3>1 DEF IInv, SequencesInv, HeardInv
  <2>4. LoopInv'
    BY <1>0, <2>1, <2>3 DEF LoopInv
  <2>5. VerifyInv'
    BY <1>0, <2>1 DEF VerifyInv
  <2> QED BY <2>3, <2>4, <2>5 DEF IInv
<1>3. ASSUME NEW reply \in Replies, GoToSleep(reply)
      PROVE  IInv'
  <2>1. /\ pc = "send" /\ pc' = "asleep" /\ attempt < MaxRetries
        /\ ~CannotSleep(reply) /\ wait' = WaitFor(reply) /\ sent' = sent + 1
        /\ UNCHANGED <<call, results, attempt, backoff, exit, heard>>
    BY <1>3 DEF GoToSleep, CanRequest, Retried
  <2>2. wait' \in Nat
    BY <1>0, <2>1, ReplyShape DEF WaitFor, CannotSleep
  <2>3. SequencesInv' /\ HeardInv'
    BY <2>1, ResultsStay
  <2>4. LoopInv'
    BY <1>0, <2>1, <2>2, <2>3 DEF LoopInv
  <2>5. VerifyInv'
    BY <1>0, <2>1 DEF VerifyInv
  <2> QED BY <2>3, <2>4, <2>5 DEF IInv
<1>4. ASSUME NEW reply \in Replies, TakeReply(reply)
      PROVE  IInv'
  <2> DEFINE outcome == IF reply.code = 0 THEN AllErrors(Chunk)
                        ELSE [i \in DOMAIN Chunk |-> Interpret(Chunk[i], reply)]
  <2>1. /\ pc = "send" /\ call' = call /\ exit' = exit /\ sent' = sent + 1
        /\ ~HasMalformed(Chunk)
        /\ FinishChunk(Chunk, outcome, reply)
    BY <1>4 DEF TakeReply, CanRequest
  <2>2. reply \in ReplyOrNone /\ reply # NoReply
    BY ReplyShape DEF ReplyOrNone
  <2>3. outcome = [i \in DOMAIN Chunk |-> ResultOf(Chunk[i], reply)]
    BY <2>2 DEF AllErrors, ResultOf
  <2> HIDE DEF outcome
  <2>4. SequencesInv' /\ HeardInv'
    BY <2>1, <2>2, <2>3, ChunkEnds
  <2>5. pc' = "send" /\ attempt' = 0 /\ backoff' = 1 /\ wait' = 0
    BY <2>1 DEF FinishChunk, InitialBackoff
  <2>6. LoopInv'
    BY <1>0, <2>1, <2>4, <2>5 DEF LoopInv
  <2>7. VerifyInv'
    BY <1>0, <2>1, <2>5 DEF VerifyInv
  <2> QED BY <2>4, <2>6, <2>7 DEF IInv
<1>5. ASSUME NEW reply \in Replies, Crash(reply)
      PROVE  IInv'
  <2>1. /\ pc = "send" /\ pc' = "crashed" /\ sent' = sent + 1
        /\ exit' = IF call.op = "hash" THEN 1 ELSE exit
        /\ UNCHANGED <<call, results, attempt, backoff, wait, heard>>
    BY <1>5 DEF Crash, CanRequest
  <2>2. SequencesInv' /\ HeardInv'
    BY <2>1, ResultsStay
  <2>3. LoopInv'
    BY <1>0, <2>1, <2>2 DEF LoopInv
  <2>4. VerifyInv'
    BY <1>0, <2>1 DEF VerifyInv
  <2> QED BY <2>2, <2>3, <2>4 DEF IInv
<1>6. CASE Wake
  <2>1. /\ pc = "asleep" /\ pc' = "send" /\ attempt' = attempt + 1
        /\ backoff' = 2 * backoff
        /\ UNCHANGED <<call, results, wait, exit, heard, sent>>
    BY <1>6 DEF Wake
  <2>2. attempt' \in 0 .. MaxRetries /\ backoff' \in Nat \ {0}
    BY <1>0, <2>1
  <2>3. SequencesInv' /\ HeardInv'
    BY <2>1, ResultsStay
  <2>4. LoopInv'
    BY <1>0, <2>1, <2>2, <2>3 DEF LoopInv
  <2>5. VerifyInv'
    BY <1>0, <2>1 DEF VerifyInv
  <2> QED BY <2>3, <2>4, <2>5 DEF IInv
<1>7. CASE EndVerify \/ UNCHANGED vars
  <2>1. UNCHANGED <<call, results, pc, attempt, backoff, wait, heard, sent>>
    BY <1>7 DEF EndVerify, vars
  <2>2. /\ exit' \in {NoExit, 0, 1, 2}
        /\ exit' = 0 => pc = "returned" /\ call.op = "hash" /\ results[1].status # "error"
    BY <1>0, <1>7 DEF EndVerify, vars
  <2>3. SequencesInv' /\ HeardInv'
    <3>1. \A h, r : ResultOf(h, r)' = ResultOf(h, r)
      BY <2>1 DEF ResultOf, Interpret
    <3> QED BY <2>1, <3>1 DEF IInv, SequencesInv, HeardInv
  <2>4. LoopInv'
    BY <1>0, <2>1 DEF IInv, LoopInv
  <2>5. VerifyInv'
    BY <2>1, <2>2 DEF VerifyInv
  <2> QED BY <2>3, <2>4, <2>5 DEF IInv
<1> QED BY <1>1, <1>2, <1>3, <1>4, <1>5, <1>6, <1>7 DEF Next, Request

\* The invariant holds in every state of every call.
THEOREM InvariantHolds == Spec => []IInv
<1>1. Init => IInv
  BY InitIInv
<1>2. IInv /\ [Next]_vars => IInv'
  BY StepIInv
<1> QED BY <1>1, <1>2, PTL DEF Spec

\* The loop variables, the results and the replies heard have their types.
THEOREM TypeCorrect == Spec => []TypeOK
<1>1. IInv => TypeOK
  BY SequencesAreTyped DEF IInv, LoopInv, VerifyInv, TypeOK
<1> QED BY <1>1, InvariantHolds, PTL

-----------------------------------------------------------------------------
(***************************************************************************)
(* What a result and its reply say of each other.                          *)
(***************************************************************************)

\* What the invariant says of one result.
LEMMA OneResult ==
  ASSUME IInv, NEW i \in DOMAIN results
  PROVE  /\ i \in 1 .. Len(call.hashes)
         /\ results[i] = ResultOf(call.hashes[i], heard[i])
         /\ results[i].sha = call.hashes[i]
         /\ heard[i] \in ReplyOrNone
         /\ heard[i] # NoReply => call.hashes[i] \in WellFormed
<1>1. /\ results \in Seq(Result) /\ heard \in Seq(ReplyOrNone)
      /\ Len(heard) = Len(results) /\ Len(results) <= Len(call.hashes)
      /\ Len(call.hashes) \in Nat /\ call.hashes \in Seq(Strings)
  BY CallsAreSequences, LenProperties DEF IInv, LoopInv, SequencesInv
<1>2. i \in 1 .. Len(results) /\ Len(results) \in Nat
  BY <1>1, LenProperties
<1>3. i \in 1 .. Len(call.hashes)
  BY <1>1, <1>2
<1>4. heard[i] \in ReplyOrNone
  BY <1>1, <1>2, ElementOfSeq
<1>5. /\ results[i] = ResultOf(call.hashes[i], heard[i])
      /\ heard[i] # NoReply => call.hashes[i] \in WellFormed
  BY <1>2 DEF IInv, HeardInv
<1>6. ResultOf(call.hashes[i], heard[i]).sha = call.hashes[i]
  <2> DEFINE h == call.hashes[i]
             reply == heard[i]
  <2>1. LookupError(h).sha = h /\ NotEnrolledResult(h).sha = h
    BY DEF LookupError, NotEnrolledResult, LookupResult
  <2>2. \A token : FromToken(h, token).sha = h
    BY <2>1 DEF FromToken, LookupResult
  <2>3. \A entries : FromEntries(h, entries).sha = h
    BY <2>1, <2>2 DEF FromEntries
  <2>4. Interpret(h, reply).sha = h
    BY <2>1, <2>2, <2>3 DEF Interpret
  <2> QED BY <2>1, <2>4 DEF ResultOf
<1> QED BY <1>3, <1>4, <1>5, <1>6

(***************************************************************************)
(* For every list of digests, chunk size and sequence of replies, results  *)
(* line up with the digests, and a call that returned has them all.        *)
(***************************************************************************)
THEOREM ResultsAlwaysLineUp == Spec => []ResultsLineUp
<1>1. IInv => ResultsLineUp
  BY OneResult DEF IInv, SequencesInv, ResultsLineUp
<1> QED BY <1>1, InvariantHolds, PTL

\* The results that are not errors, and the replies that give them.
LEMMA AnsweredResult ==
  ASSUME IInv, NEW i \in DOMAIN results, results[i].status # "error"
  PROVE  /\ heard[i] \in Replies
         /\ results[i] = Interpret(call.hashes[i], heard[i])
         /\ \/ /\ call.op = "hash" /\ heard[i].code = 404
               /\ results[i] = NotEnrolledResult(call.hashes[i])
            \/ /\ call.op = "hash" /\ heard[i].code = 200
               /\ results[i] = FromToken(call.hashes[i], heard[i].body.jws)
            \/ /\ call.op = "manifest" /\ heard[i].code = 200
               /\ results[i] = FromEntries(call.hashes[i], heard[i].body.entries)
<1>1. /\ results[i] = ResultOf(call.hashes[i], heard[i]) /\ heard[i] \in ReplyOrNone
      /\ call.op \in {"hash", "manifest"}
  BY OneResult, CallsAreSequences DEF IInv, LoopInv
<1>2. results[i] # LookupError(call.hashes[i])
  BY DEF LookupError, LookupResult
<1>3. heard[i] \in Replies /\ results[i] = Interpret(call.hashes[i], heard[i])
  BY <1>1, <1>2 DEF ResultOf, ReplyOrNone
<1> QED BY <1>1, <1>2, <1>3 DEF Interpret

(***************************************************************************)
(* For every call: "not enrolled" was said by the service, of that digest, *)
(* in the last response to its chunk; and the verify command exits with 0  *)
(* only if the service answered.                                           *)
(***************************************************************************)
THEOREM FailureIsNeverAbsence == Spec => []FailureIsNotAbsence
<1>1. ASSUME IInv, NEW i \in DOMAIN results, results[i].status = "not_enrolled"
      PROVE  /\ heard[i] # NoReply
             /\ \/ call.op = "hash" /\ heard[i].code = 404
                \/ /\ call.op = "manifest" /\ heard[i].code = 200
                   /\ Says(heard[i], call.hashes[i], "not_enrolled")
  <2> DEFINE h     == call.hashes[i]
             reply == heard[i]
  <2>1. results[i].status # "error"
    BY <1>1
  <2>2. reply \in Replies
    BY <1>1, <2>1, AnsweredResult
  <2>3. \A token : FromToken(h, token).status # "not_enrolled"
    BY DEF FromToken, LookupError, LookupResult
  <2>4. FromEntries(h, reply.body.entries).status = "not_enrolled"
          => Says(reply, h, "not_enrolled")
    <3> DEFINE entries == reply.body.entries
    <3>1. Len(entries) \in Nat /\ DOMAIN entries = 1 .. Len(entries)
      BY <2>2, ReplyShape
    <3>2. LookupError(h).status # "not_enrolled"
      BY DEF LookupError, LookupResult
    <3> HIDE DEF entries
    <3>3. FromEntries(h, entries).status = "not_enrolled" =>
            \E k \in DOMAIN entries :
              entries[k].sha = h /\ entries[k].status = "not_enrolled"
      BY <2>3, <3>1, <3>2, FromLastEntry
    <3> QED BY <3>3 DEF entries, Says
  <2>5. \/ call.op = "hash" /\ reply.code = 404
        \/ /\ call.op = "hash" /\ results[i] = FromToken(h, reply.body.jws)
        \/ /\ call.op = "manifest" /\ reply.code = 200
           /\ results[i] = FromEntries(h, reply.body.entries)
    BY <1>1, <2>1, AnsweredResult
  <2> QED BY <1>1, <2>2, <2>3, <2>4, <2>5, ReplyShape
<1>2. ASSUME IInv, exit = 0
      PROVE  /\ call.hashes[1] \in WellFormed
             /\ \/ heard[1].code = 404
                \/ heard[1].code = 200 /\ Payload[heard[1].body.jws] # NoClaims
  <2>1. pc = "returned" /\ call.op = "hash" /\ results[1].status # "error"
    BY <1>2 DEF IInv, VerifyInv
  <2>2. 1 \in DOMAIN results
    <3>1. Len(results) = 1
      BY <1>2, <2>1, CallsAreSequences DEF IInv, LoopInv, SequencesInv
    <3>2. results \in Seq(Result)
      BY <1>2 DEF IInv, SequencesInv
    <3> QED BY <3>1, <3>2, LenProperties
  <2>3. /\ heard[1] \in Replies
        /\ \/ heard[1].code = 404
           \/ /\ heard[1].code = 200
              /\ results[1] = FromToken(call.hashes[1], heard[1].body.jws)
    BY <1>2, <2>1, <2>2, AnsweredResult
  <2>4. call.hashes[1] \in WellFormed
    BY <1>2, <2>2, <2>3, OneResult, ReplyShape
  <2>5. results[1] # LookupError(call.hashes[1])
    BY <2>1 DEF LookupError, LookupResult
  <2> QED BY <2>3, <2>4, <2>5 DEF FromToken
<1>3. IInv => FailureIsNotAbsence
  BY <1>1, <1>2 DEF FailureIsNotAbsence
<1> QED BY <1>3, InvariantHolds, PTL

(***************************************************************************)
(* For every call: a result is "verified" only with claims that a token of *)
(* the last response to its chunk, about that digest, signs.               *)
(***************************************************************************)
THEOREM VerifiedIsAlwaysSigned == Spec => []VerifiedWasSigned
<1>1. ASSUME IInv, NEW i \in DOMAIN results, results[i].status = "verified"
      PROVE  /\ heard[i] # NoReply
             /\ heard[i].code = 200
             /\ \E t \in TokensOf(heard[i], call.hashes[i]) \ {NoToken} :
                  Payload[t] = results[i].claims /\ Payload[t] # NoClaims
  <2> DEFINE h     == call.hashes[i]
             reply == heard[i]
  <2>1. reply \in Replies /\ reply # NoReply
    BY <1>1, AnsweredResult, ReplyShape
  <2>2. NotEnrolledResult(h).status # "verified" /\ LookupError(h).status # "verified"
    BY DEF NotEnrolledResult, LookupError, LookupResult
  <2>3. ASSUME NEW token \in DOMAIN Payload \cup {NoToken},
               FromToken(h, token).status = "verified"
        PROVE  /\ token # NoToken /\ Payload[token] # NoClaims
               /\ FromToken(h, token).claims = Payload[token]
    BY <2>2, <2>3, TokenResult DEF LookupResult
  <2>4. CASE call.op = "hash"
    <3>1. reply.code = 200 /\ results[i] = FromToken(h, reply.body.jws)
      BY <1>1, <2>2, <2>4, AnsweredResult
    <3>2. reply.body.jws \in TokensOf(reply, h) /\ reply.body.jws \in DOMAIN Payload \cup {NoToken}
      BY <2>1, <2>4, ReplyShape DEF TokensOf
    <3> QED BY <1>1, <2>1, <2>3, <3>1, <3>2
  <2>5. CASE call.op # "hash"
    <3> DEFINE entries == reply.body.entries
    <3>1. reply.code = 200 /\ results[i] = FromEntries(h, entries)
      BY <1>1, <2>2, <2>5, AnsweredResult
    <3>2. /\ Len(entries) \in Nat /\ DOMAIN entries = 1 .. Len(entries)
          /\ \A k \in DOMAIN entries : entries[k].jws \in DOMAIN Payload \cup {NoToken}
      BY <2>1, ReplyShape
    <3>3. TokensOf(reply, h) = {entries[k].jws : k \in {j \in DOMAIN entries : entries[j].sha = h}}
      BY <2>5 DEF TokensOf
    <3> HIDE DEF entries
    <3>4. PICK k \in DOMAIN entries :
            /\ entries[k].sha = h
            /\ results[i] = FromToken(h, entries[k].jws)
      BY <1>1, <2>2, <3>1, <3>2, FromLastEntry
    <3>5. entries[k].jws \in TokensOf(reply, h)
      BY <3>3, <3>4
    <3> QED BY <1>1, <2>1, <2>3, <3>1, <3>2, <3>4, <3>5
  <2> QED BY <2>4, <2>5
<1>2. IInv => VerifiedWasSigned
  BY <1>1 DEF VerifiedWasSigned
<1> QED BY <1>2, InvariantHolds, PTL

(***************************************************************************)
(* For every call: a sound entry of a response, the only one for a digest, *)
(* is that digest's result, whatever happened to the others.               *)
(***************************************************************************)
THEOREM AnswersAreAlwaysKept == Spec => []AnswersAreKept
<1>1. ASSUME IInv, NEW i \in DOMAIN results,
             call.op = "manifest", heard[i] # NoReply,
             heard[i].code = 200, heard[i].body.form = "object",
             NEW k \in DOMAIN heard[i].body.entries,
             {j \in DOMAIN heard[i].body.entries :
                heard[i].body.entries[j].sha = call.hashes[i]} = {k},
             SoundEntry(heard[i].body.entries[k])
      PROVE  results[i].status = heard[i].body.entries[k].status
  <2> DEFINE h       == call.hashes[i]
             entries == heard[i].body.entries
  <2>1. heard[i] \in Replies /\ results[i] = ResultOf(h, heard[i])
    BY <1>1, OneResult DEF ReplyOrNone
  <2>2. results[i] = FromEntries(h, entries)
    BY <1>1, <2>1 DEF ResultOf, Interpret
  <2>3. Len(entries) \in Nat /\ DOMAIN entries = 1 .. Len(entries)
    BY <2>1, ReplyShape
  <2>4. SoundEntry(entries[k]) /\ entries[k].sha = h
        /\ \A j \in DOMAIN entries : entries[j].sha = h => j = k
    BY <1>1
  <2> HIDE DEF entries, h
  <2>5. results[i] =
          IF entries[k].status = "not_enrolled" THEN NotEnrolledResult(h)
          ELSE IF entries[k].status = "verified" THEN FromToken(h, entries[k].jws)
          ELSE LookupError(h)
    BY <1>1, <2>2, <2>3, <2>4, FromLastEntry DEF entries
  <2>6. results[i].status = entries[k].status
    BY <2>4, <2>5 DEF SoundEntry, NotEnrolledResult, FromToken, LookupResult
  <2> QED BY <2>6 DEF entries
<1>2. IInv => AnswersAreKept
  BY <1>1 DEF AnswersAreKept
<1> QED BY <1>2, InvariantHolds, PTL

-----------------------------------------------------------------------------
(***************************************************************************)
(* Refinement.                                                             *)
(***************************************************************************)

\* What a call returns is an answer in the sense of HashLookup.
LEMMA ReturnedIsAnswer ==
  ASSUME IInv, Len(results) = Len(call.hashes)
  PROVE  Lookup!IsAnswer(results, call.hashes)
<1>1. DOMAIN results = DOMAIN call.hashes
  BY CallsAreSequences, LenProperties DEF IInv, LoopInv, SequencesInv
<1>2. ASSUME NEW i \in DOMAIN results
      PROVE  Lookup!IsResult(results[i], call.hashes[i])
  <2> DEFINE h     == call.hashes[i]
             reply == heard[i]
  <2>1. \A token \in DOMAIN Payload \cup {NoToken} : Lookup!IsResult(FromToken(h, token), h)
    BY TokenResult DEF Lookup!IsResult, Lookup!LookupResult, LookupResult, LookupError
  <2>2. Lookup!IsResult(LookupError(h), h) /\ Lookup!IsResult(NotEnrolledResult(h), h)
    BY DEF Lookup!IsResult, Lookup!LookupResult, LookupResult, LookupError, NotEnrolledResult
  <2>3. results[i] = ResultOf(h, reply) /\ reply \in ReplyOrNone
    BY OneResult
  <2>4. ASSUME reply \in Replies
        PROVE  /\ Lookup!IsResult(FromToken(h, reply.body.jws), h)
               /\ Lookup!IsResult(FromEntries(h, reply.body.entries), h)
    <3> DEFINE entries == reply.body.entries
    <3>1. /\ Len(entries) \in Nat /\ DOMAIN entries = 1 .. Len(entries)
          /\ reply.body.jws \in DOMAIN Payload \cup {NoToken}
          /\ \A k \in DOMAIN entries : entries[k].jws \in DOMAIN Payload \cup {NoToken}
      BY <2>4, ReplyShape
    <3> HIDE DEF entries
    <3>2. Lookup!IsResult(FromEntries(h, entries), h)
      BY <2>1, <2>2, <3>1, FromLastEntry
    <3> QED BY <2>1, <3>1, <3>2 DEF entries
  <2> QED BY <2>2, <2>3, <2>4 DEF ResultOf, Interpret, ReplyOrNone
<1> QED BY <1>1, <1>2 DEF Lookup!IsAnswer

(***************************************************************************)
(* Every call is a lookup as verify_groups sees it: one result per digest, *)
(* in order, or an exception.  Pending and Failed, the two values the      *)
(* refinement mapping gives a call that has not returned, must be none of  *)
(* the sequences of results.                                               *)
(***************************************************************************)
THEOREM ImplementsLookup ==
  ASSUME Pending # Failed,
         \A s \in Seq(Result) : s # Pending /\ s # Failed
  PROVE  Spec => ImplementsHashLookup
<1> DEFINE answer == CASE pc = "returned" -> results
                       [] pc = "crashed"  -> Failed
                       [] OTHER           -> Pending
<1>1. Init => Lookup!Init
  BY DEF Init, Lookup!Init
<1>2. IInv /\ IInv' /\ [Next]_vars => [Lookup!Next]_<<call.hashes, answer>>
  <2> SUFFICES ASSUME IInv, IInv', [Next]_vars
               PROVE  Lookup!Next \/ UNCHANGED <<call.hashes, answer>>
    OBVIOUS
  <2>1. CASE ReturnResults
    <3>1. pc = "send" /\ pc' = "returned" /\ call' = call /\ results' = results
      BY <2>1 DEF ReturnResults
    <3>2. results \in Seq(Result) /\ Len(results) = Len(call.hashes)
      BY <3>1 DEF IInv, SequencesInv
    <3>3. Lookup!IsAnswer(results, call.hashes)
      BY <3>2, ReturnedIsAnswer
    <3>4. answer = Pending /\ answer' = results /\ results # Pending /\ results # Failed
      BY <3>1, <3>2
    <3> QED BY <3>1, <3>3, <3>4 DEF Lookup!Next, Lookup!Return
  <2>2. CASE \E reply \in Replies : Crash(reply)
    <3>1. pc = "send" /\ pc' = "crashed" /\ call' = call
      BY <2>2 DEF Crash, CanRequest
    <3> QED BY <3>1 DEF Lookup!Next, Lookup!Raise
  <2>3. CASE RefuseMalformed \/ Wake \/ \E reply \in Replies : GoToSleep(reply) \/ TakeReply(reply)
    <3>1. /\ pc \in {"send", "asleep"} /\ pc' \in {"send", "asleep"} /\ call' = call
      BY <2>3 DEF RefuseMalformed, Wake, GoToSleep, TakeReply, CanRequest, FinishChunk
    <3> QED BY <3>1
  <2>4. CASE EndVerify \/ UNCHANGED vars
    BY <2>4 DEF EndVerify, vars
  <2> QED BY <2>1, <2>2, <2>3, <2>4 DEF Next, Request
<1> QED BY <1>1, <1>2, InvariantHolds, PTL DEF Spec, ImplementsHashLookup, Lookup!Spec

-----------------------------------------------------------------------------
(***************************************************************************)
(* Retries.                                                                *)
(***************************************************************************)

\* The chunks that were sent, by the first position of their results.
Asked == {i \in ChunkStarts : heard[i] # NoReply}

Underway == attempt + (IF pc \in {"asleep", "crashed"} THEN 1 ELSE 0)

\* As long as digests remain, the results end where a chunk ends; a request
\* that was retried was for digests that are well formed; and no request was
\* sent that is not accounted for.
BudgetInv ==
  /\ Len(results) < Len(call.hashes) => \E q \in Nat : Len(results) = MaxBatch * q
  /\ pc = "asleep" \/ attempt > 0 => ~HasMalformed(Chunk)
  /\ IsFiniteSet(Asked)
  /\ sent <= Cardinality(Asked) * (MaxRetries + 1) + Underway

\* In a chunk that begins at n, no other chunk begins.
LEMMA OneStart ==
  ASSUME NEW M \in Nat \ {0}, NEW q \in Nat, NEW n \in Nat, n = M * q,
         NEW i \in n + 1 .. n + M
  PROVE  (i - 1) % M = 0 <=> i = n + 1
<1> DEFINE r == i - 1 - n
           k == i - 1
<1>1. r \in 0 .. M - 1 /\ k = M * q + r
  OBVIOUS
<1>2. r = 0 <=> i = n + 1
  OBVIOUS
<1> HIDE DEF r, k
<1>3. k % M = r
  BY <1>1
<1> QED BY <1>2, <1>3 DEF k

\* Where the results stand when a chunk is done.
LEMMA NextChunkStarts ==
  ASSUME IInv, BudgetInv, Len(Chunk) > 0
  PROVE  /\ \E q \in Nat : Len(results) = MaxBatch * q
         /\ Len(results) + Len(Chunk) < Len(call.hashes) =>
              \E q \in Nat : Len(results) + Len(Chunk) = MaxBatch * q
<1>1. /\ Len(results) \in Nat /\ Len(Chunk) \in Nat /\ Len(call.hashes) \in Nat
      /\ Len(results) + Len(Chunk) <= Len(call.hashes) /\ Len(Chunk) <= MaxBatch
      /\ Len(Chunk) < MaxBatch => Len(results) + Len(Chunk) = Len(call.hashes)
      /\ MaxBatch \in Nat \ {0}
  BY ChunkOfCall, CallsAreSequences, LenProperties, ClientConstants DEF IInv, LoopInv
<1>2. Len(results) < Len(call.hashes)
  BY <1>1
<1>3. PICK q \in Nat : Len(results) = MaxBatch * q
  BY <1>2 DEF BudgetInv
<1>4. ASSUME Len(results) + Len(Chunk) < Len(call.hashes)
      PROVE  \E p \in Nat : Len(results) + Len(Chunk) = MaxBatch * p
  <2>1. Len(Chunk) = MaxBatch
    BY <1>1, <1>4
  <2>2. MaxBatch * (q + 1) = MaxBatch * q + MaxBatch
    BY <1>1
  <2>3. Len(results) + Len(Chunk) = MaxBatch * (q + 1)
    BY <1>3, <2>1, <2>2
  <2> QED BY <2>3
<1> QED BY <1>3, <1>4

\* Positions of a list that got longer are old ones or new ones.
LEMMA SplitRange ==
  ASSUME NEW a \in Nat, NEW b \in Nat \ {0}
  PROVE  /\ 1 .. a + b = (1 .. a) \cup (a + 1 .. a + b)
         /\ a + 1 \in a + 1 .. a + b /\ a + 1 \notin 1 .. a
<1>1. \A i \in 1 .. a + b : i \in 1 .. a \/ i \in a + 1 .. a + b
  OBVIOUS
<1>2. 1 .. a \subseteq 1 .. a + b /\ a + 1 .. a + b \subseteq 1 .. a + b
  OBVIOUS
<1> QED BY <1>1, <1>2

\* The end of a chunk adds its first position, if it was sent.
LEMMA ChunkAccounted ==
  ASSUME IInv, BudgetInv, Len(Chunk) > 0, NEW reply, NEW outcome,
         outcome = [i \in DOMAIN Chunk |-> outcome[i]],
         FinishChunk(Chunk, outcome, reply), call' = call
  PROVE  /\ Asked' = IF reply = NoReply THEN Asked ELSE Asked \cup {Len(heard) + 1}
         /\ Len(heard) + 1 \notin Asked
         /\ Len(results') < Len(call.hashes) =>
              \E q \in Nat : Len(results') = MaxBatch * q
<1> DEFINE n     == Len(heard)
           m     == Len(Chunk)
           again == [i \in DOMAIN Chunk |-> reply]
<1>1. /\ results \in Seq(Result) /\ heard \in Seq(ReplyOrNone) /\ n = Len(results)
      /\ n \in Nat /\ Chunk \in Seq(Strings) /\ m \in Nat \ {0}
      /\ DOMAIN Chunk = 1 .. m /\ DOMAIN heard = 1 .. n
      /\ m <= MaxBatch /\ MaxBatch \in Nat \ {0}
  BY ChunkOfCall, LenProperties, ClientConstants DEF IInv, SequencesInv
<1>2. heard' = heard \o again /\ results' = results \o outcome
  BY DEF FinishChunk
<1>3. IsList(again) /\ Len(again) = m /\ IsList(outcome) /\ Len(outcome) = m
  <2>1. again = [i \in 1 .. m |-> again[i]] /\ outcome = [i \in 1 .. m |-> outcome[i]]
    BY <1>1
  <2> HIDE DEF m, again
  <2> QED BY <1>1, <2>1, Lists
<1>4. again \in Seq({reply}) /\ \A j \in 1 .. m : again[j] = reply
  <2>1. again \in [1 .. m -> {reply}]
    BY <1>1
  <2>2. again \in Seq({reply})
    BY <1>1, <2>1, SeqDef
  <2> QED BY <1>1, <2>2
<1>5. outcome \in Seq({outcome[j] : j \in 1 .. m})
  <2> DEFINE V == {outcome[j] : j \in 1 .. m}
  <2>1. outcome = [i \in 1 .. m |-> outcome[i]]
    BY <1>1
  <2>2. \A i \in 1 .. m : outcome[i] \in V
    OBVIOUS
  <2> HIDE DEF m, V
  <2>3. outcome \in [1 .. m -> V]
    BY <2>1, <2>2
  <2>4. outcome \in Seq(V)
    BY <1>1, <2>3, SeqDef
  <2> QED BY <2>4 DEF V
<1> DEFINE S == ReplyOrNone \cup {reply}
           T == Result \cup {outcome[j] : j \in 1 .. m}
<1>6. heard \in Seq(S) /\ again \in Seq(S) /\ results \in Seq(T) /\ outcome \in Seq(T)
  BY <1>1, <1>4, <1>5, SeqMonotonic
<1> HIDE DEF n, m, again, S, T
<1>7. /\ DOMAIN heard' = 1 .. n + m
      /\ \A i \in 1 .. n + m : heard'[i] = IF i <= n THEN heard[i] ELSE again[i - n]
  BY <1>1, <1>2, <1>3, <1>6, ConcatProperties, LenProperties DEF n
<1>8. Len(results') = Len(results) + m
  BY <1>1, <1>2, <1>3, <1>6, ConcatProperties
<1>9. PICK q \in Nat : n = MaxBatch * q
  BY <1>1, NextChunkStarts
<1>10. \A i \in n + 1 .. n + m : (i - 1) % MaxBatch = 0 <=> i = n + 1
  <2>1. /\ MaxBatch \in Nat \ {0} /\ q \in Nat /\ n = MaxBatch * q
        /\ m \in Nat \ {0} /\ m <= MaxBatch
    BY <1>1, <1>9
  <2>2. \A i \in n + 1 .. n + m : n \in Nat /\ i \in n + 1 .. n + MaxBatch
    BY ONLY <1>1, <2>1
  <2>3. \A i \in n + 1 .. n + MaxBatch : n \in Nat => ((i - 1) % MaxBatch = 0 <=> i = n + 1)
    BY ONLY <2>1, OneStart
  <2> QED BY ONLY <2>2, <2>3
<1>11. \A i \in 1 .. n : heard'[i] = heard[i]
  BY <1>1, <1>7
<1>12. \A i \in n + 1 .. n + m : heard'[i] = reply
  <2> SUFFICES ASSUME NEW i \in n + 1 .. n + m PROVE heard'[i] = reply
    OBVIOUS
  <2>1. i \in 1 .. n + m /\ ~(i <= n) /\ i - n \in 1 .. m
    BY <1>1
  <2> QED BY <1>4, <1>7, <2>1
<1>13. /\ 1 .. n + m = (1 .. n) \cup (n + 1 .. n + m)
       /\ n + 1 \in n + 1 .. n + m /\ n + 1 \notin 1 .. n
  BY ONLY <1>1, SplitRange
<1>14. /\ Asked = {i \in 1 .. n : (i - 1) % MaxBatch = 0 /\ heard[i] # NoReply}
       /\ Asked' = {i \in 1 .. n + m : (i - 1) % MaxBatch = 0 /\ heard'[i] # NoReply}
  BY <1>1, <1>7 DEF Asked, ChunkStarts
<1>15. Asked' = IF reply = NoReply THEN Asked ELSE Asked \cup {n + 1}
  BY <1>10, <1>11, <1>12, <1>13, <1>14
<1>16. n + 1 \notin Asked
  BY <1>13, <1>14
<1>17. Len(results') < Len(call.hashes) => \E p \in Nat : Len(results') = MaxBatch * p
  BY <1>8, NextChunkStarts DEF m
<1> QED BY <1>15, <1>16, <1>17 DEF n

\* The sum of one more chunk.
LEMMA OneMore ==
  ASSUME NEW c \in Nat, NEW R \in Nat
  PROVE  (c + 1) * (R + 1) = c * (R + 1) + R + 1 /\ c * (R + 1) \in Nat
OBVIOUS

\* A step that ends no chunk.
LEMMA NoChunkEnds ==
  ASSUME BudgetInv, UNCHANGED <<call, results, heard>>
  PROVE  /\ Chunk' = Chunk /\ Asked' = Asked
         /\ (Len(results) < Len(call.hashes) => \E q \in Nat : Len(results) = MaxBatch * q)'
BY DEF BudgetInv, Chunk, Remaining, Asked, ChunkStarts

\* Every step keeps the account of the requests sent.
LEMMA StepBudget ==
  ASSUME IInv, BudgetInv, [Next]_vars
  PROVE  BudgetInv'
<1>0. /\ attempt \in Nat /\ attempt <= MaxRetries /\ sent \in Nat /\ MaxRetries \in Nat
      /\ IsFiniteSet(Asked) /\ Cardinality(Asked) \in Nat
  BY ClientConstants, FS_CardinalityType DEF IInv, LoopInv, BudgetInv
<1> DEFINE c == Cardinality(Asked)
           K == c * (MaxRetries + 1)
<1>00. /\ sent <= K + Underway /\ K \in Nat /\ c \in Nat
       /\ (c + 1) * (MaxRetries + 1) = K + MaxRetries + 1
  BY <1>0, OneMore DEF BudgetInv
<1>1. CASE RefuseMalformed
  <2>1. /\ pc = "send" /\ HasMalformed(Chunk) /\ UNCHANGED <<call, sent>>
        /\ FinishChunk(Chunk, AllErrors(Chunk), NoReply)
    BY <1>1 DEF RefuseMalformed
  <2>2. Len(Chunk) > 0
    <3>1. Len(Chunk) \in Nat /\ DOMAIN Chunk = 1 .. Len(Chunk)
      BY ChunkOfCall, LenProperties DEF IInv
    <3> QED BY <2>1, <3>1 DEF HasMalformed
  <2>3. AllErrors(Chunk) = [i \in DOMAIN Chunk |-> AllErrors(Chunk)[i]]
    BY DEF AllErrors
  <2>4. /\ Asked' = Asked
        /\ Len(results') < Len(call.hashes) => \E q \in Nat : Len(results') = MaxBatch * q
    BY <2>1, <2>2, <2>3, ChunkAccounted
  <2>5. pc' = "send" /\ attempt' = 0
    BY <2>1 DEF FinishChunk
  <2>6. Underway = 0 /\ Underway' = 0
    BY <1>0, <2>1, <2>5 DEF BudgetInv, Underway
  <2> QED BY <1>0, <1>00, <2>1, <2>4, <2>5, <2>6 DEF BudgetInv
<1>2. CASE ReturnResults
  <2>1. /\ pc = "send" /\ pc' = "returned"
        /\ UNCHANGED <<call, results, heard, attempt, sent>>
    BY <1>2 DEF ReturnResults
  <2>2. Underway' = Underway
    BY <2>1 DEF Underway
  <2> QED BY <2>1, <2>2, NoChunkEnds DEF BudgetInv, HasMalformed
<1>3. ASSUME NEW reply \in Replies, GoToSleep(reply)
      PROVE  BudgetInv'
  <2>1. /\ pc = "send" /\ pc' = "asleep" /\ ~HasMalformed(Chunk) /\ sent' = sent + 1
        /\ UNCHANGED <<call, results, heard, attempt>>
    BY <1>3 DEF GoToSleep, CanRequest
  <2>2. Underway' = Underway + 1 /\ Underway \in Nat
    BY <1>0, <2>1 DEF Underway
  <2>3. Asked' = Asked /\ Chunk' = Chunk
    BY <2>1, NoChunkEnds
  <2>4. sent' <= K + Underway'
    BY <1>0, <1>00, <2>1, <2>2
  <2> QED BY <1>0, <2>1, <2>3, <2>4, NoChunkEnds DEF BudgetInv, HasMalformed
<1>4. ASSUME NEW reply \in Replies, TakeReply(reply)
      PROVE  BudgetInv'
  <2> DEFINE outcome == IF reply.code = 0 THEN AllErrors(Chunk)
                        ELSE [i \in DOMAIN Chunk |-> Interpret(Chunk[i], reply)]
  <2>1. /\ pc = "send" /\ call' = call /\ sent' = sent + 1 /\ CanRequest
        /\ FinishChunk(Chunk, outcome, reply)
    BY <1>4 DEF TakeReply, CanRequest
  <2>2. Len(Chunk) > 0
    <3>1. Remaining # <<>>
      BY <2>1 DEF CanRequest
    <3>2. Len(results) < Len(call.hashes)
      <4>1. /\ call.hashes \in Seq(Strings) /\ Len(call.hashes) \in Nat
            /\ Len(results) \in Nat /\ Len(results) <= Len(call.hashes)
        BY ChunkOfCall, CallsAreSequences, LenProperties DEF IInv, LoopInv, SequencesInv
      <4>2. ASSUME Len(results) = Len(call.hashes) PROVE FALSE
        BY <3>1, <4>1, <4>2, SubSeqEmpty DEF Remaining
      <4> QED BY <4>1, <4>2
    <3>3. /\ Len(results) \in Nat /\ Len(call.hashes) \in Nat /\ Len(Chunk) \in Nat
          /\ Len(Chunk) < MaxBatch => Len(results) + Len(Chunk) = Len(call.hashes)
          /\ MaxBatch \in Nat \ {0}
      BY ChunkOfCall, CallsAreSequences, LenProperties, ClientConstants DEF IInv, LoopInv
    <3> QED BY <3>2, <3>3
  <2>3. outcome = [i \in DOMAIN Chunk |-> outcome[i]]
    BY DEF AllErrors
  <2>4. reply # NoReply
    BY ReplyShape
  <2> HIDE DEF outcome
  <2>5. /\ Asked' = Asked \cup {Len(heard) + 1} /\ Len(heard) + 1 \notin Asked
        /\ Len(results') < Len(call.hashes) => \E q \in Nat : Len(results') = MaxBatch * q
    BY <2>1, <2>2, <2>3, <2>4, ChunkAccounted
  <2>6. IsFiniteSet(Asked') /\ Cardinality(Asked') = c + 1
    BY <1>0, <2>5, FS_AddElement
  <2>7. pc' = "send" /\ attempt' = 0
    BY <2>1 DEF FinishChunk
  <2>8. Underway = attempt /\ Underway' = 0
    BY <1>0, <2>1, <2>7 DEF Underway
  <2>9. sent' <= (c + 1) * (MaxRetries + 1) + Underway'
    BY <1>0, <1>00, <2>1, <2>8
  <2> QED BY <2>1, <2>5, <2>6, <2>7, <2>9 DEF BudgetInv
<1>5. ASSUME NEW reply \in Replies, Crash(reply)
      PROVE  BudgetInv'
  <2>1. /\ pc = "send" /\ pc' = "crashed" /\ ~HasMalformed(Chunk) /\ sent' = sent + 1
        /\ UNCHANGED <<call, results, heard, attempt>>
    BY <1>5 DEF Crash, CanRequest
  <2>2. Underway' = Underway + 1 /\ Underway \in Nat
    BY <1>0, <2>1 DEF Underway
  <2>3. Asked' = Asked /\ Chunk' = Chunk
    BY <2>1, NoChunkEnds
  <2>4. sent' <= K + Underway'
    BY <1>0, <1>00, <2>1, <2>2
  <2> QED BY <1>0, <2>1, <2>3, <2>4, NoChunkEnds DEF BudgetInv, HasMalformed
<1>6. CASE Wake
  <2>1. /\ pc = "asleep" /\ pc' = "send" /\ attempt' = attempt + 1
        /\ UNCHANGED <<call, results, heard, sent>>
    BY <1>6 DEF Wake
  <2>2. Underway' = Underway
    BY <1>0, <2>1 DEF Underway
  <2> QED BY <2>1, <2>2, NoChunkEnds DEF BudgetInv, HasMalformed
<1>7. CASE EndVerify \/ UNCHANGED vars
  <2>1. UNCHANGED <<call, results, pc, attempt, heard, sent>>
    BY <1>7 DEF EndVerify, vars
  <2> QED BY <2>1, NoChunkEnds DEF BudgetInv, HasMalformed, Underway
<1> QED BY <1>1, <1>2, <1>3, <1>4, <1>5, <1>6, <1>7 DEF Next, Request

(***************************************************************************)
(* The client stops asking: at most MaxRetries + 1 requests for each chunk *)
(* of a call that is well formed, none for one that is not (_request).     *)
(***************************************************************************)
THEOREM RequestsAreBounded == Spec => []RequestBudget
<1>1. Init => BudgetInv
  <2> SUFFICES ASSUME Init PROVE BudgetInv
    OBVIOUS
  <2>1. Len(results) = 0 /\ heard = <<>> /\ attempt = 0 /\ sent = 0 /\ pc = "send"
    BY EmptySeq DEF Init
  <2>2. Asked = {}
    BY <2>1 DEF Asked, ChunkStarts
  <2>3. IsFiniteSet(Asked) /\ Cardinality(Asked) = 0
    BY <2>2, FS_EmptySet
  <2>4. MaxBatch * 0 = 0 /\ 0 * (MaxRetries + 1) = 0
    BY ClientConstants
  <2>5. Underway = 0
    BY <2>1 DEF Underway
  <2> QED BY <2>1, <2>3, <2>4, <2>5 DEF BudgetInv
<1>2. IInv /\ BudgetInv /\ [Next]_vars => BudgetInv'
  BY StepBudget
<1>3. IInv /\ BudgetInv => RequestBudget
  <2> SUFFICES ASSUME IInv, BudgetInv PROVE RequestBudget
    OBVIOUS
  <2>1. Underway <= MaxRetries + 1
    BY ClientConstants DEF Underway, IInv, LoopInv
  <2> QED BY <2>1 DEF RequestBudget, BudgetInv, Asked, Underway
<1> QED BY <1>1, <1>2, <1>3, InvariantHolds, PTL DEF Spec

\* A wait is as long as the backoff and as what the service asked for.
Patient ==
  pc = "asleep" =>
    /\ attempt < MaxRetries
    /\ wait >= backoff
    /\ advice # NoHeader => advice \in Nat /\ wait >= advice

\* The backoff of a new request is InitialBackoff; a retry doubles it.
BackoffDoubles ==
  \/ UNCHANGED <<attempt, backoff>>
  \/ attempt' = 0 /\ backoff' = InitialBackoff
  \/ attempt' = attempt + 1 /\ backoff' = 2 * backoff

\* The backoff of a request changes only when it is retried, and is doubled then.
LEMMA BackoffIsDoubled == [Next]_vars => BackoffDoubles
BY DEF Next, Request, RefuseMalformed, ReturnResults, Wake, EndVerify, GoToSleep,
   TakeReply, Crash, FinishChunk, BackoffDoubles, vars

(***************************************************************************)
(* The client is patient: it never sleeps after the last attempt, sleeps   *)
(* at least the backoff and at least what a Retry-After that it can read   *)
(* asked for, and each retry doubles the backoff (_request).               *)
(***************************************************************************)
THEOREM WaitsAreLongEnough == Spec => []Patient /\ [][BackoffDoubles]_vars
<1>1. Init => Patient
  BY DEF Init, Patient
<1>2. IInv /\ Patient /\ [Next]_vars => Patient'
  <2> SUFFICES ASSUME IInv, Patient, [Next]_vars, pc' = "asleep" PROVE Patient'
    BY DEF Patient
  <2>1. CASE \E reply \in Replies : GoToSleep(reply)
    <3>1. PICK reply \in Replies : GoToSleep(reply)
      BY <2>1
    <3>2. /\ attempt < MaxRetries /\ UNCHANGED <<attempt, backoff>>
          /\ ~CannotSleep(reply) /\ wait' = WaitFor(reply)
          /\ advice' = IF reply.code = 0 THEN NoHeader ELSE reply.retryAfter
      BY <3>1 DEF GoToSleep, Retried
    <3>3. backoff \in Nat /\ reply.retryAfter \in Nat \cup {NoHeader, Infinite}
      BY ReplyShape DEF IInv, LoopInv
    <3>4. wait' >= backoff /\ (advice' # NoHeader => advice' \in Nat /\ wait' >= advice')
      BY <3>2, <3>3 DEF WaitFor, CannotSleep
    <3> QED BY <3>2, <3>4 DEF Patient
  <2>2. CASE UNCHANGED vars
    BY <2>2 DEF vars, Patient
  <2>3. CASE RefuseMalformed \/ ReturnResults \/ Wake \/ EndVerify
             \/ \E reply \in Replies : TakeReply(reply) \/ Crash(reply)
    BY <2>3 DEF RefuseMalformed, ReturnResults, Wake, EndVerify, TakeReply, Crash, FinishChunk
  <2> QED BY <2>1, <2>2, <2>3 DEF Next, Request
<1>3. [Next]_vars => BackoffDoubles
  BY BackoffIsDoubled
<1> QED BY <1>1, <1>2, <1>3, InvariantHolds, PTL DEF Spec

(***************************************************************************)
(* PatientRetry as the run states it: before attempt n + 1 the client      *)
(* sleeps at least 2^n initial backoffs.  The provers know 2^0, but not    *)
(* the law of exponents, so the law is a hypothesis; it is used for the    *)
(* attempts there are (_request).                                          *)
(***************************************************************************)
THEOREM RetriesArePatient ==
  ASSUME \A n \in 0 .. MaxRetries : 2 ^ (n + 1) = 2 * 2 ^ n
  PROVE  Spec => []PatientRetry
<1> DEFINE Doubled == backoff = 2 ^ attempt
<1>1. Init => Doubled
  BY DEF Init, InitialBackoff
<1>2. IInv /\ Doubled /\ [Next]_vars => Doubled'
  <2> SUFFICES ASSUME IInv, Doubled, [Next]_vars PROVE Doubled'
    OBVIOUS
  <2>1. BackoffDoubles
    BY BackoffIsDoubled
  <2>2. attempt \in 0 .. MaxRetries
    BY DEF IInv, LoopInv
  <2>3. CASE UNCHANGED <<attempt, backoff>>
    BY <2>3
  <2>4. CASE attempt' = 0 /\ backoff' = InitialBackoff
    BY <2>4 DEF InitialBackoff
  <2>5. CASE attempt' = attempt + 1 /\ backoff' = 2 * backoff
    BY <2>2, <2>5
  <2> QED BY <2>1, <2>3, <2>4, <2>5 DEF BackoffDoubles
<1>3. IInv /\ Doubled /\ Patient => PatientRetry
  BY DEF Patient, PatientRetry, InitialBackoff, IInv, LoopInv
<1> HIDE DEF Doubled
<1>4. Spec => []Doubled
  BY <1>1, <1>2, InvariantHolds, PTL DEF Spec
<1> QED BY <1>3, <1>4, InvariantHolds, WaitsAreLongEnough, PTL

=============================================================================
