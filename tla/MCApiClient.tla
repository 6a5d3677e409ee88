---------------------------- MODULE MCApiClient -----------------------------
(***************************************************************************)
(* ApiClient with chunks of two digests, so that a call of three has a     *)
(* full and a short chunk, and the code's number of retries.               *)
(***************************************************************************)
EXTENDS ApiClient

CONSTANTS h1, h2, bad, upper, good, forged, rec

MCWellFormed == {h1, h2}

MCLowered == [s \in {h1, h2, bad, upper} |-> IF s = upper THEN h1 ELSE s]

MCRequested ==
  {[op |-> "hash", hashes |-> <<h>>] : h \in {h1, upper, bad}} \cup
  {[op |-> "manifest", hashes |-> hs] :
     hs \in {<<>>, <<h1, h2>>, <<h1, bad, h2>>, <<h2, h1, h1>>}}

MCPayload == [t \in {good, forged} |-> IF t = good THEN rec ELSE NoClaims]

Entry(h, status, token) == [sha |-> h, status |-> status, jws |-> token]

Body(form, token, entries) == [form |-> form, jws |-> token, entries |-> entries]

NoBody == Body("bad", NoToken, <<>>)

Reply(code, retryAfter, body) ==
  [code |-> code, retryAfter |-> retryAfter, body |-> body]

MCBodies ==
  {NoBody,
   Body("other", NoToken, <<>>),
   Body("object", NoToken, <<Entry(h1, "verified", NoToken)>>),
   Body("object", forged, <<Entry(h1, "verified", forged),
                            Entry(h2, "not_enrolled", NoToken)>>),
   Body("object", good, <<Entry(h2, "verified", good),
                          Entry(h1, "not_enrolled", NoToken),
                          Entry(h2, "unheard_of", good)>>),
   Body("object", good, <<Entry(h1, "not_enrolled", NoToken),
                          Entry(h1, "verified", good)>>)}

MCReplies ==
  {Reply(0, NoHeader, NoBody), Reply(404, NoHeader, NoBody),
   Reply(500, NoHeader, NoBody)} \cup
  {Reply(code, after, NoBody) :
     code \in {429, 503}, after \in {NoHeader, 0, 3, Infinite}} \cup
  {Reply(200, NoHeader, body) : body \in MCBodies}

=============================================================================
