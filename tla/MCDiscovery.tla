---------------------------- MODULE MCDiscovery -----------------------------
(***************************************************************************)
(* Discovery over three places, one of which Ollama and LM Studio have as  *)
(* their default, on every file system, with one change at any moment.     *)
(***************************************************************************)
EXTENDS Discovery

CONSTANTS a, b, c

MCPlaces == {a, b, c}
MCLayouts == [MCPlaces -> Kinds]

Default(chain, ollama) == [paths |-> <<>>, chain |-> chain, ollama |-> ollama]
Explicit(paths) == [paths |-> paths, chain |-> <<a>>, ollama |-> NoPlace]

MCInvocations ==
  {Default(<<a, b, a>>, NoPlace), Default(<<a, b>>, b), Default(<<b>>, a),
   Explicit(<<a>>), Explicit(<<b, c>>), Explicit(<<c, c>>)}

=============================================================================
