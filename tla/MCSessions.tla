----------------------------- MODULE MCSessions -----------------------------
(***************************************************************************)
(* Sessions of both paths: the table of the C cache, the store of the      *)
(* TypeScript backend, and the tokens of the C backend.  Which of them is  *)
(* looked at is chosen at the start; the others stay as they are.          *)
(***************************************************************************)
EXTENDS SessionStore, Tokens, TLC

CONSTANTS u1, u2, k1, k2, k3, e1, e2, e3, e4, NULL, ann, bob

MCUsers == {ann, bob}

VARIABLES
    part,       \* "cache", "store" or "tokens"
    slots, refs, keyOf, created, alive, pc, key, read, entry, displaced, step, victim, rank, clock,
    open,       \* the cache's
    question    \* what is asked of the tokens

\* Room for a full table and an entry in every caller's hands.
Memory == {e1, e2, e3, e4}
MCSymmetry == Permutations({u1, u2}) \union Permutations(Memory)

\* Two requests, and keys of which two share their first slot, with a window that wraps around
\* the end of the table.
Cache == INSTANCE SessionCache WITH
    Users <- {u1, u2}, Keys <- {k1, k2, k3}, Entries <- Memory, Capacity <- 4, Probe <- 2,
    Home <- (k1 :> 3) @@ (k2 :> 3) @@ (k3 :> 0), HardTimeout <- 1, MaxTime <- 1, now <- read

\* What SessionCacheProofs asks of the sizes holds of these.
ASSUME CacheSizes == Cache!Sizes

cacheVars == <<slots, refs, keyOf, created, alive, pc, key, read, entry, displaced, step, victim,
               rank, clock, open>>

-----------------------------------------------------------------------------
(* The questions: tokens with every choice of members, types and order.      *)

Configs == [secret : {"ours"}, issuer : {UNSET, "gradido"}, audience : {UNSET, "gradido"}]
Claimed == {<<>>, <<Number("id", 1)>>} \union {<<Text("id", "ann", n)>> : n \in {0, 1, 127, 128}}
Given(name) == {<<>>, <<Text(name, "gradido", 7)>>, <<Text(name, "other", 5)>>, <<Number(name, 1)>>}
Expiries == {<<>>, <<Number("exp", 1)>>, <<Number("exp", 2)>>, <<Text("exp", "2", 1)>>}
Documents ==
    {Segment(id \o iss \o aud \o exp) : id \in Claimed, iss \in Given("iss"), aud \in Given("aud"),
                                        exp \in Expiries}
    \union {Segment(exp \o iss \o aud \o id) : id \in Claimed, iss \in Given("iss"),
                                               aud \in Given("aud"), exp \in Expiries}
Good == Segment(Payload([issuer |-> "gradido", audience |-> "gradido"], "id", "ann", 3, 0, 2))
Headers == {HS256, Segment(<<Text("typ", "JWT", 3), Text("alg", "HS256", 5)>>),
            Segment(<<Text("alg", "none", 4)>>), Segment(<<Number("alg", 1)>>), Segment(<<>>),
            [HS256 EXCEPT !.decodes = FALSE], [HS256 EXCEPT !.parses = FALSE]}
Payloads == {Good, [Good EXCEPT !.decodes = FALSE], [Good EXCEPT !.parses = FALSE]}
Token(dots, header, payload, secret) ==
    [dots |-> dots, header |-> header, payload |-> payload,
     signature |-> hmac_sha256(secret, header, payload)]
OtherTokens == {Token(dots, header, payload, secret) : dots \in 0 .. 2, header \in Headers,
                                                      payload \in Payloads, secret \in {"ours", "theirs"}}
Verifying ==
    [kind : {"verify"}, config : Configs, claim : {"id", "iss"}, at : 0 .. 1,
     token : {Token(2, HS256, d, "ours") : d \in Documents} \union OtherTokens]
Signing ==
    [kind : {"sign"}, config : Configs, size : {0, 1, 40, 127, 128}, at : 0 .. 1, ttl : 0 .. 2,
     out_size : {0, 20, 21, 512} \union 105 .. 175]

-----------------------------------------------------------------------------
MCInit ==
    /\ part \in {"cache", "store", "tokens"}
    /\ Init /\ Cache!Init
    /\ part # "store" => now = 0
    /\ question \in IF part = "tokens" THEN Verifying \union Signing ELSE {[kind |-> "none"]}

\* Users are alike before the first of them has a session: one stands for both.
StartsWithAnn == handed = <<>> /\ handed' # <<>> => handed'[1].claims.user = ann

MCNext ==
    \/ part = "store" /\ Next /\ StartsWithAnn /\ UNCHANGED <<part, cacheVars, question>>
    \/ part = "cache" /\ Cache!Next /\ UNCHANGED <<part, vars, question>>
    \/ part = "tokens" /\ UNCHANGED <<part, vars, cacheVars, question>>

MCSpec == MCInit /\ [][MCNext]_<<part, vars, cacheVars, question>>

-----------------------------------------------------------------------------
(* Properties of the parts that are not in SessionStore, stated where they   *)
(* are modelled.                                                             *)

\* The cache's table and its counts say what is there, and nothing that is reached was freed
\* (sc_cache_get, _put, _release, _destroy).
TableIsTrue == part = "cache" => Cache!TableIsTrue

\* Every lookup, insertion and eviction of the cache is a step of CacheContents (cache.h).
\* Its steps need not be looked for where the cache does not move.
KeepsContents ==
    /\ Cache!Contents!Init
    /\ [][part = "cache" => [Cache!Contents!Next]_(Cache!Contents!vars)]_cacheVars

\* Tokens are verified for what they say, and what is signed fits and is taken until it expires
\* (sc_jwt_verify_hs256, sc_jwt_sign_hs256).
TokensVerify ==
    /\ question.kind = "verify" => VerifiesTruly(question)
    /\ question.kind = "sign" => SignsTruly(question)
=============================================================================
