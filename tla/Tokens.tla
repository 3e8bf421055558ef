------------------------------- MODULE Tokens -------------------------------
(***************************************************************************)
(* The tokens of the C backend, service-core/src/jwt.c: what               *)
(* sc_jwt_sign_hs256 writes into a buffer of a given size, and what        *)
(* sc_jwt_verify_hs256 says of a token.                                    *)
(*                                                                         *)
(* A JSON document is the sequence of its members.  A segment of a token   *)
(* decodes or does not, and parses or does not; a signature is the secret  *)
(* and the two segments it was made over, which is what a keyed hash is to *)
(* everyone without the secret.  libsodium and arnm are external.          *)
(***************************************************************************)
EXTENDS Integers, Sequences, FiniteSets

HEADER_LEN == 20
SIGNATURE_LEN == 43
SC_JWT_MAX_CLAIM == 128

Text(key, text, size) == [key |-> key, type |-> "string", text |-> text, num |-> size]
Number(key, num) == [key |-> key, type |-> "int64", text |-> "", num |-> num]
\* A document as it arrives in a segment.
Segment(members) == [decodes |-> TRUE, parses |-> TRUE, members |-> members]
HS256 == Segment(<<Text("alg", "HS256", 5)>>)

\* External: the keyed hash, and the length of a document in base64url.
hmac_sha256(secret, header, payload) == [secret |-> secret, header |-> header, payload |-> payload]
EncodedLen(members) == 10 * Len(members) + (members[1].num + 2) \div 3

-----------------------------------------------------------------------------
(* Signing.                                                                  *)

\* UNSET is an issuer or an audience nobody configured.
UNSET == ""
Optional(key, text) == IF text = UNSET THEN <<>> ELSE <<Text(key, text, 1)>>

Payload(config, claim, value, size, now, ttl) ==
    <<Text(claim, value, size), [key |-> "urn:gradido:claim", type |-> "bool", text |-> "", num |-> 1],
      Number("iat", now)>>
    \o Optional("iss", config.issuer) \o Optional("aud", config.audience) \o <<Number("exp", now + ttl)>>

\* The encoder writes a terminator behind the characters it is asked for.
base64url_encode(written, length, out_size) == out_size - written >= length + 1

\* The token and the bytes it takes, terminator included; or the refusal.
sc_jwt_sign_hs256(config, claim, value, size, now, ttl, out_size) ==
    LET payload == Segment(Payload(config, claim, value, size, now, ttl))
        length == EncodedLen(payload.members)
        body == HEADER_LEN + 1 + length
    IN  IF \/ HEADER_LEN + 1 > out_size
           \/ ~base64url_encode(HEADER_LEN + 1, length, out_size)
           \/ body + 1 > out_size
           \/ ~base64url_encode(body + 1, SIGNATURE_LEN, out_size)
           \/ body + 1 + SIGNATURE_LEN + 1 > out_size
        THEN [fits |-> FALSE]
        ELSE [fits |-> TRUE, bytes |-> body + 1 + SIGNATURE_LEN + 1,
              token |-> [dots |-> 2, header |-> HS256, payload |-> payload,
                         signature |-> hmac_sha256(config.secret, HS256, payload)]]

-----------------------------------------------------------------------------
(* Verifying.                                                                *)

\* A walk of the members with a table of the names and types it wants: a member of a wanted
\* name and another type stops it, and what stands behind that member is not read.
Walk(members, table) ==
    LET stops == {i \in DOMAIN members : \E f \in table :
                    f.key = members[i].key /\ f.type # members[i].type}
    IN  {members[i] : i \in {i \in DOMAIN members :
            /\ [key |-> members[i].key, type |-> members[i].type] \in table
            /\ \A s \in stops : i < s}}
Field(key, type) == [key |-> key, type |-> type]
Found(read, key) == \E m \in read : m.key = key
ValueOf(read, key) == CHOOSE m \in read : m.key = key
block_is(read, key, expected) == Found(read, key) /\ ValueOf(read, key).text = expected

\* Mutant: exp is checked only where it stands.
LapsedIfThere(read, now) ==
    IF Found(read, "exp") /\ ValueOf(read, "exp").num <= now THEN "EXPIRED" ELSE "OK"

Lapsed(read, now) ==
    IF ~Found(read, "exp") THEN "MISSING_CLAIM"
    ELSE IF ValueOf(read, "exp").num <= now THEN "EXPIRED"
    ELSE "OK"

\* The claim the caller asked for, in a walk of its own.
ClaimIsThere(members, claim) ==
    LET read == Walk(members, {Field(claim, "string")})
    IN  Found(read, claim) /\ ValueOf(read, claim).num \in 1..SC_JWT_MAX_CLAIM - 1

\* Made by whom and for whom the configuration says, where it says so; the audience has a walk of
\* its own.
Addressed(config, members, read) ==
    LET aud == Walk(members, {Field("aud", "string")})
    IN  IF config.issuer # UNSET /\ ~block_is(read, "iss", config.issuer) THEN "BAD_ISSUER"
        ELSE IF config.audience # UNSET /\ ~block_is(aud, "aud", config.audience) THEN "BAD_AUDIENCE"
        ELSE "OK"

sc_jwt_verify_hs256(config, token, claim, now) ==
    LET members == token.payload.members
        alg == Walk(token.header.members, {Field("alg", "string")})
        read == Walk(members, {Field("iss", "string"), Field("exp", "int64")})
    IN  IF token.dots < 2 THEN "MALFORMED"
        ELSE IF token.signature # hmac_sha256(config.secret, token.header, token.payload) THEN "BAD_SIGNATURE"
        ELSE IF ~token.header.decodes \/ ~token.payload.decodes \/ ~token.header.parses THEN "MALFORMED"
        ELSE IF ~block_is(alg, "alg", "HS256") THEN "BAD_ALGORITHM"
        ELSE IF ~token.payload.parses THEN "MALFORMED"
        ELSE IF Lapsed(read, now) # "OK" THEN Lapsed(read, now)
        ELSE IF Addressed(config, members, read) # "OK" THEN Addressed(config, members, read)
        ELSE IF ClaimIsThere(members, claim) THEN "OK" ELSE "MISSING_CLAIM"

-----------------------------------------------------------------------------
(* What the tokens promise.  A question is a configuration, a token made     *)
(* under a secret, the claim that is asked for and the time.                 *)

Has(members, key, Test(_)) == \E i \in DOMAIN members : members[i].key = key /\ Test(members[i])

\* What a token has to be to be taken, said of the document and not of the walks.
Vouched(q) ==
    LET members == q.token.payload.members
    IN  /\ q.token.signature = hmac_sha256(q.config.secret, q.token.header, q.token.payload)
        /\ Has(q.token.header.members, "alg", LAMBDA m : m.type = "string" /\ m.text = "HS256")
        /\ Has(members, "exp", LAMBDA m : m.type = "int64" /\ m.num > q.at)
        /\ q.config.issuer # UNSET => Has(members, "iss", LAMBDA m : m.text = q.config.issuer)
        /\ q.config.audience # UNSET => Has(members, "aud", LAMBDA m : m.text = q.config.audience)
        /\ Has(members, q.claim, LAMBDA m : m.type = "string" /\ m.num \in 1..SC_JWT_MAX_CLAIM - 1)

\* The members the verifier has an opinion about have the types it reads.
Typed(q) ==
    \A i \in DOMAIN q.token.payload.members : LET m == q.token.payload.members[i] IN
        /\ m.key \in {"iss", q.claim} => m.type = "string"
        /\ m.key = "exp" => m.type = "int64"

\* jwt.c: a token is taken only if it is vouched for, unexpired and made for this service, however
\* its members are ordered and whatever their types; such a token is taken when its members have
\* their types; and nothing about a token is said before its signature is right.
VerifiesTruly(q) ==
    LET result == sc_jwt_verify_hs256(q.config, q.token, q.claim, q.at)
        whole == q.token.dots = 2 /\ \A s \in {q.token.header, q.token.payload} : s.decodes /\ s.parses
    IN  /\ result = "OK" => whole /\ Vouched(q)
        /\ whole /\ Vouched(q) /\ Typed(q) => result = "OK"
        /\ result \notin {"MALFORMED", "BAD_SIGNATURE"} => q.token.signature.secret = q.config.secret

\* jwt.c: what is signed fits the buffer it was signed into, terminator included, is refused only
\* where it would not fit, and is taken under the same configuration until it expires.
SignsTruly(s) ==
    LET signed == sc_jwt_sign_hs256(s.config, "id", "ann", s.size, s.at, s.ttl, s.out_size)
        needed == HEADER_LEN + SIGNATURE_LEN + 3
                  + EncodedLen(Payload(s.config, "id", "ann", s.size, s.at, s.ttl))
    IN  /\ signed.fits <=> needed <= s.out_size
        /\ signed.fits => \A later \in s.at..s.at + s.ttl :
            (sc_jwt_verify_hs256(s.config, signed.token, "id", later) = "OK")
                <=> (later < s.at + s.ttl /\ s.size \in 1..SC_JWT_MAX_CLAIM - 1)
=============================================================================
