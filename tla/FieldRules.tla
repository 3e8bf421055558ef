----------------------------- MODULE FieldRules -----------------------------
(***************************************************************************)
(* The rules a registration's fields are held to, twice: field_rules.c and *)
(* apply_field_rule of user_routes.c over the bytes of a JSON string, and  *)
(* the valibot pipes of packages/shared/src/schemas over a JavaScript      *)
(* string.  Both answer with the first rule that refuses.                  *)
(*                                                                         *)
(* A text is a sequence of code points; the C rules see its UTF-8 bytes.   *)
(***************************************************************************)
EXTENDS Integers, Sequences, SequencesExt, FiniteSetsExt

\* The fields of a registration: their lengths, and the email's own rule.
Rule(min, max, is_email) == [min_length |-> min, max_length |-> max, is_email |-> is_email]

\* UTF-8, as the client's encoder writes it.
Utf8Of(code) ==
    LET Low(k) == 128 + ((code \div (64^k)) % 64)
    IN  IF code < 128 THEN <<code>>
        ELSE IF code < 2048 THEN <<192 + code \div 64, Low(0)>>
        ELSE IF code < 65536 THEN <<224 + code \div 4096, Low(1), Low(0)>>
        ELSE <<240 + code \div 262144, Low(2), Low(1), Low(0)>>

Utf8(text) == FlattenSeq([i \in DOMAIN text |-> Utf8Of(text[i])])

-----------------------------------------------------------------------------
(* field_rules.c: over bytes.                                                *)

Follows(byte) == byte \in 128..191

\* decode: the code point at a byte, and its width; what is not a sequence is one byte.
decode(text, index) ==
    LET first == text[index]
        needed == IF first \in 192..223 THEN 1 ELSE IF first \in 224..239 THEN 2
                  ELSE IF first \in 240..247 THEN 3 ELSE 0
        start == IF needed = 1 THEN first - 192 ELSE IF needed = 2 THEN first - 224 ELSE first - 240
        next == SubSeq(text, index + 1, index + needed)
    IN  IF needed = 0 \/ index + needed > Len(text) \/ \E i \in 1..needed : ~Follows(next[i])
        THEN [code |-> first, width |-> 1]
        ELSE [code |-> FoldLeft(LAMBDA v, b : v * 64 + (b - 128), start, next),
              width |-> needed + 1]

\* A surrogate pair is two units.
UnitsOf(code) == IF code > 65535 THEN 2 ELSE 1

RECURSIVE bk_utf16_length(_)
bk_utf16_length(text) ==
    LET From(at) == UnitsOf(at.code) + bk_utf16_length(SubSeq(text, at.width + 1, Len(text)))
    IN  IF text = <<>> THEN 0 ELSE From(decode(text, 1))

is_js_space(code) ==
    code \in {9, 10, 11, 12, 13, 32, 160, 5760, 8232, 8233, 8239, 8287, 12288, 65279}
             \cup 8192..8202

\* The first loop of bk_trim: how many bytes of white space stand in front.
RECURSIVE SpaceBefore(_, _)
SpaceBefore(text, start) ==
    LET Past(at) == IF is_js_space(at.code) THEN SpaceBefore(text, start + at.width) ELSE start
    IN  IF start = Len(text) THEN start ELSE Past(decode(text, start + 1))

\* Its second: back to the first byte of the last character, and off with it if it is white.
RECURSIVE SpaceBehind(_, _, _)
SpaceBehind(text, start, end) ==
    LET last == Max({i \in (start + 1)..end : i = start + 1 \/ ~Follows(text[i])})
        Off(at) == IF last + at.width # end + 1 \/ ~is_js_space(at.code) THEN end
                   ELSE SpaceBehind(text, start, last - 1)
    IN  IF end <= start THEN end ELSE Off(decode(text, last))

bk_trim(text) ==
    LET From(start) == SubSeq(text, start + 1, SpaceBehind(text, start, Len(text)))
    IN  From(SpaceBefore(text, 0))

Letters == 65..90 \cup 97..122
\* is_label_char and is_local_char, as the sets of bytes they hold of.
LabelChars == Letters \cup 48..57
LocalChars == LabelChars \cup {95, 43, 45}

\* in_label counts since the last separator: none may come first, last or twice.
LabelsOk(text, separators, chars) ==
    /\ text # <<>>
    /\ \A i \in DOMAIN text :
          IF text[i] \in separators THEN i > 1 /\ text[i - 1] \notin separators ELSE text[i] \in chars
    /\ text[Len(text)] \notin separators

local_part_ok(text) == LabelsOk(text, {46}, LocalChars)
domain_labels_ok(text) == LabelsOk(text, {46, 45}, LabelChars)

\* Two or more letters and nothing else after the last dot.
TopLevel(text, last_dot) ==
    /\ Len(text) - last_dot >= 2
    /\ \A i \in (last_dot + 1)..Len(text) : text[i] \in Letters

bk_is_email(text) ==
    /\ \E i \in DOMAIN text : text[i] = 64
    /\ LET at == Min({i \in DOMAIN text : text[i] = 64})
           dots == {i \in (at + 1)..Len(text) : text[i] = 46}
       IN  /\ local_part_ok(SubSeq(text, 1, at - 1))
           /\ dots # {}
           /\ TopLevel(text, Max(dots))
           /\ domain_labels_ok(SubSeq(text, at + 1, Max(dots) - 1))

\* FIELD_BYTES_MAX, from the longest maximum.
FieldBytes(max) == max * 3 + 1

\* apply_field_rule: the first refusal, and the value a registration is made of.
apply_field_rule(rule, text) ==
    LET Refusal(trimmed, units) ==
            CASE units > rule.max_length -> "too long"
              [] units <= rule.max_length /\ trimmed = <<>> -> "required"
              [] OTHER ->
                   IF rule.is_email /\ ~bk_is_email(trimmed) THEN "not an email"
                   ELSE IF ~rule.is_email /\ units < rule.min_length THEN "too short"
                   ELSE IF Len(trimmed) + 1 > FieldBytes(rule.max_length) THEN "too long"
                   ELSE "none"
        Of(trimmed, refusal) ==
            [refusal |-> refusal, value |-> IF refusal = "none" THEN trimmed ELSE <<>>]
        Held(trimmed) == Of(trimmed, Refusal(trimmed, bk_utf16_length(trimmed)))
    IN  Held(bk_trim(text))

-----------------------------------------------------------------------------
(* packages/shared/src/schemas: over code points, and every rule is asked.   *)

\* String.length.
Length(text) == FoldLeft(LAMBDA n, code : n + (IF code > 65535 THEN 2 ELSE 1), 0, text)

\* String.trim.
Trim(text) ==
    LET solid == {i \in DOMAIN text : ~is_js_space(text[i])}
    IN  IF solid = {} THEN <<>> ELSE SubSeq(text, Min(solid), Max(solid))

toLowerCase(text) == [i \in DOMAIN text |-> IF text[i] \in 65..90 THEN text[i] + 32 ELSE text[i]]

\* v.email: labels, an @, labels, a dot and two letters or more.
Labels(text, separators, chars) ==
    \E cuts \in SUBSET {i \in DOMAIN text : text[i] \in separators} :
        LET ends == cuts \cup {0, Len(text) + 1}
        IN  \A a \in ends \ {Len(text) + 1} :
               LET b == Min({e \in ends : e > a})
               IN  b > a + 1 /\ \A i \in (a + 1)..(b - 1) : text[i] \in chars

IsEmail(text) ==
    \E at, dot \in DOMAIN text :
        /\ at < dot /\ text[at] = 64 /\ text[dot] = 46
        /\ Labels(SubSeq(text, 1, at - 1), {46}, Letters \cup 48..57 \cup {95, 43, 45})
        /\ Labels(SubSeq(text, at + 1, dot - 1), {46, 45}, Letters \cup 48..57)
        /\ Len(text) >= dot + 2 /\ \A i \in (dot + 1)..Len(text) : text[i] \in Letters

emailSchema(rule, text) ==
    LET trimmed == toLowerCase(Trim(text))
        issues == (IF Length(trimmed) > rule.max_length THEN <<"too long">> ELSE <<>>)
                  \o (IF trimmed = <<>> THEN <<"required">> ELSE <<>>)
                  \o (IF ~IsEmail(trimmed) THEN <<"not an email">> ELSE <<>>)
    IN  [issues |-> issues, value |-> trimmed]

\* firstNameSchema and lastNameSchema, which differ in their minimum.
nameSchema(rule, text) ==
    LET trimmed == Trim(text)
        issues == (IF Length(trimmed) > rule.max_length THEN <<"too long">> ELSE <<>>)
                  \o (IF trimmed = <<>> THEN <<"required">> ELSE <<>>)
                  \o (IF Length(trimmed) < rule.min_length THEN <<"too short">> ELSE <<>>)
    IN  [issues |-> issues, value |-> trimmed]

Schema(rule, text) == IF rule.is_email THEN emailSchema(rule, text) ELSE nameSchema(rule, text)

-----------------------------------------------------------------------------

\* One text meets the same first refusal in both implementations, and one that is taken is the same
\* value: bytes cut and counted as a JavaScript string is (bk_trim, bk_utf16_length, bk_is_email
\* and the pipes of auth.ts), and a value that is taken fits the handler's buffer.
RulesAgree(rule, text) ==
    LET Agree(c, ts) ==
            /\ c.refusal = IF ts.issues = <<>> THEN "none" ELSE ts.issues[1]
            /\ c.refusal = "none" => toLowerCase(c.value) = Utf8(toLowerCase(ts.value))
                                     /\ (~rule.is_email => c.value = Utf8(ts.value))
    IN  Agree(apply_field_rule(rule, Utf8(text)), Schema(rule, text))
=============================================================================
