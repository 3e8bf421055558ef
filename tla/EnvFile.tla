------------------------------ MODULE EnvFile ------------------------------
(***************************************************************************)
(* The `.env` file as text: service-core/src/env_file.c reads and writes   *)
(* it, packages/backend/src/setup/envFile.ts writes it.  dotenv, which     *)
(* reads it on the reference path, is a library outside the repository;    *)
(* what either writer leaves is read back with sc_env_file_load, "so a     *)
(* .env written by either implementation's setup serves the other".        *)
(*                                                                         *)
(* A text is a sequence of tokens.  "A", "B" and "n" stand for the         *)
(* characters of a name, "export" for that word.                           *)
(***************************************************************************)
EXTENDS Naturals, Sequences, SequencesExt, TLC

CONSTANT ENV_FILE_MAX   \* SC_ENV_FILE_MAX, in tokens

NL == "newline"
SINGLE == "'"
DOUBLE == "\""
BACKSLASH == "\\"
NameTokens == {"A", "B", "n", "export"}
Refused == [ok |-> FALSE]

FirstOr(S, none) == IF S = {} THEN none ELSE CHOOSE i \in S : \A j \in S : i <= j

\* Past every token from `at` on that is in S.
Past(text, at, S) == FirstOr({i \in at .. Len(text) : text[i] \notin S}, Len(text) + 1)
skip_blanks(text, at) == Past(text, at, {" "})
skip_line(text, at) == FirstOr({i + 1 : i \in {j \in at .. Len(text) : text[j] = NL}}, Len(text) + 1)

-----------------------------------------------------------------------------
(* Reading.                                                                  *)

\* \n inside double quotes, and nothing else, stands for another character.
Unescaped(s) ==
    FoldLeft(LAMBDA out, c : IF out # <<>> /\ Last(out) = BACKSLASH /\ c = "n"
                             THEN Append(Front(out), NL) ELSE Append(out, c), <<>>, s)

RightTrimmed(s) == SubSeq(s, 1, Len(s) + 1 - Past(Reverse(s), 1, {" "}))

\* The value that starts at `at`, and where it ended.
read_value(text, at) ==
    LET n == Len(text)
        quoted == at <= n /\ text[at] \in {SINGLE, DOUBLE}
        stop == IF quoted THEN FirstOr({i \in at + 1 .. n : text[i] = text[at]}, n + 1)
                ELSE FirstOr({i \in at .. n : text[i] \in {NL, "#"}}, n + 1)
        body == SubSeq(text, IF quoted THEN at + 1 ELSE at, stop - 1)
    IN  [value |-> IF ~quoted THEN RightTrimmed(body)
                   ELSE IF text[at] = DOUBLE THEN Unescaped(body) ELSE body,
         at |-> IF quoted THEN stop + 1 ELSE stop]

\* sc_env_file_load from one position on: a variable the environment has is left alone.
RECURSIVE LoadFrom(_, _, _)
LoadFrom(text, from, env) ==
    LET n == Len(text)
        first == skip_blanks(text, from)
        Exported == text[first] = "export" /\ first < n /\ text[first + 1] = " "
        begin == IF Exported THEN skip_blanks(text, first + 1) ELSE first
        end == Past(text, begin, NameTokens)
        name == SubSeq(text, begin, end - 1)
        equals == skip_blanks(text, end)
        read == read_value(text, skip_blanks(text, equals + 1))
    IN  IF first > n THEN [ok |-> TRUE, env |-> env]
        ELSE IF text[first] \in {NL, "#"} THEN LoadFrom(text, skip_line(text, first), env)
        ELSE IF name = <<>> \/ equals > n THEN Refused
        ELSE IF text[equals] # "=" THEN Refused
        ELSE LoadFrom(text, skip_line(text, read.at), env @@ (name :> read.value))

sc_env_file_load(text) == IF Len(text) > ENV_FILE_MAX THEN Refused ELSE LoadFrom(text, 1, <<>>)

-----------------------------------------------------------------------------
(* Writing.                                                                  *)

Has(value, pattern) == \E i \in 1 .. Len(value) + 1 - Len(pattern) :
                           SubSeq(value, i, i + Len(pattern) - 1) = pattern
Bare(value) == \A i \in DOMAIN value : value[i] \in NameTokens \cup {"="}
FORMLESS == "no form"

\* Mutant: forgets that double quotes unescape.
quote_forPlain(value) ==
    IF Bare(value) THEN "" ELSE IF ~Has(value, <<SINGLE>>) THEN SINGLE
    ELSE IF ~Has(value, <<DOUBLE>>) THEN DOUBLE ELSE FORMLESS

\* The form that carries the value; the `quote` of envFile.ts chooses by the same rules.
quote_for(value) ==
    IF Bare(value) THEN ""
    ELSE IF ~Has(value, <<SINGLE>>) THEN SINGLE
    ELSE IF ~Has(value, <<DOUBLE>>) /\ ~Has(value, <<BACKSLASH, "n">>) THEN DOUBLE
    ELSE FORMLESS

quote(value) ==
    CASE Bare(value) -> value
      [] ~Bare(value) /\ ~Has(value, <<SINGLE>>) -> <<SINGLE>> \o value \o <<SINGLE>>
      [] OTHER -> IF Has(value, <<DOUBLE>>) \/ Has(value, <<BACKSLASH, "n">>) THEN <<FORMLESS>>
                  ELSE <<DOUBLE>> \o value \o <<DOUBLE>>

\* One more line, or nothing when it does not fit or no form carries the value.
append_assignment(out, entry) ==
    LET q == quote_for(entry.value)
        mark == IF q = "" THEN <<>> ELSE <<q>>
        text == out \o entry.name \o <<"=">> \o mark \o entry.value \o mark \o <<NL>>
    IN  IF q = FORMLESS \/ Len(text) > ENV_FILE_MAX THEN Refused ELSE [ok |-> TRUE, out |-> text]

\* The name a line assigns to: `assigned` in C and `assignedName` in TypeScript, which both look
\* at one line and know no `export`.
assigned(line) ==
    LET begin == skip_blanks(line, 1)
        end == Past(line, begin, NameTokens)
        equals == skip_blanks(line, end)
    IN  IF equals <= Len(line) /\ line[equals] = "=" THEN SubSeq(line, begin, end - 1) ELSE <<>>

\* The lines of a text; a newline at its end begins no other one.
RECURSIVE LinesOf(_)
LinesOf(text) ==
    LET next == skip_line(text, 1)
        whole == next <= Len(text) \/ (text # <<>> /\ Last(text) = NL)
    IN  IF text = <<>> THEN <<>>
        ELSE <<SubSeq(text, 1, IF whole THEN next - 2 ELSE next - 1)>>
             \o LinesOf(SubSeq(text, next, Len(text)))

Heading(out) == IF out = <<>> THEN <<"#", NL>> ELSE <<NL, "#", NL>>

\* What is written so far, and which entries are in it.
sc_env_file_write(existing, entries) ==
    LET Line(r, line) ==
            LET hits == {i \in DOMAIN entries \ r.written : entries[i].name = assigned(line)}
                i == CHOOSE h \in hits : \A g \in hits : h <= g
                a == append_assignment(r.out, entries[i])
            IN  IF ~r.ok THEN r
                ELSE IF hits # {} THEN [ok |-> a.ok, out |-> IF a.ok THEN a.out ELSE <<>>,
                                        written |-> r.written \cup {i}]
                ELSE [r EXCEPT !.ok = Len(r.out) + Len(line) + 1 < ENV_FILE_MAX,
                               !.out = @ \o line \o <<NL>>]
        kept == FoldLeft(Line, [ok |-> TRUE, out |-> <<>>, written |-> {}], LinesOf(existing))
        More(r, i) ==
            LET out == IF r.headed THEN r.out ELSE r.out \o Heading(r.out)
                a == append_assignment(out, entries[i])
            IN  IF ~r.ok \/ i \in kept.written THEN r
                ELSE IF (~r.headed /\ Len(out) >= ENV_FILE_MAX) \/ ~a.ok
                THEN [r EXCEPT !.ok = FALSE]
                ELSE [ok |-> TRUE, out |-> a.out, headed |-> TRUE]
        all == FoldLeft(More, [ok |-> kept.ok, out |-> kept.out, headed |-> FALSE],
                        [i \in DOMAIN entries |-> i])
    IN  IF Len(existing) > ENV_FILE_MAX \/ ~all.ok THEN Refused ELSE [ok |-> TRUE, out |-> all.out]

\* writeEnvFile keeps lines, not a text, and sets no limit.  A file there was leaves at least one
\* line, an empty one.
writeEnvFile(existing, entries) ==
    LET Of(line) == {i \in DOMAIN entries : entries[i].name = assigned(line)}
        before == IF existing = <<>> THEN <<<<>>>> ELSE LinesOf(existing)
        Text(i) == entries[i].name \o <<"=">> \o quote(entries[i].value)
        First(k) == Of(before[k]) # {} /\ \A j \in 1 .. k - 1 : Of(before[j]) # Of(before[k])
        lines == [k \in DOMAIN before |->
                     IF First(k) THEN Text(CHOOSE i \in Of(before[k]) : TRUE) ELSE before[k]]
        added == SelectSeq([i \in DOMAIN entries |-> i],
                           LAMBDA i : \A k \in DOMAIN before : i \notin Of(before[k]))
        spaced == IF Last(lines) # <<>> THEN Append(lines, <<>>) ELSE lines
        all == IF added = <<>> THEN lines
               ELSE Append(spaced, <<"#">>) \o [k \in DOMAIN added |-> Text(added[k])]
    IN  IF \E i \in DOMAIN entries : quote(entries[i].value) = <<FORMLESS>> THEN Refused
        ELSE [ok |-> TRUE, out |-> FoldLeft(LAMBDA text, line : text \o line \o <<NL>>, <<>>, all)]

-----------------------------------------------------------------------------
\* A file both writers can edit: it says the same read line by line as read at once (no value runs
\* over a line's end), and a line that assigns an entry's variable does so without `export`.
Editable(file, entries) ==
    LET lines == LinesOf(file)
        one == [k \in DOMAIN lines |-> sc_env_file_load(lines[k])]
    IN  /\ sc_env_file_load(file).ok
        /\ \A k \in DOMAIN one : one[k].ok /\ one[k] = sc_env_file_load(Append(lines[k], NL))
        /\ sc_env_file_load(file).env = FoldLeft(LAMBDA env, l : env @@ l.env, <<>>, one)
        /\ \A k \in DOMAIN one, i \in DOMAIN entries :
               entries[i].name \in DOMAIN one[k].env => assigned(lines[k]) = entries[i].name

\* What setup wrote is what the next start reads: every answer comes back exactly, whatever quotes,
\* blanks, comment signs or newlines are in it, everything else in the file says what it said
\* before, a file that was written is not too large to be read, and an answer is refused only when
\* no form carries it or the file would grow too large (env_file.c, envFile.ts).
AnswersReadBack(file, entries) ==
    LET Given(n) == {i \in DOMAIN entries : entries[i].name = n}
        before == sc_env_file_load(file)
        Formless(i) == Has(entries[i].value, <<SINGLE>>) /\ (Has(entries[i].value, <<DOUBLE>>)
                                                     \/ Has(entries[i].value, <<BACKSLASH, "n">>))
        IsTrue(w) == LET after == sc_env_file_load(w.out)
                     IN  /\ after.ok
                         /\ DOMAIN after.env = DOMAIN before.env \cup {entries[i].name : i \in DOMAIN entries}
                         /\ \A n \in DOMAIN after.env :
                               after.env[n] = IF Given(n) = {} THEN before.env[n]
                                              ELSE entries[CHOOSE i \in Given(n) : TRUE].value
        c == sc_env_file_write(file, entries)
        ts == writeEnvFile(file, entries)
    IN  Editable(file, entries) =>
            /\ c.ok => IsTrue(c)
            /\ ts.ok => IsTrue(ts) \/ Len(ts.out) > ENV_FILE_MAX
            /\ ts.ok = \A i \in DOMAIN entries : ~Formless(i)
            /\ c.ok => ts.ok
            /\ ts.ok /\ Len(ts.out) < ENV_FILE_MAX - 1 => c.ok
=============================================================================
