------------------------------- MODULE Prompt -------------------------------
(***************************************************************************)
(* The questions of the setup command at a terminal: prompt.c and          *)
(* packages/backend/src/setup/prompt.ts, with `ask` of setup.c around the  *)
(* typed one.                                                              *)
(*                                                                         *)
(* A keyboard is a sequence of characters, an arrow key being three of     *)
(* them; every character is one byte.  The typed questions take a sequence *)
(* of lines, each shorter than BK_ANSWER_MAX.  What the keyboard still     *)
(* holds when the input ends leaves a question open.                       *)
(***************************************************************************)
EXTENDS Integers, Sequences, SequencesExt

CONSTANT PORT_MAX   \* 65535

ESC == "esc"
OPEN == -1          \* no answer: the input ended
LEFT == -130        \* Ctrl-C: exit(130)
Digits == <<"1", "2", "3", "4", "5", "6", "7", "8", "9">>
DigitOf(c) == IF \E d \in DOMAIN Digits : Digits[d] = c THEN CHOOSE d \in DOMAIN Digits : Digits[d] = c
              ELSE 0

-----------------------------------------------------------------------------
(* prompt.c                                                                  *)

\* One key and what is left; an escape takes what follows it along, arrow or not.
read_key(in) ==
    LET From(k) == SubSeq(in, k, Len(in))
        Key(key, k) == [key |-> key, rest |-> From(k)]
    IN  IF in[1] # ESC THEN Key(in[1], 2)
        ELSE IF Len(in) = 1 THEN Key("ignored", 2)
        ELSE IF in[2] # "[" \/ Len(in) = 2 THEN Key("ignored", 3)
        ELSE Key(IF in[3] \in {"A", "D"} THEN "up"
                 ELSE IF in[3] \in {"B", "C"} THEN "down" ELSE "ignored", 4)

RECURSIVE bk_prompt_choose(_, _, _)
bk_prompt_choose(in, count, index) ==
    IF in = <<>> THEN OPEN
    ELSE LET k == read_key(in)
         IN  CASE k.key = "interrupt" -> LEFT
               [] k.key = "enter" -> index
               [] DigitOf(k.key) \in 1 .. count -> DigitOf(k.key) - 1
               [] k.key = "up" -> bk_prompt_choose(k.rest, count, (index + count - 1) % count)
               [] k.key = "down" -> bk_prompt_choose(k.rest, count, (index + 1) % count)
               [] OTHER -> bk_prompt_choose(k.rest, count, index)

\* The value typed so far is a stack; one that does not fit is asked for again.
Unanswered(status) == [status |-> status]
Typed(value) == [status |-> "answered", value |-> value]
RECURSIVE SecretFrom(_, _, _, _)
SecretFrom(in, typed, fallback, size) ==
    IF in = <<>> THEN Unanswered("open")
    ELSE LET k == read_key(in)
             value == IF typed = <<>> THEN fallback ELSE typed
         IN  CASE k.key = "interrupt" -> Unanswered("left")
               [] k.key = "enter" -> IF Len(value) + 1 > size
                                     THEN SecretFrom(k.rest, <<>>, fallback, size)
                                     ELSE Typed(value)
               [] k.key = "back" -> SecretFrom(k.rest, IF typed = <<>> THEN typed ELSE Front(typed),
                                               fallback, size)
               [] k.key \in {"up", "down", "ignored"} -> SecretFrom(k.rest, typed, fallback, size)
               [] OTHER -> SecretFrom(k.rest, Append(typed, k.key), fallback, size)

bk_prompt_secret(in, fallback, size) == SecretFrom(in, <<>>, fallback, size)

\* A line without the blanks around it.
Trim(line) ==
    LET ink == {i \in DOMAIN line : line[i] # " "}
    IN  IF ink = {} THEN <<>> ELSE SubSeq(line, CHOOSE i \in ink : \A j \in ink : i <= j,
                                          CHOOSE i \in ink : \A j \in ink : j <= i)

\* The number of leading digits, "0" among them, and their value.
DigitCount(text) == LET other == {i \in DOMAIN text : text[i] # "0" /\ DigitOf(text[i]) = 0}
                    IN  IF other = {} THEN Len(text) ELSE (CHOOSE i \in other : \A j \in other : i <= j) - 1
Number(text) == FoldLeft(LAMBDA n, c : 10 * n + DigitOf(c), 0, SubSeq(text, 1, DigitCount(text)))

\* A rule is [required, max, port]; whether an answer is refused.
refusal_for(rule, text) ==
    \/ rule.required /\ text = <<>>
    \/ Len(text) > rule.max
    \/ rule.port /\ (DigitCount(text) # Len(text) \/ Number(text) \notin 1 .. PORT_MAX)

\* The first line that is an answer, or the proposal for an empty one.
RECURSIVE ask(_, _, _, _)
ask(lines, fallback, rule, size) ==
    IF lines = <<>> THEN Unanswered("open")
    ELSE LET answer == IF Trim(Head(lines)) = <<>> THEN fallback ELSE Trim(Head(lines))
         IN  IF refusal_for(rule, answer) \/ Len(answer) + 1 > size
             THEN ask(Tail(lines), fallback, rule, size)
             ELSE Typed(answer)

\* The whole line, exactly: a number, or a label as it is written.
RECURSIVE choose_numbered(_, _, _)
choose_numbered(lines, labels, initial) ==
    IF lines = <<>> THEN OPEN
    ELSE LET line == Head(lines)
             hits == {i \in DOMAIN labels : line = <<Digits[i]>> \/ line = <<labels[i]>>}
         IN  IF line = <<>> THEN initial
             ELSE IF hits # {} THEN (CHOOSE i \in hits : \A j \in hits : i <= j) - 1
             ELSE choose_numbered(Tail(lines), labels, initial)

-----------------------------------------------------------------------------
(* prompt.ts                                                                 *)

\* A chunk as the keys that are in it: three characters for a CSI sequence, one otherwise.
RECURSIVE keysIn(_)
keysIn(chunk) ==
    IF chunk = <<>> THEN <<>>
    ELSE LET csi == Len(chunk) > 1 /\ chunk[1] = ESC /\ chunk[2] = "["
             n == IF ~csi THEN 1 ELSE IF Len(chunk) < 3 THEN Len(chunk) ELSE 3
         IN  <<SubSeq(chunk, 1, n)>> \o keysIn(SubSeq(chunk, n + 1, Len(chunk)))

step(key) == CASE key \in {<<ESC, "[", "A">>, <<ESC, "[", "D">>} -> -1
               [] key \in {<<ESC, "[", "B">>, <<ESC, "[", "C">>} -> 1
               [] OTHER -> 0

\* onData over the keys of the chunk; what follows the answer is dropped.
askChoice(chunk, count, initial) ==
    LET Key(r, key) ==
            IF r.answered THEN r
            ELSE CASE key = <<"interrupt">> -> [answered |-> TRUE, at |-> LEFT]
                   [] key = <<"enter">> -> [answered |-> TRUE, at |-> r.at]
                   [] DigitOf(key[1]) \in 1 .. count -> [answered |-> TRUE, at |-> DigitOf(key[1]) - 1]
                   [] OTHER -> [r EXCEPT !.at = (@ + step(key) + count) % count]
        end == FoldLeft(Key, [answered |-> FALSE, at |-> initial], keysIn(chunk))
    IN  IF end.answered THEN end.at ELSE OPEN

askSecret(chunk, fallback) ==
    LET Key(r, key) ==
            IF r.status # "open" THEN r
            ELSE CASE key = <<"interrupt">> -> [r EXCEPT !.status = "left"]
                   [] key = <<"enter">> -> [r EXCEPT !.status = "answered"]
                   [] key = <<"back">> -> [r EXCEPT !.typed = IF @ = <<>> THEN @ ELSE Front(@)]
                   [] key[1] = ESC -> r
                   [] OTHER -> [r EXCEPT !.typed = @ \o key]
        end == FoldLeft(Key, [status |-> "open", typed |-> <<>>], keysIn(chunk))
    IN  IF end.status # "answered" THEN Unanswered(end.status)
        ELSE Typed(IF end.typed = <<>> THEN fallback ELSE end.typed)

\* The schema of a field; portSchema reads as far as there are digits.
Passes(rule, text) ==
    /\ rule.required => text # <<>>
    /\ Len(text) <= rule.max
    /\ rule.port => Number(text) \in 1 .. PORT_MAX

askText(lines, fallback, rule) ==
    LET Answer(line) == IF Trim(line) = <<>> THEN Trim(fallback) ELSE Trim(line)
        taken == {i \in DOMAIN lines : Passes(rule, Answer(lines[i]))}
    IN  IF taken = {} THEN Unanswered("open")
        ELSE Typed(Answer(lines[CHOOSE i \in taken : \A j \in taken : i <= j]))

\* Letters of either case name a label.
askNumbered(lines, labels, initial, lower) ==
    LET Chosen(line) == {i \in DOMAIN labels : \/ Trim(line) = <<Digits[i]>>
                                               \/ Len(Trim(line)) = 1 /\ lower[Trim(line)[1]] = labels[i]}
        taken == {k \in DOMAIN lines : Trim(lines[k]) = <<>> \/ Chosen(lines[k]) # {}}
        first == lines[CHOOSE k \in taken : \A j \in taken : k <= j]
    IN  IF taken = {} THEN OPEN
        ELSE IF Trim(first) = <<>> THEN initial
        ELSE (CHOOSE i \in Chosen(first) : \A j \in Chosen(first) : i <= j) - 1

-----------------------------------------------------------------------------
\* Every escape begins a whole sequence: the two read a lone one differently.
Whole(in) == \A i \in DOMAIN in : in[i] = ESC => i + 2 <= Len(in) /\ in[i + 1] = "["
                                                 /\ ESC \notin {in[i + 1], in[i + 2]}

\* The same keys choose the same entry on both paths, and one that is on the list (prompt.c,
\* prompt.ts).
ChoosesAlike(in, count, initial) ==
    /\ bk_prompt_choose(in, count, initial) \in 0 .. count - 1 \cup {OPEN, LEFT}
    /\ Whole(in) => bk_prompt_choose(in, count, initial) = askChoice(in, count, initial)

\* The same keys type the same secret, one that fits its field (prompt.c, prompt.ts): where C took
\* no answer or another one, the first did not fit and was asked for again.
SecretsAlike(in, fallback, size) ==
    LET c == bk_prompt_secret(in, fallback, size)
        ts == askSecret(in, fallback)
    IN  Whole(in) =>
            /\ c.status = "answered" => Len(c.value) < size
            /\ c # ts => ts.status = "answered" /\ Len(ts.value) >= size

\* The same lines give the same answer to a typed question, one its rule takes and its field holds
\* (setup.c, prompt.c, prompt.ts).  A port with something behind its digits is refused by C alone.
AsksAlike(lines, fallback, rule, size) ==
    LET c == ask(lines, fallback, rule, size)
        ts == askText(lines, fallback, rule)
    IN  /\ c.status = "answered" => Passes(rule, c.value) /\ Len(c.value) < size
        /\ c # ts => /\ ts.status = "answered"
                     /\ Len(ts.value) >= size \/ (rule.port /\ DigitCount(ts.value) < Len(ts.value))

\* Without raw mode the same lines choose the same entry (prompt.c, prompt.ts), as long as nobody
\* types blanks around an answer or another case than the label's.
NumbersAlike(lines, labels, initial, lower) ==
    (\A k \in DOMAIN lines : Trim(lines[k]) = lines[k] /\ (Len(lines[k]) = 1 => lower[lines[k][1]] = lines[k][1]))
        => choose_numbered(lines, labels, initial) = askNumbered(lines, labels, initial, lower)
=============================================================================
