------------------------------ MODULE SqlSplit ------------------------------
(***************************************************************************)
(* Cutting a .sql file of contracts/migrations into its statements:        *)
(* bc_sql_split_next of backend-core/src/database/migrations.c and         *)
(* splitStatements of packages/backend-core/.../migrate/Migration.ts.      *)
(*                                                                         *)
(* A text is a sequence of characters: quote, semicolon, dollar, dash,     *)
(* newline, blank and letters.  A position is an index from 1, "past the   *)
(* end" is Len + 1.                                                        *)
(***************************************************************************)
EXTENDS Naturals, Sequences, SequencesExt

QUOTE == "'"
NEWLINE == "newline"
BLANK == " "
Letters == {"a", "b"}

Least(S) == CHOOSE x \in S : \A y \in S : x <= y
LeastOr(S, none) == IF S = {} THEN none ELSE Least(S)

-----------------------------------------------------------------------------
(* migrations.c                                                              *)

\* The index just past the closing quote; two quotes in a string are one of its characters.
closing_quote(sql, start) ==
    LET n == Len(sql)
        past[i \in (start + 1)..(n + 1)] ==
            IF i > n THEN n + 1
            ELSE IF sql[i] # QUOTE THEN past[i + 1]
            ELSE IF i + 1 <= n /\ sql[i + 1] = QUOTE THEN past[i + 2]
            ELSE i + 1
    IN  past[start + 1]

\* The length of `$$` or `$name$` at this position, or 0.
dollar_tag(sql, start) ==
    LET n == Len(sql)
        ends == {i \in (start + 1)..n : sql[i] = "$" /\ \A j \in (start + 1)..(i - 1) :
                                                            sql[j] \in Letters}
    IN  IF ends = {} THEN 0 ELSE Least(ends) - start + 1

\* The end of what starts at i: a string, a dollar quoted body, a comment, or one character.
span_end(sql, i) ==
    LET n == Len(sql)
        tag == dollar_tag(sql, i)
        found == {j \in (i + tag)..(n + 1 - tag) :
                     SubSeq(sql, j, j + tag - 1) = SubSeq(sql, i, i + tag - 1)}
    IN  CASE sql[i] = QUOTE -> closing_quote(sql, i)
          [] sql[i] = "$" /\ tag # 0 -> IF found = {} THEN n + 1 ELSE Least(found) + tag
          [] sql[i] = "-" /\ i < n /\ sql[i + 1] = "-" ->
                LeastOr({j \in i..n : sql[j] = NEWLINE}, n + 1)
          [] OTHER -> i + 1

\* Where the statement that begins at pos stops: at a semicolon between two spans, or at the end.
StatementEnd(sql, pos) ==
    LET n == Len(sql)
        stop[i \in pos..(n + 1)] ==
            IF i > n \/ sql[i] = ";" THEN i ELSE stop[span_end(sql, i)]
    IN  stop[pos]

\* The lines of a text, as the loop of strip_comments walks them.
RECURSIVE Lines(_)
Lines(text) ==
    LET at == LeastOr({i \in 1..Len(text) : text[i] = NEWLINE}, Len(text) + 1)
        line == SubSeq(text, 1, at - 1)
    IN  IF at > Len(text) THEN <<line>> ELSE <<line>> \o Lines(SubSeq(text, at + 1, Len(text)))

Trimmed(text) ==
    LET ink == {i \in 1..Len(text) : text[i] \notin {BLANK, NEWLINE}}
    IN  IF ink = {} THEN <<>>
        ELSE SubSeq(text, Least(ink), CHOOSE i \in ink : \A j \in ink : j <= i)

IsComment(line) ==
    \E i \in 1..(Len(line) - 1) : line[i] = "-" /\ line[i + 1] = "-"
                                  /\ \A j \in 1..(i - 1) : line[j] = BLANK

Joined(lines) == FoldLeft(LAMBDA text, line : IF text = <<>> THEN line
                                              ELSE text \o <<NEWLINE>> \o line, <<>>, lines)

\* A newline goes in front of a line only when something was written before it.
strip_comments(text) == Trimmed(Joined(SelectSeq(Lines(text), LAMBDA l : ~IsComment(l))))

\* bc_sql_split_next until it answers 0; a statement that is nothing but comments is passed over.
RECURSIVE bc_sql_split_next(_, _)
bc_sql_split_next(sql, pos) ==
    IF pos > Len(sql) + 1 THEN <<>>
    ELSE LET end == StatementEnd(sql, pos)
             text == strip_comments(SubSeq(sql, pos, end - 1))
             rest == bc_sql_split_next(sql, IF end > Len(sql) THEN Len(sql) + 2 ELSE end + 1)
         IN  IF text = <<>> THEN rest ELSE <<text>> \o rest

-----------------------------------------------------------------------------
(* Migration.ts                                                              *)

\* closingQuote: the first quote that is not the first of a pair, pairs being taken from the left.
closingQuote(sql, start) ==
    LET n == Len(sql)
        Closes(i) == /\ sql[i] = QUOTE
                     /\ i = n \/ sql[i + 1] # QUOTE
                     /\ LET run == {j \in (start + 1)..i : \A k \in j..i : sql[k] = QUOTE}
                        IN  (i - Least(run)) % 2 = 0
    IN  LeastOr({i \in (start + 1)..n : Closes(i)}, n) + 1

\* dollarTag: what the pattern matches, or nothing.
dollarTag(sql, start) ==
    LET tags == {SubSeq(sql, start, j) : j \in (start + 1)..Len(sql)}
        IsTag(t) == t[Len(t)] = "$" /\ \A k \in 2..(Len(t) - 1) : t[k] \in Letters
    IN  {t \in tags : IsTag(t)}

withoutComments(statement) ==
    Trimmed(Joined(SelectSeq(Lines(statement), LAMBDA l : ~IsComment(Trimmed(l)))))

\* splitStatements: one pass with the statement so far in hand.
RECURSIVE splitFrom(_, _, _)
splitFrom(sql, index, statement) ==
    LET n == Len(sql)
        Take(stop) == splitFrom(sql, stop, statement \o SubSeq(sql, index, stop - 1))
        Bodies(tag) == {j \in (index + Len(tag))..(n + 1 - Len(tag)) :
                           SubSeq(sql, j, j + Len(tag) - 1) = tag}
    IN  IF index > n THEN <<statement>>
        ELSE CASE sql[index] = QUOTE -> Take(closingQuote(sql, index))
               [] sql[index] = "$" /\ dollarTag(sql, index) # {} ->
                    LET tag == CHOOSE t \in dollarTag(sql, index) : TRUE
                    IN  Take(IF Bodies(tag) = {} THEN n + 1 ELSE Least(Bodies(tag)) + Len(tag))
               [] sql[index] = "-" /\ index < n /\ sql[index + 1] = "-" ->
                    Take(LeastOr({j \in index..n : sql[j] = NEWLINE}, n + 1))
               [] sql[index] = ";" -> <<statement>> \o splitFrom(sql, index + 1, <<>>)
               [] OTHER -> Take(index + 1)

splitStatements(sql) ==
    SelectSeq(LET parts == splitFrom(sql, 1, <<>>)
              IN  [i \in 1..Len(parts) |-> withoutComments(parts[i])],
              LAMBDA s : s # <<>>)

-----------------------------------------------------------------------------
(* What both promise: read the text from the left, one character at a time,  *)
(* always in code, in a string, in a dollar quoted body or in a comment; a   *)
(* semicolon ends a statement in code and nowhere else.                      *)

\* mode[i] is what the character at i is in; a quote in a string leaves it, and the second of two
\* opens it again.
Modes(sql) ==
    LET n == Len(sql)
        Opens(i) == dollar_tag(sql, i) # 0
        TagAt(i) == SubSeq(sql, i, i + dollar_tag(sql, i) - 1)
        mode[i \in 0..n] ==
            IF i = 0 THEN [in |-> "code", since |-> 0]
            ELSE LET was == mode[i - 1]
                     Closed == \/ was.in = "string" /\ i - 1 > was.since /\ sql[i - 1] = QUOTE
                               \/ /\ was.in = "body"
                                  /\ LET t == TagAt(was.since)
                                     IN  /\ i - Len(t) >= was.since + Len(t)
                                         /\ SubSeq(sql, i - Len(t), i - 1) = t
                               \/ was.in = "comment" /\ sql[i] = NEWLINE
                 IN  IF was.in # "code" /\ ~Closed THEN was
                     ELSE IF was.in = "string" /\ Closed /\ sql[i] = QUOTE
                     THEN [in |-> "string", since |-> i]
                     ELSE CASE sql[i] = QUOTE -> [in |-> "string", since |-> i]
                            [] sql[i] = "$" /\ Opens(i) -> [in |-> "body", since |-> i]
                            [] sql[i] = "-" /\ i < n /\ sql[i + 1] = "-" ->
                                 [in |-> "comment", since |-> i]
                            [] OTHER -> [in |-> "code", since |-> i]
    IN  mode

Cuts(sql) == {i \in 1..Len(sql) : sql[i] = ";" /\ Modes(sql)[i].in = "code"}

\* The pieces between the cuts, without comments and without the empty ones.
Pieces(sql) ==
    LET ends == Cuts(sql) \cup {Len(sql) + 1}
        Begin(e) == LET before == {c \in Cuts(sql) : c < e}
                    IN  IF before = {} THEN 1
                        ELSE 1 + CHOOSE c \in before : \A d \in before : d <= c
        order == SetToSortSeq(ends, <)
        all == [k \in 1..Len(order) |-> strip_comments(SubSeq(sql, Begin(order[k]), order[k] - 1))]
    IN  SelectSeq(all, LAMBDA s : s # <<>>)

\* Both implementations cut a file into the same statements, and into those: a semicolon inside a
\* string, a dollar quoted body or a comment ends nothing, whatever stands around it.
SplitsAlike(sql) ==
    /\ bc_sql_split_next(sql, 1) = splitStatements(sql)
    /\ bc_sql_split_next(sql, 1) = Pieces(sql)
=============================================================================
