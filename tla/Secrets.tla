------------------------------ MODULE Secrets ------------------------------
(***************************************************************************)
(* Where a secret comes from: service-core/src/secret.c and                *)
(* packages/service-core/src/config/secret.ts.                             *)
(*                                                                         *)
(* A place is what the file system or the environment holds for one name:  *)
(*   credential  the file of $CREDENTIALS_DIRECTORY, "unnamed" where the   *)
(*               variable is unset or empty                                *)
(*   file        the file <NAME>_FILE names, "unnamed" where it is unset   *)
(*   variable    the variable itself, "unnamed" where it is unset          *)
(* A content is a sequence of characters, the line ending's among them.    *)
(***************************************************************************)
EXTENDS Naturals, Sequences, SequencesExt

CONSTANT SECRET_SIZE   \* the caller's buffer, its terminator included

CR == "cr"
LF == "lf"
Unnamed == [is |-> "unnamed"]
Absent == [is |-> "absent"]
Unreadable == [is |-> "unreadable"]
There(content) == [is |-> "there", content |-> content]

Answer(value) == [status |-> "ok", value |-> value]
TOO_LONG == [status |-> "too long"]
UNAVAILABLE == [status |-> "unavailable"]
\* The terminator would land one past the buffer: what follows is not defined.
UNDEFINED == [status |-> "undefined"]

Ends(s, c) == s # <<>> /\ Last(s) = c
Without(s, c) == IF Ends(s, c) THEN Front(s) ELSE s

\* A file of exactly the buffer's size is taken; its line ending, if it has one, makes the room.
read_whole_file(place) ==
    LET left == Without(Without(place.content, LF), CR)
    IN  IF place.is # "there" THEN UNAVAILABLE
        ELSE IF Len(place.content) > SECRET_SIZE THEN TOO_LONG
        ELSE IF Len(left) = SECRET_SIZE THEN UNDEFINED
        ELSE Answer(left)

sc_secret_read(w) ==
    IF w.credential.is \notin {"unnamed", "absent"} THEN read_whole_file(w.credential)
    ELSE IF w.file.is # "unnamed" THEN read_whole_file(w.file)
    ELSE IF w.variable.is = "unnamed" THEN Answer(<<>>)
    ELSE IF Len(w.variable.content) >= SECRET_SIZE THEN TOO_LONG
    ELSE Answer(w.variable.content)

\* A credential nobody may read is no source in force here.
sc_secret_source_of(w) ==
    IF w.credential.is = "there" THEN "credential"
    ELSE IF w.file.is # "unnamed" THEN "file"
    ELSE IF w.variable.is # "unnamed" THEN "environment" ELSE "nowhere"

secretSource(w) ==
    IF w.credential.is \in {"there", "unreadable"} THEN "credential"
    ELSE IF w.file.is # "unnamed" THEN "file"
    ELSE IF w.variable.is # "unnamed" THEN "environment" ELSE "nowhere"

\* One trailing line ending and nothing else.
stripOneLineEnding(s) == IF Ends(s, LF) THEN Without(Front(s), CR) ELSE s

\* SecretUnreadable is thrown for a named source that cannot be read.
resolveSecret(w) ==
    CASE w.credential.is = "unreadable" -> UNAVAILABLE
      [] w.credential.is = "there" -> Answer(stripOneLineEnding(w.credential.content))
      [] w.credential.is \in {"unnamed", "absent"} /\ w.file.is # "unnamed" ->
            IF w.file.is = "there" THEN Answer(stripOneLineEnding(w.file.content)) ELSE UNAVAILABLE
      [] OTHER -> IF w.variable.is = "unnamed" THEN Answer(<<>>) ELSE Answer(w.variable.content)

-----------------------------------------------------------------------------
FromFile(w) == w.credential.is \notin {"unnamed", "absent"} \/ w.file.is # "unnamed"
Named(w) == IF w.credential.is \notin {"unnamed", "absent"} THEN w.credential
            ELSE IF w.file.is # "unnamed" THEN w.file ELSE w.variable

\* Both implementations resolve a secret to the same value from the same source, and a source that
\* is named and cannot be read is refused by both, never passed over for a lower one (secret.c,
\* secret.ts).  Three things are C's own: a buffer that has to hold the value, a file that fills it
\* to the last byte, and a carriage return at the end of a file that no newline follows, which C
\* takes off.
SecretsResolveAlike(w) ==
    LET c == sc_secret_read(w)
        ts == resolveSecret(w)
    IN  /\ c.status = "ok" => \/ c = ts
                              \/ FromFile(w) /\ Ends(Named(w).content, CR)
                                 /\ c.value = Front(ts.value)
        /\ (c.status = "unavailable") = (ts.status = "unavailable")
        /\ ts.status = "unavailable" <=> Named(w).is \in {"absent", "unreadable"}
        /\ c.status = "too long" => ts.status = "ok" /\ Len(Named(w).content) >= SECRET_SIZE
        /\ c.status = "undefined" <=> ts.status = "ok" /\ FromFile(w)
                                      /\ Len(Named(w).content) = SECRET_SIZE
                                      /\ Last(Named(w).content) \notin {CR, LF}
        /\ sc_secret_source_of(w) = secretSource(w) \/ w.credential.is = "unreadable"
        /\ secretSource(w) = "nowhere" => ts = Answer(<<>>)
=============================================================================
