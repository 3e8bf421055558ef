----------------------------- MODULE MCProcess -----------------------------
(***************************************************************************)
(* A process of either path.  Which program runs is chosen at the start;   *)
(* the state of the other stays as it is.  Or neither runs, and one        *)
(* question is put to both: a request, or the text of a field.             *)
(***************************************************************************)
EXTENDS Routes

CONSTANTS NONE

VARIABLES
    impl, question,
    selected, main, role, status, said, quit, signal, critical, code, logger, fn, mutex, node, self,
    addresses, joins, req,
    kind, life, db, free, waiting, job, accounts, network, stopping, criticalStop, exit

\* Two roles at a time, each pair that shares something or nothing; the node asks its bootstrap
\* community twice.
Fast == INSTANCE ServerProcess WITH
    Selections <- {{"backend", "dht"}, {"backend", "federation"}, {"federation", "dht"}},
    Requests <- {1, 2}, MaxAddresses <- 1, MaxJoins <- 2

\* One place on SQLite and two on PostgreSQL, a queue of one: of three requests one is refused.
Reference == INSTANCE ReferenceProcess WITH
    Requests <- 1 .. 3, Email <- <<"a", "a", "b">>, Draws <- {1, 2},
    Kinds <- [sqlite |-> 1, postgresql |-> 2], QueueLimit <- 1, MaxAttempts <- 2

\* What the proofs about the two take for granted.
ASSUME Settings == Fast!Setting /\ Reference!Setting

fastVars == <<selected, main, role, status, said, quit, signal, critical, code, logger, fn, mutex,
              node, self, addresses, joins, req>>
referenceVars == <<kind, life, db, free, waiting, job, accounts, network, stopping,
                   criticalStop, exit>>
vars == <<impl, question, fastVars, referenceVars>>

-----------------------------------------------------------------------------
(* The questions.                                                            *)

File(path, etag) == [path |-> path, etag |-> etag, immutable |-> etag = 2]
MCSites ==
    {[base |-> <<>>, index |-> File(<<4>>, 1),
      files |-> <<File(<<1, 2>>, 2), File(<<3>>, 3), File(<<3, SLASH, 4>>, 4), File(<<4>>, 1)>>],
     [base |-> <<SLASH, 1>>, index |-> File(<<4>>, 5), files |-> <<File(<<3, SLASH, 4>>, 4), File(<<4>>, 5)>>]}
MCFieldRule ==
    [firstName |-> Rule(3, 4, FALSE), lastName |-> Rule(2, 4, FALSE), email |-> Rule(0, 7, TRUE)]

Lists(S, n) == UNION {[1 .. k -> S] : k \in 0 .. n}
Request(method, path) ==
    [method |-> method, path |-> path, development |-> FALSE, origin |-> <<>>, asks |-> <<>>,
     wants_html |-> FALSE, if_none_match |-> 0, body |-> [type |-> "none"], outcome |-> "done",
     node |-> "none"]
Origins == {<<>>} \cup {<<s, h>> \o r : s \in {"http://", "https://", "x"}, h \in Hosts \cup {"host"},
                                        r \in Lists({":", "digit", "y"}, 3)}
\* Every path of up to four runs with no empty name in it, and the routes.
Paths == {<<SLASH>>, HEALTH, CREATE, BOOTSTRAP}
         \cup {<<SLASH>> \o p : p \in {q \in Lists(SLASH .. 4, 3) :
                    q # <<>> /\ \A k \in DOMAIN q : q[k] = SLASH => k > 1 /\ q[k - 1] # SLASH}}
Texts(S) == [type : {"string"}, text : S]
Names == Texts({<<>>, <<32, 97>>, <<97, 160, 97>>, <<97, 97, 12288>>, <<128512, 97, 97>>,
                <<128512, 128512, 97>>})
Mails == Texts({<<>>, <<97, 64, 97, 46, 97, 97, 32>>, <<97, 64, 97, 46, 97>>,
                <<97, 64, 97, 97, 97, 97, 46, 97, 97>>})
Odd == {[type |-> t] : t \in {"absent", "null", "Array", "number"}}
Bodies(names, mails) == [type : {"object"}, members : [firstName : names, lastName : names, email : mails]]
Asked ==
    {[Request(m, <<SLASH>>) EXCEPT !.development = d, !.origin = o, !.asks = a] :
        m \in {"GET", "OPTIONS"}, d \in BOOLEAN, o \in Origins, a \in {<<>>, <<"h">>}}
    \cup {[Request(m, p) EXCEPT !.wants_html = w, !.if_none_match = t, !.node = n] :
        m \in {"GET", "POST", "OPTIONS"}, p \in Paths, w \in BOOLEAN, t \in {0, 4},
        n \in {"none", "running", "failing"}}
    \cup {[Request("POST", CREATE) EXCEPT !.body = b] :
        b \in {[type |-> t] : t \in {"none", "not JSON", "array", "scalar"}}
              \cup Bodies(Names \cup Odd, Mails \cup Odd)}
    \cup {[Request("POST", CREATE) EXCEPT !.body = b, !.outcome = o] :
        b \in Bodies(Names, Mails), o \in {"queue full", "failed", "unavailable"}}

\* A letter, blanks of one to three bytes, a letter of two, a character of two units.
NameTexts == Lists({97, 32, 160, 233, 12288, 128512}, 4)
MailTexts == Lists({97, 49, 43, 46, 45, 64}, 5)

Nothing == [kind |-> "none"]
Questions(q) ==
    \/ \E r \in Asked : q = [kind |-> "request", req |-> r]
    \/ \E t \in NameTexts : q = [kind |-> "field", rule |-> Rule(2, 3, FALSE), text |-> t]
    \/ \E t \in MailTexts : q = [kind |-> "field", rule |-> Rule(0, 4, TRUE), text |-> t]

-----------------------------------------------------------------------------
\* The state of a program that does not run has one value.
Init ==
    /\ impl \in {"fast", "reference", "asked"} /\ Fast!Init /\ Reference!Init
    /\ impl # "reference" => kind = "sqlite"
    /\ impl # "fast" => selected = {"backend", "dht"}
    /\ IF impl = "asked" THEN Questions(question) ELSE question = Nothing

FastDoes(A) == impl = "fast" /\ A /\ UNCHANGED <<impl, question, referenceVars>>
ReferenceDoes(A) == impl = "reference" /\ A /\ UNCHANGED <<impl, question, fastVars>>

Answered == impl = "asked" /\ UNCHANGED vars

Next == FastDoes(Fast!Next) \/ ReferenceDoes(Reference!Next) \/ Answered

\* The fairness of the program that runs, as its module states it.
Spec ==
    /\ Init /\ [][Next]_vars
    /\ WF_vars(FastDoes(Fast!MainStep)) /\ WF_vars(FastDoes(Fast!DhtStep))
    /\ \A r \in Fast!Roles : WF_vars(FastDoes(Fast!RoleStep(r)))
    /\ \A q \in {1, 2} : WF_vars(FastDoes(Fast!Answer(q)))
    /\ WF_vars(ReferenceDoes(Reference!AllSettled))
    /\ WF_vars(ReferenceDoes(Reference!ForcedExit))
    /\ \A q \in 1 .. 3 : /\ WF_vars(ReferenceDoes(Reference!WaitedTooLong(q)))
                         /\ WF_vars(ReferenceDoes(Reference!Registers(q)))

-----------------------------------------------------------------------------
(* Properties, stated where the two programs are modelled.                   *)

\* No request reads a node of the fast path that is going down (peer_network.c).
NodeOutlivesItsReaders == Fast!NodeOutlivesItsReaders

\* An exit code says what became of the process: the roles and the last lines of the fast path
\* (main.c), and a whole shutdown of the reference path where it is 0 (shutdown.ts).
ExitIsTrue == Fast!ExitIsTrue /\ Reference!ExitZeroIsWhole

\* A signal or one failing role brings the whole fast process to its end (main.c, runtime.c);
\* requests of the reference path are answered and its shutdown ends (gate.ts, shutdown.ts).
ProcessEnds ==
    /\ impl = "fast" => Fast!ProcessEnds
    /\ impl = "reference" => Reference!ServesAndEnds

\* The gate of the reference path keeps its places and its queue (gate.ts).
PlacesAreKept == Reference!PlacesAreKept

\* Overlapping registrations of the reference path make whole accounts, answered for what they
\* are (register-account.ts, UserRepository.ts).
RegistrationIsWhole == Reference!RegistrationIsWhole

\* A client cannot tell which implementation, or which HTTP server, answered its request, and a
\* field is refused by the same rule and taken as the same value in both (Routes, FieldRules).
AnswersAgree ==
    /\ question.kind = "request" => AnswersAlike(question.req) /\ ServersAlike(question.req)
    /\ question.kind = "field" => RulesAgree(question.rule, question.text)
=============================================================================
