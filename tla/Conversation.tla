----------------------------- MODULE Conversation -----------------------------
(***************************************************************************)
(* The questions put to the assistant (assistant/runtime.py, service.py,   *)
(* cache.py, tools.py) in one API process.  A question is a few rounds     *)
(* with a model of the chain, each round a streamed turn that may ask for  *)
(* tools; between two chunks the event loop serves the other questions.    *)
(* Figures read by a tool, and whole answers, are kept for a short time    *)
(* and used again, by other questions too.                                 *)
(*                                                                         *)
(* Time is the age of the figures, wherever they are, and how long a       *)
(* question has been running: there is no clock.                           *)
(***************************************************************************)
EXTENDS Integers, Sequences, SequencesExt, FiniteSets

CONSTANTS
    Asks,        \* the questions that may be put: bound of the model
    Forms,       \* the company, wording and history each may come with
    Chain,       \* the configured model and its fallbacks
    Turns,       \* the tool calls a turn may end with: sequences of tools
    ToolTTL, AnswerTTL, CooldownTicks,
    MaxRounds, MaxCalls, RetryAttempts,
    MaxRestarts, \* bound of the model
    MaxTook      \* bound of the model: a question may run as long as it likes

Reads == {"check_stock"}             \* stands for the eight cacheable reads
Proposing == "create_purchase_order"
Unknown == "unknown"                 \* a tool that does not exist
Raises == "raises"                   \* e.g. with an argument it does not have
Tools == Reads \cup {Proposing, Unknown, Raises}

Form == [company : STRING, text : STRING, history : BOOLEAN]

ASSUME ConversationAssumption ==
    /\ Forms \in [Asks -> SUBSET Form]
    /\ Turns \subseteq Seq(Tools) /\ <<>> \in Turns
    /\ Len(Chain) > 0 /\ ToSet(Chain) \cap {"none"} = {}
    /\ {ToolTTL, AnswerTTL, CooldownTicks, MaxRounds, MaxCalls, RetryAttempts}
          \subseteq Nat \ {0}
    /\ MaxRestarts \in Nat /\ MaxTook \in Nat

VARIABLES
    talk,      \* each question's progress
    shown,     \* the answer that the last step showed, if it showed one
    shelf,     \* the tool cache
    answers,   \* the answer cache
    resting,   \* ticks for which a model is set aside
    proposers, \* the questions that have a committed proposal
    restarts

conversationVars == <<talk, shown, shelf, answers, resting, proposers, restarts>>

Companies == {f.company : f \in UNION Range(Forms)}
Texts == {f.text : f \in UNION Range(Forms)} \* case and blanks normalised
Models == ToSet(Chain)
None == [kept |-> FALSE]
Silence == [stage |-> "none"]
Over(stage) == [stage |-> stage]
Running == {"opening", "streaming"}
Active == {x \in Asks : talk[x].stage \in Running}

-----------------------------------------------------------------------------
(* The two caches.                                                         *)

\* Mutated: one shelf for all companies.
ToolKeyShared(company, tool) == <<CHOOSE c \in Companies : TRUE, tool>>
ToolKey(company, tool) == <<company, tool>>
AnswerKey(company, text) == <<company, text>>

ToolKeys == {ToolKey(c, t) : c \in Companies, t \in Reads}
AnswerKeys == {AnswerKey(c, t) : c \in Companies, t \in Texts}

\* A figure is known by whose it is and by its age since the database was read.
Fresh(company) == [of |-> company, age |-> 0]
Older(figures) == {[f EXCEPT !.age = @ + 1] : f \in figures}

Keep(value, ttl) == [kept |-> TRUE, left |-> ttl, value |-> value]
Hit(entry) == entry.kept
Lapses(entry) == ~entry.kept \/ entry.left = 1

ConversationInit ==
    /\ talk = [x \in Asks |-> Silence]
    /\ shown = Silence
    /\ shelf = [k \in ToolKeys |-> None]
    /\ answers = [k \in AnswerKeys |-> None]
    /\ resting = [m \in Models |-> 0]
    /\ proposers = {}
    /\ restarts = 0

AgedFigure(entry) ==
    IF Lapses(entry) THEN None
    ELSE [entry EXCEPT !.left = @ - 1, !.value.age = @ + 1]
AgedAnswer(entry) ==
    IF Lapses(entry) THEN None
    ELSE [entry EXCEPT !.left = @ - 1, !.value.cites = Older(@)]
AgedTalk(r) ==
    IF r.stage \notin Running THEN r
    ELSE [r EXCEPT !.took = @ + 1, !.knows = Older(@), !.cites = Older(@)]

\* Nothing in the code ends a question that takes long.
Tick ==
    /\ \A x \in Active : talk[x].took < MaxTook
    /\ talk' = [x \in Asks |-> AgedTalk(talk[x])]
    /\ shelf' = [k \in ToolKeys |-> AgedFigure(shelf[k])]
    /\ answers' = [k \in AnswerKeys |-> AgedAnswer(answers[k])]
    /\ resting' = [m \in Models |-> IF resting[m] = 0 THEN 0 ELSE resting[m] - 1]
    /\ shown' = Silence
    /\ UNCHANGED <<proposers, restarts>>

-----------------------------------------------------------------------------
(* Asking.                                                                 *)

Usable ==
    LET fresh == SelectSeq(Chain, LAMBDA m : resting[m] = 0)
    IN  IF fresh = <<>> THEN Chain ELSE fresh

\* The models a round may be opened with.
Openers(round, model) == IF round = 1 THEN Usable ELSE <<model>>

Started(company, text, history) ==
    [stage |-> "opening", company |-> company, text |-> text,
     history |-> history, took |-> 0, round |-> 1, order |-> Openers(1, "none"), attempt |-> 1,
     model |-> "none", used |-> 0, tools |-> {}, knows |-> {},
     made |-> FALSE, said |-> FALSE, cites |-> {}, promises |-> FALSE]

AnswerFor(company, text, history) ==
    IF history THEN None ELSE answers[AnswerKey(company, text)]

\* The answer in r, and what is seen of an answer.
Answer(x, r, whole) ==
    [of |-> [company |-> r.company, text |-> r.text, history |-> r.history],
     took |-> r.took, cites |-> r.cites, promises |-> r.promises, whole |-> whole]
Seen(x, company, text, history, answer, replayed) ==
    [stage |-> "shown", by |-> x, replayed |-> replayed, answer |-> answer,
     for |-> [company |-> company, text |-> text, history |-> history]]

Ask(x, company, text, history) ==
    /\ talk[x] = Silence
    /\ LET hit == AnswerFor(company, text, history)
       IN  IF Hit(hit)
           THEN /\ shown' = Seen(x, company, text, history, hit.value, TRUE)
                /\ talk' = [talk EXCEPT ![x] = Over("done")]
           ELSE /\ talk' = [talk EXCEPT ![x] = Started(company, text, history)]
                /\ shown' = Silence
    /\ UNCHANGED <<shelf, answers, resting, proposers, restarts>>

-----------------------------------------------------------------------------
(* The end of a question.                                                  *)

Truncated(r) == r.used > MaxCalls

\* Mutated: whatever tools the answer rests on.
MayRememberAny(r, flagged) == ~r.history /\ ~flagged
MayRemember(r, flagged) ==
    ~r.history /\ ~flagged /\ r.tools \subseteq Reads

\* A question ends with what its turns have said so far; `flagged` is the
\* output filter's verdict and `failed` whether the provider broke it off.
Conclude(x, r, failed) ==
    IF ~r.said
    THEN /\ talk' = [talk EXCEPT ![x] = Over("error")]
         /\ UNCHANGED answers /\ shown' = Silence
    ELSE \E flagged \in BOOLEAN :
         LET answer == Answer(x, r, ~failed /\ ~Truncated(r))
         IN  /\ talk' = [talk EXCEPT ![x] = Over("done")]
             /\ shown' = Seen(x, r.company, r.text, r.history, answer, FALSE)
             /\ answers' = IF MayRemember(r, flagged)
                           THEN [answers EXCEPT ![AnswerKey(r.company, r.text)] =
                                   Keep(answer, AnswerTTL)]
                           ELSE answers

-----------------------------------------------------------------------------
(* Opening a turn: the request, its first chunk, retries and fallbacks.    *)

Opening(x) == talk[x].stage = "opening"
\* Mutated: the same model is tried again.
RefusedSame(r) == [r EXCEPT !.attempt = 1]
Refused(r) == [r EXCEPT !.order = Tail(r.order), !.attempt = 1]

OpenTurn(x) ==
    /\ Opening(x)
    /\ LET r == talk[x]
       IN  talk' = [talk EXCEPT ![x] =
              [r EXCEPT !.stage = "streaming", !.model = Head(r.order),
                        !.order = <<>>]]
    /\ shown' = Silence
    /\ UNCHANGED <<shelf, answers, resting, proposers, restarts>>

\* The next model of the order, or the failure of the question.
TryNext(x) ==
    LET r == Refused(talk[x])
    IN  IF r.order = <<>>
        THEN Conclude(x, r, TRUE)
        ELSE /\ talk' = [talk EXCEPT ![x] = r]
             /\ UNCHANGED answers /\ shown' = Silence

\* A model out of its daily quota, or withdrawn, is set aside for everyone.
ModelSpent(x) ==
    /\ Opening(x)
    /\ resting' = [resting EXCEPT ![Head(talk[x].order)] = CooldownTicks]
    /\ TryNext(x)
    /\ UNCHANGED <<shelf, proposers, restarts>>

\* A quota per minute is waited for, then the next model is tried.
ModelBusy(x) ==
    /\ Opening(x)
    /\ IF talk[x].attempt < RetryAttempts
       THEN /\ talk' = [talk EXCEPT ![x].attempt = @ + 1]
            /\ UNCHANGED answers /\ shown' = Silence
       ELSE TryNext(x)
    /\ UNCHANGED <<shelf, resting, proposers, restarts>>

OpenFails(x) ==
    /\ Opening(x)
    /\ Conclude(x, talk[x], TRUE)
    /\ UNCHANGED <<shelf, resting, proposers, restarts>>

-----------------------------------------------------------------------------
(* A turn: text, then the tools it asks for.                               *)

Streaming(x) == talk[x].stage = "streaming"

\* The record after the text of a turn, if there was any: the answer may rest
\* on everything the earlier rounds looked up.
Said(r, text) ==
    IF ~text THEN r
    ELSE [r EXCEPT !.said = TRUE, !.cites = r.knows, !.promises = r.made]

StreamBreaks(x, text) ==
    /\ Streaming(x)
    /\ Conclude(x, Said(talk[x], text), TRUE)
    /\ UNCHANGED <<shelf, resting, proposers, restarts>>

\* Mutated: put back on the shelf wherever it came from.
ReadAndPutBack(desk, company, tool) ==
    LET k == ToolKey(company, tool)
        entry == desk.shelf[k]
        figure == IF Hit(entry) THEN entry.value ELSE Fresh(company)
    IN  [desk EXCEPT !.knows = @ \cup {figure}, !.shelf[k] = Keep(figure, ToolTTL)]
\* A read: from the shelf, or from the database and onto the shelf.
Read(desk, company, tool) ==
    LET k == ToolKey(company, tool)
        entry == desk.shelf[k]
    IN  IF Hit(entry)
        THEN [desk EXCEPT !.knows = @ \cup {entry.value}]
        ELSE [desk EXCEPT !.knows = @ \cup {Fresh(company)},
                          !.shelf[k] = Keep(Fresh(company), ToolTTL)]

Charge(used) == IF used > MaxCalls THEN used ELSE used + 1

\* One call of a turn.  Nothing runs after a call that raises; a tool that
\* does not exist costs nothing; over budget, the tool is refused.
Call(company, desk, tool) ==
    IF desk.failed \/ tool = Unknown THEN desk
    ELSE IF tool = Raises THEN [desk EXCEPT !.failed = TRUE]
    ELSE LET charged == [desk EXCEPT !.used = Charge(@)]
             ran == [charged EXCEPT !.tools = @ \cup {tool}]
         IN  IF charged.used > MaxCalls THEN charged
             ELSE IF tool \in Reads THEN Read(ran, company, tool)
             ELSE [ran EXCEPT !.made = TRUE]

RunCalls(company, desk, calls) ==
    FoldLeft(LAMBDA d, t : Call(company, d, t), desk, calls)

\* The record of a question after its tools have run, and after a new round
\* has begun.
After(r, desk) ==
    [r EXCEPT !.used = desk.used, !.tools = desk.tools, !.knows = desk.knows,
              !.made = desk.made]
MayGoOn(r) == r.round < MaxRounds
NextRound(r) ==
    [r EXCEPT !.stage = "opening", !.round = @ + 1, !.attempt = 1,
              !.order = Openers(r.round + 1, r.model)]

\* The turn has ended: without calls, the question has too.
EndTurn(x, text, calls) ==
    /\ Streaming(x)
    /\ LET r == Said(talk[x], text)
           desk == RunCalls(r.company,
                            [shelf |-> shelf, used |-> r.used, tools |-> r.tools,
                             knows |-> r.knows, made |-> r.made,
                             failed |-> FALSE], calls)
           ran == After(r, desk)
       IN  /\ shelf' = desk.shelf
           /\ proposers' = IF desk.made THEN proposers \cup {x} ELSE proposers
           /\ IF calls # <<>> /\ ~desk.failed /\ MayGoOn(r)
              THEN /\ talk' = [talk EXCEPT ![x] = NextRound(ran)]
                   /\ UNCHANGED answers /\ shown' = Silence
              ELSE Conclude(x, ran, desk.failed)
    /\ UNCHANGED <<resting, restarts>>

-----------------------------------------------------------------------------
(* The reader leaves, or the process restarts: what it kept is gone, what  *)
(* was committed is not.                                                   *)

Disconnect(x) ==
    /\ x \in Active
    /\ talk' = [talk EXCEPT ![x] = Over("gone")]
    /\ shown' = Silence
    /\ UNCHANGED <<shelf, answers, resting, proposers, restarts>>

Restart ==
    /\ restarts < MaxRestarts
    /\ restarts' = restarts + 1
    /\ talk' = [x \in Asks |-> IF x \in Active THEN Over("gone") ELSE talk[x]]
    /\ shelf' = [k \in ToolKeys |-> None]
    /\ answers' = [k \in AnswerKeys |-> None]
    /\ resting' = [m \in Models |-> 0]
    /\ shown' = Silence
    /\ UNCHANGED proposers

\* What the provider and the event loop do for a question that was asked.
Proceed(x) ==
    \/ OpenTurn(x) \/ ModelSpent(x) \/ ModelBusy(x) \/ OpenFails(x)
    \/ \E text \in BOOLEAN :
          \/ StreamBreaks(x, text)
          \/ \E calls \in Turns : EndTurn(x, text, calls)

ConversationNext ==
    \/ Tick
    \/ Restart
    \/ \E x \in Asks :
          \/ \E f \in Forms[x] : Ask(x, f.company, f.text, f.history)
          \/ Disconnect(x)
          \/ Proceed(x)

\* The provider answers a request, if only with an error, and the event loop
\* goes on with some coroutine that can go on: no fairness between questions.
Fairness == WF_conversationVars(\E x \in Asks : Proceed(x))

ConversationSpec == ConversationInit /\ [][ConversationNext]_conversationVars /\ Fairness

-----------------------------------------------------------------------------
(* What the caches and the rounds must not break.                          *)

WasShown == shown.stage = "shown"

\* An answer was written for this question: for the same company and the same
\* wording, from figures of that company only; and one that is replayed stands
\* on its own, neither question having earlier turns (cache.py, both keys and
\* answer_for; service.py, the closures over company_id).
AnswersFitTheQuestion ==
    WasShown =>
        LET s == shown
        IN  /\ s.answer.of.company = s.for.company
            /\ s.answer.of.text = s.for.text
            /\ s.replayed => ~s.for.history /\ ~s.answer.of.history
            /\ \A f \in s.answer.cites : f.of = s.for.company

\* A figure passes from the database to the shelf, to the question that finds
\* it there, to its answer and to those the answer is given again.  All this
\* together never makes it older, when it is shown, than the shelf's time to
\* live and the time the question that wrote the answer took; and the answers'
\* time to live, if the answer is replayed (cache.py, "The TTL is the whole
\* design").  What the question takes is not bounded by anything.
FiguresAreRecent ==
    WasShown =>
        LET reach == shown.answer.took + (IF shown.replayed THEN AnswerTTL ELSE 0)
        IN  \A f \in shown.answer.cites : f.age < ToolTTL + reach

\* An answer that says an order awaits approval is shown only for a question
\* that has proposed one, and the proposal is committed by then, whatever
\* becomes of the question or the process (cache.py, "replaying it proposes
\* nothing"; tools.py, "a proposal that vanished").
PromisesAreKept ==
    WasShown /\ shown.answer.promises => shown.by \in proposers

\* Time and again nobody waits: every question ends, with an answer or with a
\* reason, because quotas, retries, fallbacks, tool calls and rounds are all
\* bounded (runtime.py, stream and _open; config.py, ASSISTANT_MAX_ROUNDS).
EveryQuestionEnds == []<>(Active = {})

\* What cache.py says of the answers it keeps: "Only clean answers. Anything
\* the output filter flagged, anything that errored" is not worth keeping.
\* One that the provider broke off, or that ran into the budget, is kept.
KeptAnswersAreWhole ==
    \A k \in AnswerKeys : answers[k].kept => answers[k].value.whole
=============================================================================
