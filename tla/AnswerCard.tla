------------------------------ MODULE AnswerCard ------------------------------
(***************************************************************************)
(* card_v3.rs: a reply of the language model, parsed into the fields of    *)
(* one of three schemas, and made a card section by section: trimmed,      *)
(* validated, and replaced by a template when it does not validate.        *)
(*                                                                         *)
(* Of a text the model keeps what the rules look at: how many words and    *)
(* sentences it has, whether it ends as a question, and which kinds of     *)
(* tokens occur in it.  A word takes LettersPerWord characters, and what   *)
(* trimming cuts off is words, never one of the tokens.                    *)
(***************************************************************************)
EXTENDS Integers, Sequences

CONSTANT LettersPerWord

\* The longest answer of the templates, of 40 words, fits in the 800 characters
\* of the shortest limit of its section.
ASSUME LettersAssumption == LettersPerWord \in 1..20

Smaller(a, b) == IF a <= b THEN a ELSE b

\* "action", "coordination" and "factual" are looked for, "generic" and "vague"
\* refused, "sorry" opens the text, "exempt" excuses that; "date" and "who" choose
\* an answer, the topics a next step.
Topics == <<"email", "blocker", "plan", "ticket", "meeting", "approval", "owner",
            "document", "chat">>
Marks == {"action", "coordination", "factual", "generic", "vague", "sorry", "exempt",
          "date", "who"}
Tokens == Marks \cup {Topics[i] : i \in 1..Len(Topics)}
Sayings == [words : Nat, sentences : Nat, asks : BOOLEAN, tokens : SUBSET Tokens]

\* --- Limits -------------------------------------------------------------

Band(chars) ==
    CASE chars <= 40 -> "short"
      [] chars > 40 /\ chars <= 120 -> "medium"
      [] chars > 120 -> "long"

Chars == [gist |-> [short |-> 120, medium |-> 140, long |-> 160],
          say_now |-> [short |-> 800, medium |-> 1400, long |-> 1800],
          next_move |-> [short |-> 140, medium |-> 180, long |-> 200]]

\* A profile gives the words of an answer: min, max, short and strong.
MinWords(profile, band) ==
    IF band = "short" THEN Smaller(profile.min, profile.short) ELSE profile.min
MaxWords(profile, band) ==
    Smaller(profile.max, IF band = "short" THEN profile.short ELSE profile.strong)

trim_line(text, chars) ==
    IF text.words * LettersPerWord <= chars THEN text
    ELSE [text EXCEPT !.words = chars \div LettersPerWord, !.asks = FALSE]

\* --- Validation ---------------------------------------------------------

\* A question mark anywhere, or a question word among the first four.
QuestionLike(heard) == heard.asks \/ heard.opens

ApologyOnly(text) == "sorry" \in text.tokens /\ "exempt" \notin text.tokens

QuestionFault(text) == IF text.words < 4 THEN "short" ELSE "none"

AnswerFault(text, heard, profile) ==
    LET band == Band(heard.chars)
    IN  CASE text.words = 0 -> "empty"
          [] text.words > 0 /\ ApologyOnly(text) -> "apology"
          [] OTHER ->
                IF text.words < MinWords(profile, band) THEN "short"
                ELSE IF text.words > MaxWords(profile, band) THEN "long"
                ELSE IF "generic" \in text.tokens THEN "generic"
                ELSE IF text.sentences < 2 /\ text.words < 18 THEN "shape"
                ELSE IF ~QuestionLike(heard) /\ ~text.asks /\ "action" \notin text.tokens
                     THEN "action"
                ELSE "none"

StepFault(text, heard) ==
    IF text.words < 3 THEN "short"
    ELSE IF "vague" \in text.tokens THEN "vague"
    ELSE IF \/ "coordination" \in text.tokens
            \/ QuestionLike(heard) /\ "factual" \in text.tokens
         THEN "none"
    ELSE "loose"

\* --- Repair -------------------------------------------------------------

\* An opening and the beginning of the transcript, or a sentence of its own.
RepairedQuestion(text, heard) ==
    LET snippet == trim_line([text EXCEPT !.words = heard.words], 90)
    IN  IF text.words >= 4 THEN text
        ELSE [words |-> IF snippet.words > 0 THEN 4 + snippet.words ELSE 10,
              sentences |-> 1, asks |-> FALSE, tokens |-> {}]

\* The words of the nine answers, by what they are about and the variant.
AnswerWords == [date |-> <<37, 40, 35>>, who |-> <<33, 33, 31>>, other |-> <<35, 30, 32>>]

\* A bug of RepairedAnswer: every answer keeps its words.
RepairedAnswerKept(text, heard) ==
    [words |-> text.words + 22, sentences |-> text.sentences + 2, asks |-> FALSE,
     tokens |-> text.tokens \cup {"action"}]

\* A question keeps its words, and gets two sentences more.
RepairedAnswer(text, heard) ==
    LET tokens == text.tokens \cup heard.tokens
        about == IF "date" \in tokens THEN "date" ELSE IF "who" \in tokens THEN "who" ELSE "other"
    IN  IF text.asks
        THEN [words |-> text.words + 22, sentences |-> text.sentences + 2, asks |-> FALSE,
              tokens |-> text.tokens \cup {"action"}]
        ELSE [words |-> AnswerWords[about][heard.variant], sentences |-> 3, asks |-> FALSE,
              tokens |-> {"action"}]

FallbackIntent(text, heard) ==
    LET found == {i \in 1..Len(Topics) : Topics[i] \in text.tokens \cup heard.tokens}
    IN  IF found # {} THEN Topics[CHOOSE i \in found : \A j \in found : i <= j]
        ELSE IF QuestionLike(heard) THEN "factual" ELSE "default"

\* Two of the next steps name no artifact, owner or term that validation knows.
LooseSteps == {<<"blocker", 3>>, <<"document", 2>>}

FallbackStep(text, heard) ==
    LET intent == FallbackIntent(text, heard)
    IN  [words |-> 8, sentences |-> 1, asks |-> FALSE,
         tokens |-> CASE intent = "factual" /\ heard.cyrillic -> {"coordination", "factual"}
                      [] intent = "factual" /\ ~heard.cyrillic -> {"factual"}
                      [] OTHER -> IF <<intent, heard.variant>> \in LooseSteps THEN {}
                                  ELSE {"coordination"}]

\* What repair_section makes of a section: what stays, what replaces it, and
\* what is wrong with it then.
Section(given, fault, mended, faultThen) ==
    CASE fault = "none" -> [text |-> given, repaired |-> FALSE, fault |-> "none"]
      [] fault = "apology" -> [text |-> given, repaired |-> FALSE, fault |-> fault]
      [] OTHER -> [text |-> mended, repaired |-> TRUE, fault |-> faultThen]

QuestionSection(text, heard) ==
    LET max == Chars.gist[Band(heard.chars)]
        given == trim_line(text, max)
        mended == trim_line(RepairedQuestion(given, heard), max)
    IN  Section(given, QuestionFault(given), mended, QuestionFault(mended))

AnswerSection(text, heard, profile) ==
    LET max == Chars.say_now[Band(heard.chars)]
        given == trim_line(text, max)
        mended == trim_line(RepairedAnswer(given, heard), max)
    IN  Section(given, AnswerFault(given, heard, profile),
                mended, AnswerFault(mended, heard, profile))

StepSection(text, heard) ==
    LET max == Chars.next_move[Band(heard.chars)]
        given == trim_line(text, max)
        mended == trim_line(FallbackStep(given, heard), max)
    IN  Section(given, StepFault(given, heard), mended, StepFault(mended, heard))

\* --- The card of a reply ------------------------------------------------

\* A reply has a schema and, when it is "cut", no end: its fields are then read
\* one by one, and all have to be there.  "lost" is a reply no schema fits.
Parses(reply) ==
    CASE reply.shape = "whole" -> TRUE
      [] reply.shape = "cut" ->
            /\ reply.brief.words > 0 /\ reply.answer.words > 0 /\ reply.step.words > 0
            /\ reply.schema = "v4" => reply.full.words > 0
      [] reply.shape = "lost" -> FALSE

Brief(reply) ==
    IF reply.shape = "cut" THEN [reply.brief EXCEPT !.words = @ + 1] ELSE reply.brief

\* The short and the full answer in one, each trimmed to the length of both.
SayNow(reply, heard) ==
    LET max == Chars.say_now[Band(heard.chars)]
        short == trim_line(reply.answer, max)
        full == trim_line(reply.full, max)
    IN  IF reply.schema # "v4" \/ full.words = 0 \/ full = short THEN short
        ELSE [words |-> short.words + full.words,
              sentences |-> short.sentences + full.sentences,
              asks |-> full.asks, tokens |-> short.tokens \cup full.tokens]

\* normalize_card: the first section beyond repair is the error.
CardOfReply(reply, heard, profile) ==
    LET gist == QuestionSection(Brief(reply), heard)
        say_now == AnswerSection(SayNow(reply, heard), heard, profile)
        next_move == StepSection(reply.step, heard)
    IN  [ok |-> {gist.fault, say_now.fault, next_move.fault} = {"none"},
         gist |-> gist.text, say_now |-> say_now.text, next_move |-> next_move.text,
         repair_used |-> gist.repaired \/ say_now.repaired,
         fallback_used |-> next_move.repaired]
===============================================================================
