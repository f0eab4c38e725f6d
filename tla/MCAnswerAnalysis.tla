--------------------------- MODULE MCAnswerAnalysis ---------------------------
(* Four transcripts, the profiles with the shortest and the longest answers, and
   a reply for each way one may go wrong. *)
EXTENDS AnswerAnalysis

MCBudget == [stt |-> 18, llm |-> 24]

Heard(chars, asks, tokens, variant, cyrillic, unclear) ==
    [chars |-> chars, words |-> chars \div 6, asks |-> asks, opens |-> asks,
     tokens |-> tokens, variant |-> variant, cyrillic |-> cyrillic,
     unclear |-> unclear, facts |-> {"heard"}]

MCHeards == {Heard(30, TRUE, {}, 1, FALSE, FALSE),
             Heard(100, FALSE, {"blocker"}, 3, TRUE, FALSE),
             Heard(100, FALSE, {"document", "chat", "who"}, 1, TRUE, TRUE),
             Heard(300, FALSE, {"date"}, 2, TRUE, FALSE)}

MCProfiles == {[min |-> 12, max |-> 80, short |-> 42, strong |-> 56],
               [min |-> 24, max |-> 180, short |-> 60, strong |-> 100]}

Saying(words, sentences, asks, tokens) ==
    [words |-> words, sentences |-> sentences, asks |-> asks, tokens |-> tokens]
Nothing == Saying(0, 0, FALSE, {})

Brief4 == Saying(6, 1, FALSE, {})
Good == Saying(30, 2, FALSE, {"action"})
Long == Saying(150, 6, FALSE, {"action"})
Sorry == Saying(30, 2, FALSE, {"sorry"})
Asking(words, tokens) == Saying(words, 1, TRUE, tokens)
Concrete == Saying(6, 1, FALSE, {"coordination"})
Later == Saying(4, 1, FALSE, {"vague"})

Reply(schema, shape, brief, answer, full, step) ==
    [schema |-> schema, shape |-> shape, brief |-> brief, answer |-> answer,
     full |-> full, step |-> step]

MCReplies ==
    {Reply("v4", "whole", Brief4, Asking(9, {}), Good, Concrete),
     Reply("v4", "whole", Nothing, Good, Long, Later),
     Reply("v3", "cut", Brief4, Good, Nothing, Later),
     Reply("v4", "cut", Brief4, Good, Nothing, Concrete),
     Reply("legacy", "lost", Brief4, Good, Nothing, Concrete),
     Reply("v3", "whole", Brief4, Sorry, Nothing, Concrete),
     Reply("legacy", "whole", Nothing, Nothing, Nothing, Later),
     Reply("v3", "whole", Brief4, Asking(1, {}), Nothing, Later),
     Reply("v3", "whole", Brief4, Asking(20, {"generic"}), Nothing, Concrete)}

MCInterviews ==
    LET good == [SafeCard EXCEPT !.main = 40, !.strong = 50, !.metrics = {"heard"},
                                 !.behavioral = TRUE]
    IN  {good,
         [good EXCEPT !.star = FALSE],
         [good EXCEPT !.metrics = {"invented"}],
         [good EXCEPT !.anchors = {"invented"}],
         [good EXCEPT !.strong = 170],
         [good EXCEPT !.clarifier = "asked"],
         [good EXCEPT !.metrics = {}, !.mentions = FALSE],
         [good EXCEPT !.parses = FALSE]}
===============================================================================
