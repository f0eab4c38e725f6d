------------------------ MODULE ConversationContext ------------------------
(***************************************************************************)
(* The conversation context over time: the utterances of one user, one     *)
(* after the other, through the calls the backend makes of it              *)
(* (capture_pipeline.rs, commands/context.rs), with windows and utterances *)
(* of every size.  CapturePipeline holds the same operators under          *)
(* concurrency; here the question is what the window contains.             *)
(***************************************************************************)
EXTENDS ContextMemo, SequencesExt

CONSTANTS
    MaxSpoken  \* bound: utterances

ASSUME SpokenAssumption == MaxSpoken \in Nat

VARIABLES
    memo,    \* the ConversationContext
    at,      \* how far the analysis of the utterance is
    text,    \* the utterance
    spoken,  \* utterances so far
    log,     \* history: the utterances committed since the context was empty
    stale,   \* history: the TTL passed over the entries
    prompt   \* history: what the last analysis read, and whether it was stale

vars == <<memo, at, text, spoken, log, stale, prompt>>

Prompts == [entries : Seq(Texts), stale : BOOLEAN]

\* The context is a context, its last transcript and card are of this user.
TypeOK ==
    /\ memo \in Contexts
    /\ at \in {"idle", "remembered", "read"}
    /\ text \in Texts \cup {NoText}
    /\ spoken \in 0..MaxSpoken
    /\ log \in Seq(Texts)
    /\ stale \in BOOLEAN
    /\ prompt \in Prompts

Init ==
    /\ memo = EmptyContext
    /\ at = "idle"
    /\ text = NoText
    /\ spoken = 0
    /\ log = <<>>
    /\ stale = FALSE
    /\ prompt = [entries |-> <<>>, stale |-> FALSE]

\* A clearing starts the history again.
Forgets(c) == c = EmptyContext
LogAfter(c) == IF Forgets(c) THEN <<>> ELSE log
StaleAfter(c) == stale /\ ~Forgets(c)

\* The transcript arrives.
Remember(t) ==
    /\ at = "idle" /\ spoken < MaxSpoken
    /\ memo' = Remembered(memo, t)
    /\ at' = "remembered" /\ text' = t
    /\ spoken' = spoken + 1
    /\ UNCHANGED <<log, stale, prompt>>

\* The prompt is made from formatted_context.
Read ==
    /\ at = "remembered"
    /\ memo' = Unexpired(memo)
    /\ at' = "read"
    /\ prompt' = [entries |-> memo'.entries, stale |-> StaleAfter(memo')]
    /\ log' = LogAfter(memo') /\ stale' = StaleAfter(memo')
    /\ UNCHANGED <<text, spoken>>

\* The card arrives.
Commit ==
    /\ at = "read"
    /\ memo' = WithCard(Committed(memo, text), [text |-> text, mode |-> "work"])
    /\ at' = "idle"
    /\ log' = IF WordsOf[text] < 2 THEN log ELSE Append(log, text)
    /\ UNCHANGED <<text, spoken, stale, prompt>>

\* No card arrives: the transcript stays for a retry.
Drop ==
    /\ at = "read"
    /\ at' = "idle"
    /\ UNCHANGED <<memo, text, spoken, log, stale, prompt>>

\* Mutant: a missing transcript is not an error.
RetryReadsNothing ==
    LET c == Unexpired(memo)
    IN  /\ at = "idle"
        /\ memo' = WithCard(c, [text |-> c.lastText, mode |-> "work"])
        /\ prompt' = [entries |-> c.entries, stale |-> StaleAfter(c)]
        /\ log' = LogAfter(c) /\ stale' = StaleAfter(c)
        /\ UNCHANGED <<at, text, spoken>>

\* retry_last_analysis up to its card, and its card
RetryReadsContext ==
    LET c == Unexpired(memo)
    IN  /\ at = "idle"
        /\ memo' = IF c.lastText = NoText THEN c
                   ELSE WithCard(c, [text |-> c.lastText, mode |-> "work"])
        /\ prompt' = [entries |-> c.entries, stale |-> StaleAfter(c)]
        /\ log' = LogAfter(c) /\ stale' = StaleAfter(c)
        /\ UNCHANGED <<at, text, spoken>>

\* get_context_status and load_bootstrap
Status ==
    /\ memo' = Unexpired(memo)
    /\ log' = LogAfter(memo') /\ stale' = StaleAfter(memo')
    /\ UNCHANGED <<at, text, spoken, prompt>>

\* clear_context and the tray
Clear ==
    /\ memo' = Cleared(memo)
    /\ log' = <<>> /\ stale' = FALSE
    /\ UNCHANGED <<at, text, spoken, prompt>>

TtlElapses ==
    /\ memo.touched = "recent"
    /\ memo' = Aged(memo)
    /\ stale' = (memo.entries # <<>>)
    /\ UNCHANGED <<at, text, spoken, log, prompt>>

Next ==
    \/ \E t \in Texts : Remember(t)
    \/ Read \/ Commit \/ Drop
    \/ RetryReadsContext \/ Status \/ Clear \/ TtlElapses

Spec == Init /\ [][Next]_vars

----------------------------------------------------------------------------
(* Properties *)

\* The reference definition of the window: the longest suffix of what was
\* committed that respects both limits, and at least the newest entry.
WithinLimits(e) ==
    /\ Len(e) <= MaxEntries
    /\ TotalChars(e) <= MaxChars \/ Len(e) = 1

LastOf(e, n) == SubSeq(e, Len(e) - n + 1, Len(e))

\* Trimming step by step, commit after commit, never loses more than the
\* limits demand and never keeps less recent entries (context.rs 44-58).
WindowIsLongestSuffix ==
    LET fitting == {n \in 1..Len(log) : WithinLimits(LastOf(log, n))}
    IN  IF log = <<>> THEN memo.entries = <<>>
        ELSE memo.entries = LastOf(log, Max(fitting))

\* A retry is offered exactly when there is a transcript to retry, and an
\* active context always has one, also after a failure or an expiry
\* (the flags of ContextStatusDto).
ActiveImpliesRetry == StatusOf(memo).active => StatusOf(memo).retry

\* Nothing older than the TTL is sent to a provider ("RAM-only, bounded, and
\* cleared on restart or after TTL expiry", docs/product/privacy.md 42).
ExpiredNotServed == ~(prompt.stale /\ prompt.entries # <<>>)

=============================================================================
