---------------------------- MODULE ContextMemo ----------------------------
(***************************************************************************)
(* The in-memory conversation context of the Rust backend                  *)
(* (src-tauri/src/context.rs, struct ConversationContext), as operators on *)
(* a record: every method that changes the struct is one operator from the *)
(* old record to the new one, so that the modules which hold a context     *)
(* (ConversationContext, CapturePipeline) call them where the code calls   *)
(* the methods.                                                            *)
(*                                                                         *)
(* A transcript is a number: all the code looks at is its number of words  *)
(* (WordsOf) and of characters (CharsOf).  last_touched is abstracted to   *)
(* what clear_if_expired reads of it: never touched, touched within the    *)
(* TTL, or longer ago than the TTL.                                        *)
(***************************************************************************)
EXTENDS Naturals, Sequences, Functions

CONSTANTS
    Texts,       \* the transcripts, positive numbers
    WordsOf,     \* transcript -> split_whitespace().count()
    CharsOf,     \* transcript -> chars().count()
    MaxEntries,  \* CONTEXT_MAX_ENTRIES
    MaxChars     \* CONTEXT_MAX_CHARS

ASSUME TextsAssumption ==
    /\ Texts \subseteq Nat \ {0}
    /\ WordsOf \in [Texts -> Nat \ {0}]
    /\ CharsOf \in [Texts -> Nat]

ASSUME WindowAssumption ==
    /\ MaxEntries \in Nat \ {0}
    /\ MaxChars \in Nat

NoText == 0

\* An answer card, reduced to the transcript it answers and the mode it was
\* made in (interview_card_schema_v1 present or not).
Modes == {"work", "interview"}
NoCard == [text |-> NoText, mode |-> "none"]
Cards == [text : Texts, mode : Modes] \cup {NoCard}

Ages == {"never", "recent", "expired"}

Contexts == [entries  : Seq(Texts),
             touched  : Ages,
             lastText : Texts \cup {NoText},
             lastCard : Cards]

EmptyContext == [entries |-> <<>>, touched |-> "never",
                 lastText |-> NoText, lastCard |-> NoCard]

----------------------------------------------------------------------------

\* clear
Cleared(c) == EmptyContext

\* clear_if_expired, the first call of every method that reads the struct
Unexpired(c) == IF c.touched = "expired" THEN Cleared(c) ELSE c

\* remember_transcript; every transcript the provider returns is non-blank
Remembered(c, t) == [c EXCEPT !.touched = "recent", !.lastText = t]

\* total_chars
TotalChars(e) ==
    LET sum[i \in 0..Len(e)] == IF i = 0 THEN 0 ELSE sum[i - 1] + CharsOf[e[i]]
    IN  sum[Len(e)]

\* Mutant: the limit on characters is exclusive.
FitsBelow(e, k) ==
    /\ Len(e) - k < MaxEntries
    /\ TotalChars(SubSeq(e, k, Len(e))) < MaxChars \/ k = Len(e)

\* What the drain and the while loop of commit_transcript leave of a window:
\* the entries from the first position at which both limits are met.
Fits(e, k) ==
    /\ Len(e) - k < MaxEntries
    /\ TotalChars(SubSeq(e, k, Len(e))) <= MaxChars \/ k = Len(e)

Trimmed(e) ==
    LET k == CHOOSE i \in 1..Len(e) :
                Fits(e, i) /\ \A h \in 1..(i - 1) : ~Fits(e, h)
    IN  SubSeq(e, k, Len(e))

\* Mutant: the commit relies on the earlier remember_transcript.
CommittedOnly(c, t) ==
    IF WordsOf[t] < 2 THEN c
    ELSE [c EXCEPT !.touched = "recent", !.entries = Trimmed(Append(@, t))]

\* commit_transcript
Committed(c, t) ==
    LET r == Remembered(c, t)
    IN  IF WordsOf[t] < 2 THEN r
        ELSE [r EXCEPT !.entries = Trimmed(Append(@, t))]

\* remember_card
WithCard(c, card) == [c EXCEPT !.touched = "recent", !.lastCard = card]

\* The two flags of ContextStatusDto the frontend keeps (status, after its
\* own clear_if_expired).
StatusOf(c) == [active |-> c.entries # <<>>, retry |-> c.lastText # NoText]

\* The passing of the TTL since last_touched.
Aged(c) == [c EXCEPT !.touched = "expired"]

=============================================================================
