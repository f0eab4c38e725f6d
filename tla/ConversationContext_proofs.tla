---------------------- MODULE ConversationContext_proofs ----------------------
(***************************************************************************)
(* What ConversationContext promises, for every window size and whatever   *)
(* is said.                                                                *)
(***************************************************************************)
EXTENDS ConversationContext, ContextMemo_proofs

\* The window is empty or within its limits: at most MaxEntries transcripts, of
\* at most MaxChars characters unless a single one is longer.
WindowBounded == memo.entries # <<>> => WithinLimits(memo.entries)

\* A context that analyses an utterance remembers at least one transcript, or
\* is empty.
MemoryInv == WindowBounded /\ ActiveImpliesRetry

\* While an utterance is analysed there is one.
Inv == TypeOK /\ (at # "idle" => text \in Texts) /\ MemoryInv

\* Facts on the operators, with the two flags and the limits.
Kept(c) == /\ c \in Contexts
           /\ c.entries # <<>> => WithinLimits(c.entries) /\ c.lastText # NoText

\* The empty context keeps the bounds and the retry offer,
LEMMA KeptEmpty == Kept(EmptyContext)
BY EmptyContextType DEF Kept, EmptyContext

\* and so does clear_if_expired,
LEMMA KeptUnexpired ==
    ASSUME NEW c, Kept(c)
    PROVE  Kept(Unexpired(c))
BY KeptEmpty DEF Unexpired, Cleared

\* the passing of the TTL,
LEMMA KeptAged ==
    ASSUME NEW c, Kept(c)
    PROVE  Kept(Aged(c))
<1>1. Aged(c) \in Contexts /\ Aged(c).entries = c.entries
  BY AgedType DEF Kept
<1>2. Aged(c).lastText = c.lastText
  BY DEF Kept, Aged, Contexts
<1>3. QED
  BY <1>1, <1>2 DEF Kept

\* remember_card,
LEMMA KeptWithCard ==
    ASSUME NEW c, Kept(c), NEW d \in Cards
    PROVE  Kept(WithCard(c, d))
<1>1. WithCard(c, d) \in Contexts /\ WithCard(c, d).entries = c.entries
  BY WithCardType DEF Kept
<1>2. WithCard(c, d).lastText = c.lastText
  BY DEF Kept, WithCard, Contexts
<1>3. QED
  BY <1>1, <1>2 DEF Kept

\* remember_transcript
LEMMA KeptRemembered ==
    ASSUME NEW c, Kept(c), NEW t \in Texts
    PROVE  Kept(Remembered(c, t)) /\ Remembered(c, t).lastText = t
<1>1. Remembered(c, t) \in Contexts /\ Remembered(c, t).entries = c.entries
  BY RememberedType DEF Kept
<1>2. Remembered(c, t).lastText = t
  BY DEF Kept, Remembered, Contexts
<1>3. t # NoText
  BY TextsAssumption DEF NoText
<1>4. QED
  BY <1>1, <1>2, <1>3 DEF Kept

\* and commit_transcript.
LEMMA KeptCommitted ==
    ASSUME NEW c, Kept(c), NEW t \in Texts
    PROVE  Kept(Committed(c, t))
<1> DEFINE r == Remembered(c, t)
           e == Append(r.entries, t)
           w == [r EXCEPT !.entries = Trimmed(e)]
<1>1. Kept(r) /\ r.lastText = t /\ t # NoText
  BY KeptRemembered, TextsAssumption DEF NoText
<1>2. r \in Contexts /\ r.entries \in Seq(Texts)
  BY <1>1 DEF Kept, Contexts
<1> HIDE DEF r
<1>3. e \in Seq(Texts) /\ e # <<>>
  BY <1>2, AppendProperties
<1> HIDE DEF e
<1>4. /\ Trimmed(e) \in Seq(Texts)
      /\ WithinLimits(Trimmed(e))
  BY <1>3, TrimmedBounded, WindowAssumption DEF WithinLimits
<1>5. w \in Contexts /\ w.entries = Trimmed(e) /\ w.lastText = t
  BY <1>1, <1>2, <1>4 DEF Contexts
<1>6. Kept(w)
  BY <1>1, <1>4, <1>5 DEF Kept
<1>7. Committed(c, t) = r \/ Committed(c, t) = w
  BY DEF Committed, r, e
<1>8. QED
  BY <1>1, <1>6, <1>7

----------------------------------------------------------------------------

\* What the methods keep is what the invariant says of the context.
LEMMA KeptIsMemoryInv ==
    /\ Inv <=> TypeOK /\ (at # "idle" => text \in Texts) /\ Kept(memo)
    /\ Kept(memo) <=> memo \in Contexts /\ MemoryInv
BY DEF Inv, MemoryInv, TypeOK, Kept, WindowBounded, ActiveImpliesRetry, StatusOf

\* The invariant holds initially.
LEMMA InvInit == Init => Inv
<1> SUFFICES ASSUME Init PROVE Inv
  OBVIOUS
<1>1. TypeOK
  <2>1. <<>> \in Seq(Texts) /\ [entries |-> <<>>, stale |-> FALSE] \in Prompts
    BY DEF Prompts
  <2>2. stale \in BOOLEAN /\ prompt \in Prompts
    BY <2>1, Zenon DEF Init
  <2>3. /\ memo \in Contexts /\ text \in Texts \cup {NoText}
        /\ spoken \in 0..MaxSpoken
        /\ at \in {"idle", "remembered", "read"} /\ log \in Seq(Texts)
    BY <2>1, EmptyContextType, SpokenAssumption DEF Init
  <2> QED
    BY <2>2, <2>3, Zenon DEF TypeOK
<1>2. Kept(memo)
  BY KeptEmpty DEF Init
<1>3. QED
  BY <1>1, <1>2, KeptIsMemoryInv DEF Init

\* The types of the history, whatever the context becomes
LEMMA HistoryType ==
    ASSUME TypeOK, NEW c \in Contexts
    PROVE  /\ LogAfter(c) \in Seq(Texts)
           /\ StaleAfter(c) \in BOOLEAN
           /\ [entries |-> c.entries, stale |-> StaleAfter(c)] \in Prompts
BY DEF TypeOK, LogAfter, StaleAfter, Forgets, Prompts, Contexts

\* Every step keeps the invariant.
LEMMA InvStep == Inv /\ [Next]_vars => Inv'
<1> SUFFICES ASSUME Inv, [Next]_vars PROVE Inv'
  OBVIOUS
<1>0. TypeOK /\ (at # "idle" => text \in Texts) /\ Kept(memo)
  BY KeptIsMemoryInv
<1>a. ASSUME TypeOK', (at # "idle" => text \in Texts)', Kept(memo')
      PROVE  Inv'
  BY <1>a DEF Inv, MemoryInv, TypeOK, Kept, WindowBounded, ActiveImpliesRetry,
     StatusOf
<1>1. ASSUME NEW t \in Texts, Remember(t) PROVE Inv'
  <2>1. Kept(memo')
    BY <1>0, <1>1, KeptRemembered DEF Remember
  <2>2. TypeOK' /\ text' \in Texts
    BY <1>0, <1>1, <2>1, SpokenAssumption DEF Remember, TypeOK, Kept
  <2> QED BY <1>a, <2>1, <2>2
<1>2. CASE Read
  <2>1. Kept(memo')
    BY <1>0, <1>2, KeptUnexpired DEF Read
  <2>2. memo' \in Contexts
    BY <2>1 DEF Kept
  <2>3. TypeOK'
    BY <1>0, <1>2, <2>2, HistoryType DEF Read, TypeOK
  <2> QED BY <1>0, <1>2, <1>a, <2>1, <2>3 DEF Read
<1>3. CASE Commit
  <2>1. text \in Texts
    BY <1>0, <1>3 DEF Commit
  <2>2. [text |-> text, mode |-> "work"] \in Cards
    BY <2>1 DEF Cards, Modes
  <2>3. Kept(memo')
    BY <1>0, <1>3, <2>1, <2>2, KeptCommitted, KeptWithCard DEF Commit
  <2>4. TypeOK'
    <3>1. log' \in Seq(Texts)
      BY <1>0, <1>3, <2>1, AppendProperties DEF Commit, TypeOK
    <3>2. memo' \in Contexts
      BY <2>3 DEF Kept
    <3>3. at' = "idle" /\ UNCHANGED <<text, spoken, stale, prompt>>
      BY <1>3 DEF Commit
    <3> QED BY <1>0, <3>1, <3>2, <3>3 DEF TypeOK
  <2> QED BY <1>3, <1>a, <2>3, <2>4 DEF Commit
<1>4. CASE Drop
  <2>1. TypeOK' /\ Kept(memo')
    BY <1>0, <1>4 DEF Drop, TypeOK
  <2> QED BY <1>4, <1>a, <2>1 DEF Drop
<1>5. CASE RetryReadsContext
  <2> DEFINE c == Unexpired(memo)
  <2>1. Kept(c) /\ c \in Contexts
    BY <1>0, KeptUnexpired DEF Kept
  <2>2. ASSUME c.lastText # NoText
        PROVE  [text |-> c.lastText, mode |-> "work"] \in Cards
    <3> HIDE DEF c
    <3> QED BY <2>1, <2>2 DEF Cards, Modes, Contexts
  <2>3. Kept(memo')
    BY <1>5, <2>1, <2>2, KeptWithCard DEF RetryReadsContext
  <2>4. TypeOK'
    BY <1>0, <1>5, <2>1, <2>3, HistoryType DEF RetryReadsContext, TypeOK, Kept
  <2> QED BY <1>0, <1>5, <1>a, <2>3, <2>4 DEF RetryReadsContext
<1>6. CASE Status
  <2>1. Kept(memo')
    BY <1>0, <1>6, KeptUnexpired DEF Status
  <2>2. memo' \in Contexts
    BY <2>1 DEF Kept
  <2>3. TypeOK'
    BY <1>0, <1>6, <2>2, HistoryType DEF Status, TypeOK
  <2> QED BY <1>0, <1>6, <1>a, <2>1, <2>3 DEF Status
<1>7. CASE Clear
  <2>1. Kept(memo')
    BY <1>7, KeptEmpty DEF Clear, Cleared
  <2>2. TypeOK'
    <3>1. stale' \in BOOLEAN
      BY <1>7, Zenon DEF Clear
    <3>2. memo' \in Contexts /\ log' \in Seq(Texts)
      BY <1>7, <2>1 DEF Clear, Kept
    <3>3. UNCHANGED <<at, text, spoken, prompt>>
      BY <1>7 DEF Clear
    <3> QED BY <1>0, <3>1, <3>2, <3>3, Zenon DEF TypeOK
  <2> QED BY <1>0, <1>7, <1>a, <2>1, <2>2 DEF Clear
<1>8. CASE TtlElapses
  <2>1. Kept(memo')
    BY <1>0, <1>8, KeptAged DEF TtlElapses
  <2>2. TypeOK'
    BY <1>0, <1>8, <2>1 DEF TtlElapses, TypeOK, Kept
  <2> QED BY <1>0, <1>8, <1>a, <2>1, <2>2 DEF TtlElapses
<1>9. CASE UNCHANGED vars
  <2>1. TypeOK' /\ Kept(memo')
    BY <1>0, <1>9 DEF vars, TypeOK
  <2> QED BY <1>0, <1>9, <1>a, <2>1 DEF vars
<1>10. QED
  BY <1>1, <1>2, <1>3, <1>4, <1>5, <1>6, <1>7, <1>8, <1>9 DEF Next

\* The state is well typed.
THEOREM ContextTypeCorrect == Spec => []TypeOK
<1>1. Inv => TypeOK
  BY DEF Inv
<1>2. QED
  BY <1>1, InvInit, InvStep, PTL DEF Spec

\* The conversation context stays bounded, whatever is committed to it.
THEOREM ContextBounded == Spec => []WindowBounded
<1>1. Inv => WindowBounded
  BY DEF Inv, MemoryInv
<1>2. QED
  BY <1>1, InvInit, InvStep, PTL DEF Spec

\* An active context always offers the retry of its last transcript.
THEOREM ActiveOffersRetry == Spec => []ActiveImpliesRetry
<1>1. Inv => ActiveImpliesRetry
  BY DEF Inv, MemoryInv
<1>2. QED
  BY <1>1, InvInit, InvStep, PTL DEF Spec

----------------------------------------------------------------------------

\* The longest suffix within the limits.
Longest(q, n) ==
    /\ n \in 1..Len(q) /\ WithinLimits(LastOf(q, n))
    /\ \A m \in 1..Len(q) : WithinLimits(LastOf(q, m)) => m <= n

\* The window is that of what was committed.
IsWindow(e, q) == IF q = <<>> THEN e = <<>> ELSE \E n \in 1..Len(q) : Longest(q, n) /\ e = LastOf(q, n)

LEMMA LastOfIs ==
    ASSUME NEW q \in Seq(Texts), NEW n \in 0..Len(q)
    PROVE  /\ LastOf(q, n) \in Seq(Texts) /\ Len(LastOf(q, n)) = n
           /\ \A i \in 1..n : LastOf(q, n)[i] = q[Len(q) - n + i]
<1>1. Len(q) \in Nat /\ n \in Nat /\ n <= Len(q)
  OBVIOUS
<1>2. \A i \in 1..n : Len(q) - n + 1 + i - 1 = Len(q) - n + i
  BY <1>1
<1> QED
  BY <1>1, <1>2 DEF LastOf

\* With one more entry, a suffix has one more, or is that entry.
LEMMA LastOfAppend ==
    ASSUME NEW q \in Seq(Texts), NEW t \in Texts, NEW n \in 0..Len(q)
    PROVE  LastOf(Append(q, t), n + 1) = Append(LastOf(q, n), t)
<1> DEFINE a == Append(q, t)
           b == Append(LastOf(q, n), t)
           l == LastOf(q, n)
<1>1. /\ Len(q) \in Nat /\ a \in Seq(Texts) /\ Len(a) = Len(q) + 1 /\ a[Len(q) + 1] = t
      /\ \A i \in 1..Len(q) : a[i] = q[i]
  OBVIOUS
<1>2. n \in Nat /\ n <= Len(q) /\ n + 1 \in 0..(Len(q) + 1)
  BY <1>1
<1>3. /\ LastOf(a, n + 1) \in Seq(Texts) /\ Len(LastOf(a, n + 1)) = n + 1
      /\ \A i \in 1..(n + 1) : LastOf(a, n + 1)[i] = a[Len(q) + 1 - (n + 1) + i]
  <2>1. a \in Seq(Texts) /\ n + 1 \in 0..Len(a) /\ Len(a) = Len(q) + 1
    BY <1>1, <1>2
  <2> HIDE DEF a
  <2>2. /\ LastOf(a, n + 1) \in Seq(Texts) /\ Len(LastOf(a, n + 1)) = n + 1
        /\ \A i \in 1..(n + 1) : LastOf(a, n + 1)[i] = a[Len(a) - (n + 1) + i]
    BY <2>1, LastOfIs
  <2> QED BY <2>1, <2>2
<1>4. l \in Seq(Texts) /\ Len(l) = n /\ \A i \in 1..n : l[i] = q[Len(q) - n + i]
  BY LastOfIs
<1>5. /\ b \in Seq(Texts) /\ Len(b) = n + 1 /\ b[n + 1] = t
      /\ \A i \in 1..n : b[i] = l[i]
  <2> HIDE DEF l
  <2> QED BY <1>4 DEF l
<1> HIDE DEF a, b, l
<1>6. ASSUME NEW i \in 1..(n + 1) PROVE LastOf(a, n + 1)[i] = b[i]
  <2>1. CASE i = n + 1
    <3>1. Len(q) + 1 - (n + 1) + i = Len(q) + 1
      BY <1>1, <1>2, <2>1
    <3> QED BY <1>1, <1>3, <1>5, <2>1, <3>1
  <2>2. CASE i \in 1..n
    <3>1. /\ Len(q) + 1 - (n + 1) + i = Len(q) - n + i
          /\ Len(q) - n + i \in 1..Len(q)
      BY <1>1, <1>2, <2>2
    <3>2. LastOf(a, n + 1)[i] = a[Len(q) - n + i] /\ a[Len(q) - n + i] = q[Len(q) - n + i]
      BY <1>1, <1>3, <3>1
    <3>3. b[i] = l[i] /\ l[i] = q[Len(q) - n + i]
      BY <1>4, <1>5, <2>2
    <3> QED BY <3>2, <3>3
  <2>3. i = n + 1 \/ i \in 1..n
    BY <1>2
  <2> QED BY <2>1, <2>2, <2>3
<1> QED
  BY <1>3, <1>5, <1>6, SeqEqual DEF a, b, l

\* A suffix that fits had a suffix that fitted before its last entry came.
LEMMA ShorterFits ==
    ASSUME NEW q \in Seq(Texts), NEW t \in Texts, NEW m \in 2..(Len(q) + 1),
           WithinLimits(LastOf(Append(q, t), m))
    PROVE  m - 1 \in 1..Len(q) /\ WithinLimits(LastOf(q, m - 1))
<1>1. /\ m \in Nat /\ m - 1 \in 0..Len(q) /\ m - 1 \in 1..Len(q) /\ m - 1 + 1 = m /\ m # 1
      /\ m - 1 \in Nat
  OBVIOUS
<1> DEFINE l == LastOf(q, m - 1)
<1>2. l \in Seq(Texts) /\ Len(l) = m - 1
  BY <1>1, LastOfIs
<1>3. LastOf(Append(q, t), m) = Append(l, t)
  BY <1>1, LastOfAppend
<1> HIDE DEF l
<1>4. Len(Append(l, t)) = m
  BY <1>1, <1>2
<1>5. /\ TotalChars(l) \in Nat /\ TotalChars(Append(l, t)) \in Nat
      /\ TotalChars(l) <= TotalChars(Append(l, t))
  BY <1>2, TotalOfAppend
<1>6. m <= MaxEntries /\ TotalChars(Append(l, t)) <= MaxChars
  BY <1>1, <1>3, <1>4 DEF WithinLimits
<1>7. m - 1 <= MaxEntries /\ TotalChars(l) <= MaxChars
  BY <1>1, <1>5, <1>6, WindowAssumption
<1> QED
  BY <1>1, <1>2, <1>7 DEF WithinLimits, l

\* Trimming the window of a history with one more entry gives the window of that.
LEMMA WindowMoves ==
    ASSUME NEW q \in Seq(Texts), NEW e \in Seq(Texts), IsWindow(e, q), NEW t \in Texts
    PROVE  IsWindow(Trimmed(Append(e, t)), Append(q, t))
<1> DEFINE a == Append(e, t)
           r == Append(q, t)
           n == Len(e)
<1>1. /\ n \in Nat /\ a \in Seq(Texts) /\ Len(a) = n + 1 /\ a # <<>>
      /\ Len(q) \in Nat /\ r \in Seq(Texts) /\ Len(r) = Len(q) + 1 /\ r # <<>>
  OBVIOUS
<1>2. /\ n <= Len(q) /\ e = LastOf(q, n)
      /\ \A m \in 1..Len(q) : WithinLimits(LastOf(q, m)) => m <= n
  <2>1. CASE q = <<>>
    <3>1. e = <<>> /\ Len(q) = 0 /\ n = 0
      BY <2>1 DEF IsWindow
    <3>2. LastOf(q, 0) = <<>>
      <4>1. Len(LastOf(q, 0)) = 0 /\ LastOf(q, 0) \in Seq(Texts)
        BY <1>1, LastOfIs
      <4> QED BY <4>1, EmptySeq
    <3> QED BY <3>1, <3>2
  <2>2. CASE q # <<>>
    <3>1. PICK k \in 1..Len(q) : Longest(q, k) /\ e = LastOf(q, k)
      BY <2>2 DEF IsWindow
    <3>2. k \in 0..Len(q)
      OBVIOUS
    <3>3. n = k
      BY <3>1, <3>2, LastOfIs
    <3> QED BY <3>1, <3>3 DEF Longest
  <2> QED BY <2>1, <2>2
<1>3. a = LastOf(r, n + 1)
  BY <1>1, <1>2, LastOfAppend
<1> HIDE DEF a, r
<1>4. PICK k \in 1..Len(a) : /\ FirstFit(a, k)
                             /\ Trimmed(a) = SubSeq(a, k, Len(a))
  BY <1>1, TrimmedIsFittingSuffix
<1> HIDE DEF n
<1>5. ASSUME NEW j \in 1..(n + 1)
      PROVE  /\ SubSeq(a, j, n + 1) = LastOf(r, n + 2 - j)
             /\ Fits(a, j) <=> WithinLimits(LastOf(r, n + 2 - j))
  <2> DEFINE m == n + 2 - j
             s == SubSeq(a, j, n + 1)
  <2>1. /\ m \in 1..(n + 1) /\ m \in 0..Len(r) /\ m \in Nat /\ Len(r) \in Nat
        /\ n + 1 \in 0..Len(r) /\ j \in Nat /\ n + 1 - j + 1 = m
    BY <1>1, <1>2
  <2>2. s \in Seq(Texts) /\ Len(s) = m /\ \A i \in 1..m : s[i] = a[j + i - 1]
    BY <1>1, <2>1
  <2>3. LastOf(r, m) \in Seq(Texts) /\ Len(LastOf(r, m)) = m
        /\ \A i \in 1..m : LastOf(r, m)[i] = r[Len(r) - m + i]
    BY <1>1, <2>1, LastOfIs
  <2>4. \A i \in 1..(n + 1) : a[i] = r[Len(r) - (n + 1) + i]
    BY <1>1, <1>3, <2>1, LastOfIs
  <2>5. ASSUME NEW i \in 1..m PROVE s[i] = LastOf(r, m)[i]
    <3>1. /\ j + i - 1 \in 1..(n + 1)
          /\ Len(r) - (n + 1) + (j + i - 1) = Len(r) - m + i
      BY <1>1, <2>1
    <3> QED BY <2>2, <2>3, <2>4, <3>1
  <2>6. s = LastOf(r, m)
    BY <2>2, <2>3, <2>5, SeqEqual
  <2>7. Len(a) - j < MaxEntries <=> m <= MaxEntries
    BY <1>1, <2>1, WindowAssumption
  <2>8. j = Len(a) <=> m = 1
    BY <1>1, <2>1
  <2> QED BY <1>1, <2>2, <2>6, <2>7, <2>8 DEF Fits, WithinLimits
<1> DEFINE w == n + 2 - k
<1>6. /\ k \in 1..(n + 1) /\ w \in 1..(n + 1) /\ w \in 1..Len(r) /\ w \in Nat
  BY <1>1, <1>2, <1>4
<1>7. Trimmed(a) = LastOf(r, w) /\ WithinLimits(LastOf(r, w))
  BY <1>1, <1>4, <1>5, <1>6 DEF FirstFit
<1>8. ASSUME NEW m \in 1..Len(r), WithinLimits(LastOf(r, m)) PROVE m <= w
  <2>1. m <= n + 1
    <3>1. CASE m = 1
      BY <1>1, <3>1
    <3>2. CASE m \in 2..(Len(q) + 1)
      <4>1. m - 1 \in 1..Len(q) /\ WithinLimits(LastOf(q, m - 1))
        BY <1>8, <3>2, ShorterFits DEF r
      <4> QED BY <1>1, <1>2, <4>1
    <3> QED BY <1>1, <3>1, <3>2
  <2> DEFINE j == n + 2 - m
  <2>2. j \in 1..(n + 1) /\ n + 2 - j = m /\ m \in Nat
    BY <1>1, <2>1
  <2>3. Fits(a, j)
    BY <1>5, <1>8, <2>2
  <2>4. ~(j \in 1..(k - 1))
    BY <1>4, <2>3 DEF FirstFit
  <2> QED BY <1>1, <1>6, <2>2, <2>4
<1>9. Longest(r, w)
  BY <1>6, <1>7, <1>8 DEF Longest
<1> HIDE DEF w
<1> QED
  BY <1>1, <1>6, <1>7, <1>9 DEF IsWindow, a, r

\* The window follows the history,
WindowInv == Inv /\ IsWindow(memo.entries, log)

\* through a clear_if_expired that clears it,
LEMMA WindowUnexpired ==
    ASSUME NEW c \in {memo, EmptyContext}, IsWindow(memo.entries, log)
    PROVE  IsWindow(c.entries, LogAfter(c))
<1>1. CASE c = EmptyContext
  BY <1>1 DEF LogAfter, Forgets, EmptyContext, IsWindow
<1>2. CASE c # EmptyContext
  BY <1>2 DEF LogAfter, Forgets
<1> QED
  BY <1>1, <1>2

\* and through a commit.
LEMMA WindowCommitted ==
    ASSUME memo \in Contexts, log \in Seq(Texts), IsWindow(memo.entries, log),
           NEW t \in Texts
    PROVE  IsWindow(Committed(memo, t).entries, IF WordsOf[t] < 2 THEN log ELSE Append(log, t))
<1> DEFINE r == Remembered(memo, t)
           e == Trimmed(Append(memo.entries, t))
<1>1. r \in Contexts /\ r.entries = memo.entries /\ memo.entries \in Seq(Texts)
  BY RememberedType DEF Contexts
<1>2. CASE WordsOf[t] < 2
  <2>1. Committed(memo, t) = r
    BY <1>2 DEF Committed
  <2> QED BY <1>1, <1>2, <2>1
<1>3. CASE ~(WordsOf[t] < 2)
  <2>1. Committed(memo, t) = [r EXCEPT !.entries = Trimmed(Append(@, t))]
    BY <1>3 DEF Committed
  <2> HIDE DEF r
  <2>2. [r EXCEPT !.entries = Trimmed(Append(@, t))].entries = Trimmed(Append(r.entries, t))
    BY <1>1 DEF Contexts
  <2>3. Committed(memo, t).entries = e
    BY <1>1, <2>1, <2>2
  <2> HIDE DEF e
  <2>4. IsWindow(e, Append(log, t))
    BY <1>1, WindowMoves DEF e
  <2> QED BY <1>3, <2>3, <2>4
<1> QED
  BY <1>2, <1>3

\* Every step keeps it.
LEMMA WindowStep == WindowInv /\ [Next]_vars => WindowInv'
<1> SUFFICES ASSUME Inv, IsWindow(memo.entries, log), [Next]_vars PROVE WindowInv'
  BY DEF WindowInv
<1>1. Inv' /\ memo \in Contexts /\ log \in Seq(Texts)
  BY InvStep DEF Inv, TypeOK
<1>2. IsWindow(memo'.entries, log')
  <2>1. ASSUME NEW t \in Texts, Remember(t) PROVE IsWindow(memo'.entries, log')
    BY <1>1, <2>1, RememberedType DEF Remember
  <2>2. CASE Read \/ RetryReadsContext \/ Status
    <3> DEFINE c == Unexpired(memo)
    <3>1. c \in {memo, EmptyContext} /\ c \in Contexts
      BY <1>1, UnexpiredType
    <3>2. IsWindow(c.entries, LogAfter(c))
      <4> HIDE DEF c
      <4> QED BY <3>1, WindowUnexpired
    <3>3. CASE Read \/ Status
      BY <3>2, <3>3 DEF Read, Status
    <3>4. CASE RetryReadsContext
      <4>1. /\ log' = LogAfter(c)
            /\ memo' = IF c.lastText = NoText THEN c
                       ELSE WithCard(c, [text |-> c.lastText, mode |-> "work"])
        BY <3>4 DEF RetryReadsContext
      <4> HIDE DEF c
      <4>2. memo'.entries = c.entries
        <5>1. \A d : WithCard(c, d).entries = c.entries
          BY <3>1 DEF WithCard, Contexts
        <5> QED BY <4>1, <5>1
      <4> QED BY <3>2, <4>1, <4>2
    <3> QED BY <2>2, <3>3, <3>4
  <2>3. CASE Commit
    <3>1. text \in Texts
      BY <2>3 DEF Commit, Inv
    <3>2. Committed(memo, text) \in Contexts
      BY <1>1, <3>1, CommittedType
    <3>3. /\ memo' = WithCard(Committed(memo, text), [text |-> text, mode |-> "work"])
          /\ log' = IF WordsOf[text] < 2 THEN log ELSE Append(log, text)
      BY <2>3 DEF Commit
    <3>4. \A d : WithCard(Committed(memo, text), d).entries = Committed(memo, text).entries
      BY <3>2 DEF WithCard, Contexts
    <3>5. memo'.entries = Committed(memo, text).entries
      BY <3>3, <3>4
    <3> QED BY <1>1, <3>1, <3>3, <3>5, WindowCommitted
  <2>4. CASE Clear
    BY <2>4 DEF Clear, Cleared, EmptyContext, IsWindow
  <2>5. CASE TtlElapses
    BY <1>1, <2>5, AgedType DEF TtlElapses
  <2>6. CASE Drop \/ UNCHANGED vars
    BY <2>6 DEF Drop, vars
  <2> QED
    BY <2>1, <2>2, <2>3, <2>4, <2>5, <2>6 DEF Next
<1> QED
  BY <1>1, <1>2 DEF WindowInv

\* Of all suffixes of what was committed that respect both limits the window is
\* the longest: no commit drops an entry the limits leave room for.
THEOREM WindowIsLatest == Spec => []WindowIsLongestSuffix
<1>1. Init => WindowInv
  <2>1. Init => memo.entries = <<>> /\ log = <<>>
    BY DEF Init, EmptyContext
  <2> QED BY <2>1, InvInit DEF WindowInv, IsWindow
<1>2. WindowInv => WindowIsLongestSuffix
  <2> SUFFICES ASSUME Inv, IsWindow(memo.entries, log), log # <<>>
               PROVE  WindowIsLongestSuffix
    BY DEF WindowInv, IsWindow, WindowIsLongestSuffix
  <2> DEFINE fitting == {n \in 1..Len(log) : WithinLimits(LastOf(log, n))}
  <2>1. PICK n \in 1..Len(log) : Longest(log, n) /\ memo.entries = LastOf(log, n)
    BY DEF IsWindow
  <2>2. n \in fitting /\ \A m \in fitting : m <= n /\ m \in Int
    BY <2>1 DEF Longest
  <2>3. Max(fitting) = n
    <3> HIDE DEF fitting
    <3>1. Max(fitting) \in fitting /\ \A m \in fitting : Max(fitting) >= m
      BY <2>2 DEF Max
    <3>2. /\ Max(fitting) <= n /\ Max(fitting) >= n
          /\ Max(fitting) \in Int /\ n \in Int
      BY <2>2, <3>1
    <3>3. \A x, y \in Int : x <= y /\ x >= y => x = y
      OBVIOUS
    <3> QED BY <3>2, <3>3, Zenon
  <2> QED BY <2>1, <2>3 DEF WindowIsLongestSuffix
<1>3. QED
  BY <1>1, <1>2, WindowStep, PTL DEF Spec

=============================================================================
