------------------------- MODULE ContextMemo_proofs -------------------------
(***************************************************************************)
(* Lemmas on the operators of ContextMemo: what trimming leaves of a       *)
(* window, and that every method keeps a context a context.                *)
(***************************************************************************)
EXTENDS ContextMemo, SequenceInduction, SequenceTheorems

\* The characters of a window are the last of its partial sums.
Sums(f, e) == /\ f \in [0..Len(e) -> Nat] /\ f[0] = 0
              /\ \A i \in 1..Len(e) : f[i] = f[i - 1] + CharsOf[e[i]]

LEMMA TotalIsSum ==
    ASSUME NEW e \in Seq(Texts)
    PROVE  \E f : Sums(f, e) /\ TotalChars(e) = f[Len(e)]
<1> DEFINE n == Len(e)
           Grown(v, i) == v + CharsOf[e[i]]
           grow == [i \in 1..n |-> [v \in Nat |-> Grown(v, i)]]
           Body(f) == [i \in 0..n |-> IF i = 0 THEN 0 ELSE Grown(f[i - 1], i)]
           sum == CHOOSE f : f = Body(f)
<1>1. n \in Nat /\ \A i \in 1..n : CharsOf[e[i]] \in Nat
  <2>1. \A i \in 1..n : e[i] \in Texts
    OBVIOUS
  <2> QED BY <2>1, TextsAssumption
<1>2. grow \in [1..n -> [Nat -> Nat]] /\ 0 \in Nat
  BY <1>1
<1>3. \A i \in 1..n, v \in Nat : grow[i][v] = Grown(v, i)
  OBVIOUS
<1>4. PICK g : Builds(g, n, Nat, 0, grow)
  <2> HIDE DEF grow, n
  <2> QED BY <1>1, <1>2, PrefixRecursion
<1>5. g = Body(g)
  <2> HIDE DEF grow
  <2>1. g \in [0..n -> Nat] /\ g[0] = 0 /\ \A i \in 1..n : g[i] = grow[i][g[i - 1]]
    BY <1>4 DEF Builds
  <2>2. \A i \in 1..n : i - 1 \in 0..n /\ g[i - 1] \in Nat
    BY <1>1, <2>1
  <2>3. \A i \in 1..n : g[i] = Grown(g[i - 1], i)
    BY <1>3, <2>1, <2>2
  <2> HIDE DEF Grown, n
  <2>4. \A i \in 0..n : i # 0 => i \in 1..n
    BY <1>1
  <2> QED BY <2>1, <2>3, <2>4
<1>6. sum = Body(sum)
  <2> HIDE DEF Body
  <2> QED BY <1>5
<1>7. TotalChars(e) = sum[n]
  BY DEF TotalChars
<1>8. sum[0] = 0 /\ \A i \in 1..n : sum[i] = Grown(sum[i - 1], i)
  <2> HIDE DEF sum, Grown
  <2> QED BY <1>1, <1>6
<1>9. DOMAIN sum = 0..n /\ sum = [i \in 0..n |-> sum[i]]
  <2> HIDE DEF sum, Grown
  <2> QED BY <1>6
<1> HIDE DEF sum, grow, Body
<1> DEFINE S == {i \in 0..n : sum[i] \in Nat}
<1>10. 0 \in S
  BY <1>1, <1>8
<1>11. \A i \in 1..n : i - 1 \in S => i \in S
  BY <1>1, <1>8
<1>12. 0..n \subseteq S
  <2> HIDE DEF S, n
  <2> QED BY <1>1, <1>10, <1>11, UpTo
<1>13. Sums(sum, e)
  BY <1>8, <1>9, <1>12 DEF Sums
<1> QED
  BY <1>7, <1>13

\* One more entry adds its own.
LEMMA TotalOfAppend ==
    ASSUME NEW e \in Seq(Texts), NEW t \in Texts
    PROVE  /\ TotalChars(e) \in Nat /\ TotalChars(Append(e, t)) \in Nat
           /\ TotalChars(e) <= TotalChars(Append(e, t))
<1> DEFINE a == Append(e, t)
           n == Len(e)
<1>1. /\ n \in Nat /\ a \in Seq(Texts) /\ Len(a) = n + 1 /\ a[n + 1] = t
      /\ \A i \in 1..n : a[i] = e[i]
  OBVIOUS
<1>2. PICK f : Sums(f, e) /\ TotalChars(e) = f[n]
  BY TotalIsSum
<1> HIDE DEF a
<1>3. PICK g : Sums(g, a) /\ TotalChars(a) = g[n + 1]
  BY <1>1, TotalIsSum
<1> HIDE DEF n
<1>4. /\ f \in [0..n -> Nat] /\ f[0] = 0 /\ \A i \in 1..n : f[i] = f[i - 1] + CharsOf[e[i]]
      /\ g \in [0..(n + 1) -> Nat] /\ g[0] = 0
      /\ \A i \in 1..(n + 1) : g[i] = g[i - 1] + CharsOf[a[i]]
  BY <1>1, <1>2, <1>3 DEF Sums, n
<1> DEFINE S == {i \in 0..n : f[i] = g[i]}
<1>5. 0 \in S
  BY <1>1, <1>4
<1>6. ASSUME NEW i \in 1..n, i - 1 \in S PROVE i \in S
  <2>1. i \in 1..(n + 1) /\ i \in 0..n /\ f[i - 1] = g[i - 1] /\ a[i] = e[i]
    BY <1>1, <1>6
  <2>2. f[i] = f[i - 1] + CharsOf[e[i]] /\ g[i] = g[i - 1] + CharsOf[a[i]]
    BY <1>4, <2>1
  <2> QED BY <2>1, <2>2
<1>7. 0..n \subseteq S
  <2> HIDE DEF S
  <2> QED BY <1>1, <1>5, <1>6, UpTo
<1>8. f[n] = g[n] /\ g[n + 1] = g[n] + CharsOf[t]
  BY <1>1, <1>4, <1>7
<1>9. f[n] \in Nat /\ CharsOf[t] \in Nat
  BY <1>1, <1>4, TextsAssumption
<1> QED
  BY <1>2, <1>3, <1>8, <1>9 DEF a

\* The first position of a window that meets both limits
FirstFit(e, k) == Fits(e, k) /\ \A h \in 1..(k - 1) : ~Fits(e, h)

\* The drain and the while loop of commit_transcript end at the first position
\* that meets both limits, on every window that is not empty.
LEMMA TrimmedIsFittingSuffix ==
    ASSUME NEW e \in Seq(Texts), e # <<>>
    PROVE  \E k \in 1..Len(e) : FirstFit(e, k) /\ Trimmed(e) = SubSeq(e, k, Len(e))
<1> DEFINE Fitting == {i \in 1..Len(e) : Fits(e, i)}
<1>1. Len(e) \in Nat \ {0}
  BY EmptySeq
<1>2. Fits(e, Len(e))
  BY <1>1, WindowAssumption DEF Fits
<1>3. Fitting \in SUBSET Nat /\ Fitting # {}
  BY <1>1, <1>2
<1>4. PICK m \in Fitting : \A k \in Fitting : m <= k
  <2> HIDE DEF Fitting
  <2> QED BY <1>3, LeastNumber
<1>5. \A h \in 1..(m - 1) : h \in 1..Len(e) /\ ~(m <= h)
  BY <1>1, <1>4
<1>6. m \in 1..Len(e) /\ FirstFit(e, m)
  BY <1>4, <1>5 DEF FirstFit
<1> DEFINE k == CHOOSE i \in 1..Len(e) : FirstFit(e, i)
<1>7. k \in 1..Len(e) /\ FirstFit(e, k)
  BY <1>6
<1>8. Trimmed(e) = SubSeq(e, k, Len(e))
  BY DEF Trimmed, FirstFit
<1> HIDE DEF k
<1>9. QED
  BY <1>7, <1>8

\* What is left is a window of transcripts, within the limits of the context
\* or a single newest entry.
LEMMA TrimmedBounded ==
    ASSUME NEW e \in Seq(Texts), e # <<>>
    PROVE  /\ Trimmed(e) \in Seq(Texts)
           /\ Len(Trimmed(e)) \in 1..MaxEntries
           /\ TotalChars(Trimmed(e)) <= MaxChars \/ Len(Trimmed(e)) = 1
<1>1. PICK k \in 1..Len(e) : Fits(e, k) /\ Trimmed(e) = SubSeq(e, k, Len(e))
  BY TrimmedIsFittingSuffix DEF FirstFit
<1>2. Len(e) \in Nat
  OBVIOUS
<1>3. /\ SubSeq(e, k, Len(e)) \in Seq(Texts)
      /\ Len(SubSeq(e, k, Len(e))) = Len(e) - k + 1
  BY <1>2
<1>4. QED
  BY <1>1, <1>2, <1>3, WindowAssumption DEF Fits

\* Trimming neither invents nor duplicates an entry.
LEMMA TrimmedKeepsEntries ==
    ASSUME NEW e \in Seq(Texts), e # <<>>
    PROVE  /\ Range(Trimmed(e)) \subseteq Range(e)
           /\ IsInjective(e) => IsInjective(Trimmed(e))
<1>1. PICK k \in 1..Len(e) : Trimmed(e) = SubSeq(e, k, Len(e))
  BY TrimmedIsFittingSuffix
<1> DEFINE s == SubSeq(e, k, Len(e))
<1>2. Len(e) \in Nat /\ DOMAIN e = 1..Len(e)
  OBVIOUS
<1>3. DOMAIN s = 1..(Len(e) - k + 1)
  BY <1>2
<1>4. \A i \in DOMAIN s : k + i - 1 \in DOMAIN e /\ s[i] = e[k + i - 1]
  BY <1>2, <1>3
<1> HIDE DEF s
<1>5. Range(s) \subseteq Range(e)
  BY <1>4 DEF Range
<1>6. ASSUME IsInjective(e) PROVE IsInjective(s)
  <2> SUFFICES ASSUME NEW a \in DOMAIN s, NEW b \in DOMAIN s, s[a] = s[b]
               PROVE  a = b
    BY DEF IsInjective
  <2>1. k + a - 1 = k + b - 1
    BY <1>4, <1>6 DEF IsInjective
  <2>2. a \in Int /\ b \in Int
    BY <1>2, <1>3
  <2> QED BY <2>1, <2>2
<1> QED BY <1>1, <1>5, <1>6 DEF s

\* Appending a new element keeps a sequence free of duplicates.
LEMMA AppendNewElement ==
    ASSUME NEW S, NEW e \in Seq(S), NEW t \in S,
           IsInjective(e), t \notin Range(e)
    PROVE  /\ Append(e, t) \in Seq(S) /\ Append(e, t) # <<>>
           /\ IsInjective(Append(e, t))
           /\ Range(Append(e, t)) \subseteq Range(e) \cup {t}
<1> DEFINE a == Append(e, t)
<1>1. a \in Seq(S) /\ a # <<>>
  BY AppendProperties
<1>2. Len(e) \in Nat /\ DOMAIN e = 1..Len(e)
  OBVIOUS
<1>3. /\ DOMAIN a = 1..(Len(e) + 1)
      /\ a[Len(e) + 1] = t
      /\ \A i \in 1..Len(e) : a[i] = e[i]
  OBVIOUS
<1> HIDE DEF a
<1>4. \A i \in DOMAIN a : i \in DOMAIN e \/ i = Len(e) + 1
  BY <1>2, <1>3
<1>5. \A i \in DOMAIN e : a[i] = e[i] /\ e[i] # t
  BY <1>2, <1>3 DEF Range
<1>6. IsInjective(a)
  BY <1>3, <1>4, <1>5 DEF IsInjective
<1>7. Range(a) \subseteq Range(e) \cup {t}
  BY <1>3, <1>4, <1>5 DEF Range
<1>8. QED
  BY <1>1, <1>6, <1>7 DEF a

----------------------------------------------------------------------------

\* Every method of the context returns a context: clear,
LEMMA EmptyContextType == EmptyContext \in Contexts
BY DEF EmptyContext, Contexts, Ages, Cards, NoCard

\* clear_if_expired,
LEMMA UnexpiredType ==
    ASSUME NEW c \in Contexts
    PROVE  Unexpired(c) \in {c, EmptyContext} /\ Unexpired(c) \in Contexts
BY EmptyContextType DEF Unexpired, Cleared

\* the passing of the TTL,
LEMMA AgedType ==
    ASSUME NEW c \in Contexts
    PROVE  Aged(c) \in Contexts /\ Aged(c).entries = c.entries
BY DEF Aged, Contexts, Ages

\* remember_transcript,
LEMMA RememberedType ==
    ASSUME NEW c \in Contexts, NEW t \in Texts
    PROVE  Remembered(c, t) \in Contexts /\ Remembered(c, t).entries = c.entries
BY DEF Remembered, Contexts, Ages

\* remember_card.
LEMMA WithCardType ==
    ASSUME NEW c \in Contexts, NEW d \in Cards
    PROVE  WithCard(c, d) \in Contexts /\ WithCard(c, d).entries = c.entries
BY DEF WithCard, Contexts, Ages

\* commit_transcript keeps the context well formed, adds nothing but the
\* transcript, and keeps the window free of duplicates when it is new.
LEMMA CommittedType ==
    ASSUME NEW c \in Contexts, NEW t \in Texts
    PROVE  /\ Committed(c, t) \in Contexts
           /\ \/ Committed(c, t).entries = c.entries
              \/ Committed(c, t).entries = Trimmed(Append(c.entries, t))
<1> DEFINE r == Remembered(c, t)
           e == Append(c.entries, t)
<1>1. r \in Contexts /\ r.entries = c.entries
  BY RememberedType
<1>2. e \in Seq(Texts) /\ e # <<>>
  BY AppendProperties DEF Contexts
<1>3. Trimmed(e) \in Seq(Texts)
  <2> HIDE DEF e
  <2> QED BY <1>2, TrimmedBounded
<1>4. [r EXCEPT !.entries = Trimmed(e)] \in Contexts
  <2> HIDE DEF r, e
  <2> QED BY <1>1, <1>3 DEF Contexts
<1>5. /\ r.entries = c.entries
      /\ [r EXCEPT !.entries = Trimmed(e)].entries = Trimmed(e)
  <2>1. r.entries = c.entries BY <1>1
  <2>2. r \in Contexts BY <1>1
  <2> HIDE DEF r, e
  <2> QED BY <2>1, <2>2 DEF Contexts
<1>6. Committed(c, t) = r
      \/ Committed(c, t) = [r EXCEPT !.entries = Trimmed(Append(r.entries, t))]
  BY DEF Committed
<1>7. Append(r.entries, t) = e
  BY <1>1
<1> HIDE DEF r, e
<1>8. Committed(c, t) = r \/ Committed(c, t) = [r EXCEPT !.entries = Trimmed(e)]
  BY <1>6, <1>7
<1>9. QED
  BY <1>1, <1>4, <1>5, <1>8 DEF e

\* A transcript that is new to the window is committed once.
LEMMA CommittedInjective ==
    ASSUME NEW c \in Contexts, NEW t \in Texts,
           IsInjective(c.entries), t \notin Range(c.entries)
    PROVE  /\ IsInjective(Committed(c, t).entries)
           /\ Range(Committed(c, t).entries) \subseteq Range(c.entries) \cup {t}
<1>1. c.entries \in Seq(Texts)
  BY DEF Contexts
<1> DEFINE e == Append(c.entries, t)
<1>2. /\ e \in Seq(Texts) /\ e # <<>> /\ IsInjective(e)
      /\ Range(e) \subseteq Range(c.entries) \cup {t}
  BY <1>1, AppendNewElement
<1>3. /\ Range(Trimmed(e)) \subseteq Range(e) /\ IsInjective(Trimmed(e))
  <2> HIDE DEF e
  <2> QED BY <1>2, TrimmedKeepsEntries
<1>4. QED
  BY <1>2, <1>3, CommittedType

\* A window in the order of the numbers of its transcripts
Ascending(s) == \A i, k \in DOMAIN s : i < k => s[i] < s[k]

Below(s, n) == \A t \in Range(s) : t < n

\* Trimming keeps the order,
LEMMA TrimmedAscending ==
    ASSUME NEW e \in Seq(Texts), e # <<>>, Ascending(e)
    PROVE  Ascending(Trimmed(e))
<1>1. PICK k \in 1..Len(e) : Trimmed(e) = SubSeq(e, k, Len(e))
  BY TrimmedIsFittingSuffix
<1> DEFINE s == SubSeq(e, k, Len(e))
<1>2. Len(e) \in Nat /\ DOMAIN e = 1..Len(e)
  OBVIOUS
<1>3. DOMAIN s = 1..(Len(e) - k + 1)
  BY <1>2
<1>4. \A i \in DOMAIN s : k + i - 1 \in DOMAIN e /\ s[i] = e[k + i - 1]
  BY <1>2, <1>3
<1> HIDE DEF s
<1>5. ASSUME NEW a \in DOMAIN s, NEW b \in DOMAIN s, a < b
      PROVE  s[a] < s[b]
  <2>1. a \in Int /\ b \in Int /\ k \in Int
    BY <1>2, <1>3
  <2>2. k + a - 1 < k + b - 1
    BY <1>5, <2>1
  <2> QED BY <1>4, <2>2 DEF Ascending
<1> QED BY <1>1, <1>5 DEF s, Ascending

\* and so does the commit of a transcript later than all in the window.
LEMMA CommittedAscending ==
    ASSUME NEW c \in Contexts, NEW t \in Texts,
           Ascending(c.entries), Below(c.entries, t)
    PROVE  Ascending(Committed(c, t).entries)
<1> DEFINE s == c.entries
           e == Append(s, t)
<1>1. s \in Seq(Texts)
  BY DEF Contexts
<1>2. e \in Seq(Texts) /\ e # <<>>
  BY <1>1, AppendProperties
<1>3. /\ DOMAIN e = 1..(Len(s) + 1) /\ e[Len(s) + 1] = t
      /\ Len(s) \in Nat /\ DOMAIN s = 1..Len(s)
      /\ \A i \in 1..Len(s) : e[i] = s[i]
  BY <1>1
<1> HIDE DEF e, s
<1>4. ASSUME NEW i \in DOMAIN e, NEW k \in DOMAIN e, i < k PROVE e[i] < e[k]
  <2>1. i \in DOMAIN s /\ e[i] = s[i]
    BY <1>3, <1>4
  <2>2. CASE k \in DOMAIN s
    BY <1>3, <1>4, <2>1, <2>2 DEF Ascending, s
  <2>3. CASE k = Len(s) + 1
    <3>1. s[i] \in Range(s)
      BY <2>1 DEF Range
    <3> QED BY <1>3, <2>1, <2>3, <3>1 DEF Below, s
  <2> QED BY <1>3, <2>2, <2>3
<1>5. Ascending(Trimmed(e))
  BY <1>2, <1>4, TrimmedAscending DEF Ascending
<1>6. QED
  BY <1>5, CommittedType DEF e, s

=============================================================================
