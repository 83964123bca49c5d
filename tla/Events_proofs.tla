--------------------------- MODULE Events_proofs ---------------------------
(***************************************************************************)
(* What is organised and paid for: a Swiss tournament, and a user's        *)
(* payments with a scheduled match.                                        *)
(*                                                                         *)
(* For any finite set of entrants, however entries, withdrawals, late paid *)
(* entries, byes and aborted games are mixed: the standings show what was  *)
(* played, a round pairs each active player once and shares out the byes,  *)
(* and a decided round is left.                                            *)
(*                                                                         *)
(* For any number of handlers, payments, items and requests, whatever the  *)
(* handlers overtake: the coins never become negative, nothing is          *)
(* confirmed without a charge, and the coins are what the open charges and *)
(* the items bought leave, unless a handler wrote over rows changed since  *)
(* it read them; and starts that do not overlap make one game.             *)
(***************************************************************************)
EXTENDS Tournament, ScheduledMatch, FiniteSetTheorems, SequenceTheorems, TLAPS

-----------------------------------------------------------------------------
(* Induction. *)

\* Among finite sets there is always one that contains no other.
LEMMA SmallestSet ==
    ASSUME NEW C, C # {}, \A s \in C : IsFiniteSet(s)
    PROVE  \E x \in C : \A y \in C : ~(y \subseteq x /\ y # x)
<1> DEFINE U == UNION C
<1>1. IsWellFoundedOn(StrictSubsetOrdering(U), FiniteSubsetsOf(U))
  BY FS_StrictSubsetOrderingWellFounded
<1>2. C \subseteq FiniteSubsetsOf(U)
  BY DEF FiniteSubsetsOf
<1>3. PICK x \in C : \A y \in C : <<y, x>> \notin StrictSubsetOrdering(U)
  BY <1>1, <1>2, WFMin
<1> QED
  BY <1>3 DEF StrictSubsetOrdering

\* A set of natural numbers has a least element.
LEMMA LeastElement ==
    ASSUME NEW S, S \subseteq Nat, S # {}
    PROVE  \E x \in S : \A y \in S : x <= y
<1> DEFINE Below(y) == 0..y
           C == {c \in SUBSET Nat : \E y \in S : c = Below(y)}
<1>1. \A y \in S : Below(y) \in C
  OBVIOUS
<1>2. C # {}
  BY <1>1
<1>3. \A s \in C : IsFiniteSet(s)
  <2>1. \A y \in S : IsFiniteSet(Below(y))
    BY FS_Interval
  <2> QED
    BY <2>1
<1> HIDE DEF C
<1>4. PICK m \in C : \A y \in C : ~(y \subseteq m /\ y # m)
  BY <1>2, <1>3, SmallestSet
<1>5. PICK x \in S : m = Below(x)
  BY <1>4 DEF C
<1>6. ASSUME NEW y \in S, y < x PROVE FALSE
  <2>1. Below(y) \subseteq Below(x) /\ x \notin Below(y) /\ x \in Below(x)
    BY <1>6
  <2> QED
    BY <2>1, <1>1, <1>4, <1>5
<1> QED
  BY <1>6

\* What holds of 0 and of the successor of each number below N for which it
\* holds, holds up to N.
LEMMA UpTo ==
    ASSUME NEW N \in Nat, NEW Good \in SUBSET (0..N), 0 \in Good,
           \A n \in Good : n < N => n + 1 \in Good
    PROVE  Good = 0..N
<1> DEFINE Bad == {n \in 0..N : n \notin Good}
<1>1. SUFFICES ASSUME Bad # {} PROVE FALSE
  OBVIOUS
<1>2. Bad \subseteq Nat
  OBVIOUS
<1>3. PICK x \in Bad : \A y \in Bad : x <= y
  <2> HIDE DEF Bad
  <2> QED
    BY <1>1, <1>2, LeastElement
<1>4. x \in 0..N /\ x # 0 /\ x - 1 \in 0..N /\ x - 1 \notin Bad
  BY <1>3
<1> QED
  BY <1>3, <1>4

\* A finite set of natural numbers that is not empty has a greatest element.
LEMMA MaxIsGreatest ==
    ASSUME NEW n \in Nat, NEW S, S \subseteq 0..n, S # {}
    PROVE  Max(S) \in S /\ \A y \in S : Max(S) >= y
<1> DEFINE D == {i \in 0..n : n - i \in S}
<1>0. D \subseteq Nat
  OBVIOUS
<1>1. D # {}
  <2>1. PICK x \in S : TRUE
    OBVIOUS
  <2>2. n - x \in 0..n /\ n - (n - x) = x
    OBVIOUS
  <2>3. n - x \in D
    BY <2>2
  <2> QED
    BY <2>3
<1>2. PICK d \in D : \A e \in D : d <= e
  <2> HIDE DEF D
  <2> QED
    BY <1>0, <1>1, LeastElement
<1>3. n - d \in S /\ \A y \in S : n - d >= y
  <2>1. ASSUME NEW y \in S PROVE n - d >= y
    <3>1. n - y \in D
      OBVIOUS
    <3> QED
      BY <3>1, <1>2
  <2> QED
    BY <2>1
<1> QED
  BY <1>3 DEF Max

-----------------------------------------------------------------------------
(* The standings. *)

Before(score, some, p) == {q \in some : StandsBefore(score, q, p)}

\* sort_players_for_standings ranks each of the players once: as the seed ratings
\* differ, no two have the same number of players before them.
LEMMA StandingsOrder ==
    ASSUME NEW some, some \subseteq Entrants, NEW score \in [Entrants -> Nat]
    PROVE  LET n == Cardinality(some)
               ranked == Standings(some, score)
           IN  /\ n \in Nat
               /\ ranked \in [1..n -> some]
               /\ \A i, j \in 1..n : ranked[i] = ranked[j] => i = j
               /\ \A p \in some : \E i \in 1..n : ranked[i] = p
<1> DEFINE n == Cardinality(some)
           ahead == [p \in some |-> Cardinality(Before(score, some, p))]
           ranked == Standings(some, score)
<1>1. IsFiniteSet(some) /\ n \in Nat
  BY SwissAssumption, FS_Subset, FS_CardinalityType
<1>2. \A p \in some : /\ Before(score, some, p) \subseteq some
                         /\ p \notin Before(score, some, p)
  BY SwissAssumption DEF Before, StandsBefore
<1>3. \A p \in some : /\ IsFiniteSet(Before(score, some, p))
                         /\ Cardinality(Before(score, some, p)) \in 0..(n - 1)
  <2> TAKE p \in some
  <2>1. /\ IsFiniteSet(some \ {p})
        /\ Cardinality(some \ {p}) = n - 1
    BY <1>1, FS_RemoveElement
  <2>2. Before(score, some, p) \in SUBSET (some \ {p})
    BY <1>2
  <2>3. /\ IsFiniteSet(Before(score, some, p))
        /\ Cardinality(Before(score, some, p)) <= n - 1
    BY <2>1, <2>2, FS_Subset
  <2>4. Cardinality(Before(score, some, p)) \in Nat
    BY <2>3, FS_CardinalityType
  <2> QED
    BY <2>3, <2>4, <1>1
<1>4. ASSUME NEW p \in some, NEW q \in some, StandsBefore(score, p, q)
      PROVE  ahead[p] < ahead[q]
  <2>1. Before(score, some, p) \subseteq Before(score, some, q)
    BY <1>4, SwissAssumption DEF Before, StandsBefore
  <2>2. p \in Before(score, some, q) /\ p \notin Before(score, some, p)
    BY <1>4, <1>2 DEF Before
  <2>3. /\ Cardinality(Before(score, some, p)) <= Cardinality(Before(score, some, q))
        /\ Cardinality(Before(score, some, p)) # Cardinality(Before(score, some, q))
    BY <2>1, <2>2, <1>3, FS_Subset
  <2> QED
    BY <2>3, <1>3
<1>5. \A p, q \in some : ahead[p] = ahead[q] => p = q
  <2> SUFFICES ASSUME NEW p \in some, NEW q \in some, p # q
               PROVE  ahead[p] # ahead[q]
    OBVIOUS
  <2>1. StandsBefore(score, p, q) \/ StandsBefore(score, q, p)
    BY SwissAssumption DEF StandsBefore
  <2>2. ahead[p] \in Nat /\ ahead[q] \in Nat
    BY <1>3
  <2> QED
    BY <2>1, <2>2, <1>4
<1>6. \A i \in 0..(n - 1) : \E p \in some : ahead[p] = i
  <2>1. ahead \in Injection(some, 0..(n - 1))
    BY <1>3, <1>5 DEF Injection, IsInjective
  <2>2. IsFiniteSet(0..(n - 1)) /\ Cardinality(0..(n - 1)) = n
    BY SMTT(30), <1>1, FS_Interval
  <2>3. ahead \in Surjection(some, 0..(n - 1))
    <3> HIDE DEF ahead
    <3> QED
      BY <1>1, <2>1, <2>2, FS_Injection
  <2> QED
    BY <2>3 DEF Surjection
<1>7. \A i \in 1..n : ranked[i] \in some /\ ahead[ranked[i]] = i - 1
  <2> TAKE i \in 1..n
  <2>1. i - 1 \in 0..(n - 1)
    BY <1>1
  <2>2. PICK p \in some : ahead[p] = i - 1
    BY <1>6, <2>1
  <2>3. ranked[i] = CHOOSE r \in some : Cardinality(Before(score, some, r)) = i - 1
    BY DEF Standings, Before
  <2> QED
    BY <2>2, <2>3
<1>8. ASSUME NEW p \in some PROVE \E i \in 1..n : ranked[i] = p
  <2>1. ahead[p] \in 0..(n - 1)
    BY <1>3
  <2>2. ahead[p] + 1 \in 1..n /\ ahead[p] = (ahead[p] + 1) - 1
    BY <2>1, <1>1
  <2>3. ranked[ahead[p] + 1] \in some /\ ahead[ranked[ahead[p] + 1]] = ahead[p]
    BY <1>7, <2>2
  <2> QED
    BY <2>2, <2>3, <1>5
<1>9. \A i, j \in 1..n : ranked[i] = ranked[j] => i = j
  <2> HIDE DEF ranked, ahead
  <2> QED
    BY <1>7, <1>1
<1>10. ranked \in [1..n -> some]
  <2> DEFINE Choice(i) ==
        CHOOSE p \in some :
            Cardinality({q \in some : StandsBefore(score, q, p)}) = i - 1
  <2>1. ranked = [i \in 1..n |-> Choice(i)]
    BY DEF Standings
  <2>2. \A i \in 1..n : Choice(i) \in some
    <3> HIDE DEF Choice
    <3> QED
      BY <2>1, <1>7
  <2> HIDE DEF Choice, ranked
  <2> QED
    BY <2>1, <2>2
<1> QED
  BY <1>1, <1>8, <1>9, <1>10

-----------------------------------------------------------------------------
(* The recursive functions obey the equations that define them. *)

\* The scan for an opponent (_choose_opponent_index) goes place by place: what it
\* prefers after i candidates depends on what it preferred after i - 1.
LEMMA PreferredDef ==
    ASSUME NEW p, NEW candidates \in Seq(Entrants), NEW rematches, NEW score
    PROVE  LET f == Preferred(p, candidates, rematches, score)
               gap(i) == Gap(score, p, candidates[i])
           IN  f = [i \in 0..Len(candidates) |->
                      IF i = 0 THEN 0
                      ELSE IF /\ {p, candidates[i]} \notin rematches
                              /\ \/ f[i - 1] = 0
                                 \/ gap(f[i - 1]) = 0
                                 \/ gap(i) < gap(f[i - 1])
                      THEN i
                      ELSE f[i - 1]]
<1> DEFINE N == Len(candidates)
           gap(i) == Gap(score, p, candidates[i])
           Takes(i, best) == /\ {p, candidates[i]} \notin rematches
                             /\ best = 0 \/ gap(best) = 0 \/ gap(i) < gap(best)
           Step(i, g) == IF i = 0 THEN 0 ELSE IF Takes(i, g[i - 1]) THEN i ELSE g[i - 1]
           Reaches(n) == \E g : g = [i \in 0..n |-> Step(i, g)]
           Good == {n \in 0..N : Reaches(n)}
<1>0. N \in Nat
  OBVIOUS
<1> HIDE DEF N, Reaches
<1>1. 0 \in Good
  <2> DEFINE g == [i \in 0..0 |-> 0]
  <2>1. g = [i \in 0..0 |-> Step(i, g)]
    OBVIOUS
  <2>2. Reaches(0)
    <3> HIDE DEF g, Step
    <3> QED
      BY <2>1 DEF Reaches
  <2> QED
    BY <2>2, <1>0
<1>2. ASSUME NEW n \in Good, n < N PROVE n + 1 \in Good
  <2>1. PICK g : g = [i \in 0..n |-> Step(i, g)]
    BY <1>2 DEF Reaches
  <2> HIDE DEF Takes
  <2> DEFINE h == [i \in 0..(n + 1) |->
                     IF i <= n THEN g[i] ELSE IF Takes(n + 1, g[n]) THEN n + 1 ELSE g[n]]
  <2>2. \A i \in 0..(n + 1) : h[i] = Step(i, h)
    <3> TAKE i \in 0..(n + 1)
    <3>1. CASE i = n + 1
      BY <3>1
    <3>2. CASE i <= n
      <4>1. h[i] = g[i] /\ g[i] = Step(i, g)
        BY <2>1, <3>2
      <4>2. i # 0 => h[i - 1] = g[i - 1]
        BY <3>2
      <4> QED
        BY <4>1, <4>2
    <3> QED
      BY <3>1, <3>2
  <2>3. h = [i \in 0..(n + 1) |-> Step(i, h)]
    BY <2>2
  <2>4. Reaches(n + 1)
    <3> HIDE DEF h, Step
    <3> QED
      BY <2>3 DEF Reaches
  <2> QED
    BY <2>4, <1>2, <1>0
<1>a. Good \in SUBSET (0..N)
  OBVIOUS
<1> HIDE DEF Good
<1>3. Good = 0..N
  BY <1>a, <1>0, <1>1, <1>2, UpTo
<1>4. Reaches(N)
  BY <1>3, <1>0 DEF Good
<1>5. \E g : g = [i \in 0..N |-> Step(i, g)]
  BY <1>4 DEF Reaches
<1> QED
  BY ZenonT(30), <1>5 DEF Preferred, N

\* The opponent is one of the candidates.
LEMMA OpponentIsThere ==
    ASSUME NEW p, NEW candidates \in Seq(Entrants), candidates # <<>>,
           NEW rematches, NEW score
    PROVE  ChooseOpponentIndex(p, candidates, rematches, score) \in 1..Len(candidates)
<1> DEFINE N == Len(candidates)
           f == Preferred(p, candidates, rematches, score)
           Good == {n \in 0..N : f[n] \in 0..n}
           gap(i) == Gap(score, p, candidates[i])
           Takes(i, best) == /\ {p, candidates[i]} \notin rematches
                             /\ best = 0 \/ gap(best) = 0 \/ gap(i) < gap(best)
<1>0. N \in Nat /\ N # 0
  OBVIOUS
<1>a. f = [i \in 0..N |-> IF i = 0 THEN 0 ELSE IF Takes(i, f[i - 1]) THEN i ELSE f[i - 1]]
  BY PreferredDef
<1> HIDE DEF N, f, Takes
<1>1. f[0] = 0 /\ \A i \in 1..N : f[i] = i \/ f[i] = f[i - 1]
  BY <1>0, <1>a
<1>2. Good \in SUBSET (0..N) /\ 0 \in Good
  BY <1>0, <1>1
<1>3. ASSUME NEW n \in Good, n < N PROVE n + 1 \in Good
  <2>1. n + 1 \in 1..N /\ (n + 1) - 1 = n
    BY <1>3, <1>0
  <2> QED
    BY <2>1, <1>1
<1>4. Good = 0..N
  <2> HIDE DEF Good
  <2> QED
    BY <1>0, <1>2, <1>3, UpTo
<1>5. f[N] \in 0..N
  BY <1>4, <1>0
<1> QED
  BY <1>5, <1>0 DEF ChooseOpponentIndex, f, N

\* Each pair that generate_swiss_pairings makes leaves the others in their order.
LEMMA LeftAfterDef ==
    ASSUME NEW ranked \in Seq(Entrants), NEW rematches, NEW score
    PROVE  LET f == LeftAfter(ranked, rematches, score)
           IN  f = [n \in 0..(Len(ranked) \div 2) |->
                      IF n = 0 THEN ranked
                      ELSE RemoveAt(Tail(f[n - 1]), Opponent(f[n - 1], rematches, score))]
<1> DEFINE N == Len(ranked) \div 2
           Rest(left) == RemoveAt(Tail(left), Opponent(left, rematches, score))
           Step(n, g) == IF n = 0 THEN ranked ELSE Rest(g[n - 1])
           Reaches(n) == \E g : g = [i \in 0..n |-> Step(i, g)]
           Good == {n \in 0..N : Reaches(n)}
<1>0. N \in Nat
  OBVIOUS
<1> HIDE DEF N, Rest, Reaches
<1>1. Reaches(0)
  <2> DEFINE g == [i \in 0..0 |-> ranked]
  <2>1. g = [i \in 0..0 |-> Step(i, g)]
    OBVIOUS
  <2> HIDE DEF g, Step
  <2> QED
    BY <2>1 DEF Reaches
<1>2. ASSUME NEW n \in Good, n < N PROVE n + 1 \in Good
  <2>1. PICK g : g = [i \in 0..n |-> Step(i, g)]
    BY <1>2 DEF Reaches
  <2> DEFINE h == [i \in 0..(n + 1) |-> IF i <= n THEN g[i] ELSE Rest(g[n])]
  <2>2. \A i \in 0..(n + 1) : h[i] = Step(i, h)
    <3> TAKE i \in 0..(n + 1)
    <3>1. CASE i = n + 1
      BY <3>1
    <3>2. CASE i <= n
      <4>1. h[i] = g[i] /\ g[i] = Step(i, g)
        BY <2>1, <3>2
      <4>2. i # 0 => h[i - 1] = g[i - 1]
        BY <3>2
      <4> QED
        BY <4>1, <4>2
    <3> QED
      BY <3>1, <3>2
  <2>3. h = [i \in 0..(n + 1) |-> Step(i, h)]
    BY <2>2
  <2>4. Reaches(n + 1)
    <3> HIDE DEF h, Step
    <3> QED
      BY <2>3 DEF Reaches
  <2> QED
    BY <2>4, <1>2, <1>0
<1>3. Good \in SUBSET (0..N) /\ 0 \in Good
  BY <1>0, <1>1
<1> HIDE DEF Good
<1>4. Good = 0..N
  BY <1>0, <1>2, <1>3, UpTo
<1>5. Reaches(N)
  BY <1>4, <1>0 DEF Good
<1>6. \E g : g = [n \in 0..N |-> Step(n, g)]
  BY <1>5 DEF Reaches
<1> QED
  BY <1>6 DEF LeftAfter, N, Rest

\* A sequence without its i-th element.
LEMMA RemoveAtIs ==
    ASSUME NEW S, NEW s \in Seq(S), NEW i \in 1..Len(s)
    PROVE  /\ RemoveAt(s, i) \in Seq(S) /\ Len(RemoveAt(s, i)) = Len(s) - 1
           /\ \A j \in 1..(Len(s) - 1) : RemoveAt(s, i)[j] = IF j < i THEN s[j] ELSE s[j + 1]
<1> DEFINE low == SubSeq(s, 1, i - 1)
           high == SubSeq(s, i + 1, Len(s))
<1>1. /\ low \in Seq(S) /\ Len(low) = i - 1
      /\ \A j \in 1..(i - 1) : low[j] = s[j]
  OBVIOUS
<1>2. /\ high \in Seq(S) /\ Len(high) = Len(s) - i
      /\ \A j \in 1..(Len(s) - i) : high[j] = s[j + i]
  OBVIOUS
<1>3. RemoveAt(s, i) = low \o high
  BY DEF RemoveAt
<1>4. Len(s) \in Nat
  OBVIOUS
<1> HIDE DEF low, high
<1>a. /\ low \o high \in Seq(S) /\ Len(low \o high) = Len(low) + Len(high)
      /\ \A j \in 1..(Len(low) + Len(high)) :
            (low \o high)[j] = IF j <= Len(low) THEN low[j] ELSE high[j - Len(low)]
  BY <1>1, <1>2, ConcatProperties
<1>5. /\ low \o high \in Seq(S) /\ Len(low \o high) = Len(s) - 1
      /\ \A j \in 1..(Len(s) - 1) :
            (low \o high)[j] = IF j <= i - 1 THEN low[j] ELSE high[j - (i - 1)]
  BY <1>a, <1>1, <1>2, <1>4
<1>6. ASSUME NEW j \in 1..(Len(s) - 1)
      PROVE  RemoveAt(s, i)[j] = IF j < i THEN s[j] ELSE s[j + 1]
  <2>1. CASE j < i
    BY <2>1, <1>1, <1>3, <1>5
  <2>2. CASE ~(j < i)
    <3>1. j - (i - 1) \in 1..(Len(s) - i) /\ (j - (i - 1)) + i = j + 1
      BY <2>2, <1>4
    <3>2. high[j - (i - 1)] = s[j + 1]
      BY <3>1, <1>2
    <3> QED
      BY <2>2, <3>2, <1>3, <1>5
  <2> QED
    BY <2>1, <2>2
<1> QED
  BY <1>3, <1>5, <1>6

\* Whether u occurs in the sequence s.
IsAmong(u, s) == \E i \in 1..Len(s) : s[i] = u

\* What is left of two elements or more without the head.
LEMMA TailOfTwo ==
    ASSUME NEW S, NEW s \in Seq(S), Len(s) >= 2
    PROVE  Tail(s) \in Seq(S) /\ Len(Tail(s)) = Len(s) - 1 /\ Tail(s) # <<>>
<1>1. s # <<>> /\ Len(s) \in Nat
  OBVIOUS
<1> QED
  BY SMTT(30), <1>1, HeadTailProperties

\* The head and one of the others are taken from a sequence without repetition.
LEMMA TakePair ==
    ASSUME NEW l \in Seq(Entrants), Len(l) >= 2, NEW at \in 1..(Len(l) - 1),
           \A i, j \in 1..Len(l) : l[i] = l[j] => i = j
    PROVE  LET rest == RemoveAt(Tail(l), at)
               p == l[1]
               q == Tail(l)[at]
           IN  /\ rest \in Seq(Entrants) /\ Len(rest) = Len(l) - 2
               /\ \A i, j \in 1..Len(rest) : rest[i] = rest[j] => i = j
               /\ p \in Entrants /\ q \in Entrants /\ p # q /\ IsAmong(p, l) /\ IsAmong(q, l)
               /\ \A u : IsAmong(u, rest) <=> IsAmong(u, l) /\ u # p /\ u # q
<1> DEFINE others == Tail(l)
           rest == RemoveAt(others, at)
           p == l[1]
           q == others[at]
<1>1. l # <<>> /\ Len(l) \in Nat /\ \A i \in 1..Len(l) : l[i] \in Entrants
  OBVIOUS
<1>2. /\ others \in Seq(Entrants) /\ Len(others) = Len(l) - 1
      /\ \A i \in 1..(Len(l) - 1) : others[i] = l[i + 1]
  BY <1>1, HeadTailProperties
<1> HIDE DEF others
<1>3. /\ rest \in Seq(Entrants) /\ Len(rest) = Len(others) - 1
      /\ \A j \in 1..(Len(others) - 1) : rest[j] = IF j < at THEN others[j] ELSE others[j + 1]
  BY SMTT(30), <1>2, RemoveAtIs
<1> HIDE DEF rest
<1>4. Len(rest) = Len(l) - 2
  BY <1>1, <1>2, <1>3
<1>5. \A j \in 1..(Len(l) - 2) : rest[j] = IF j < at THEN l[j + 1] ELSE l[j + 2]
  <2> TAKE j \in 1..(Len(l) - 2)
  <2>1. /\ j \in 1..(Len(l) - 1) /\ j + 1 \in 1..(Len(l) - 1) /\ (j + 1) + 1 = j + 2
        /\ j \in 1..(Len(others) - 1)
    BY <1>1, <1>2
  <2> QED
    BY <2>1, <1>2, <1>3
<1>6. q = l[at + 1] /\ at + 1 \in 2..Len(l) /\ 1 \in 1..Len(l)
  BY <1>1, <1>2
<1>7. p \in Entrants /\ q \in Entrants /\ p # q /\ IsAmong(p, l) /\ IsAmong(q, l)
  BY <1>1, <1>6 DEF IsAmong
<1>8. ASSUME NEW i \in 1..(Len(l) - 2), NEW j \in 1..(Len(l) - 2), rest[i] = rest[j]
      PROVE  i = j
  BY <1>1, <1>5, <1>8
<1>9. ASSUME NEW u, IsAmong(u, rest)
      PROVE  IsAmong(u, l) /\ u # p /\ u # q
  <2>1. PICK j \in 1..(Len(l) - 2) : rest[j] = u
    BY <1>9, <1>4 DEF IsAmong
  <2> DEFINE i == IF j < at THEN j + 1 ELSE j + 2
  <2>2. i \in 1..Len(l) /\ l[i] = u /\ i # 1 /\ i # at + 1
    BY <2>1, <1>1, <1>5
  <2> QED
    BY <2>2, <1>6 DEF IsAmong
<1>10. ASSUME NEW u, IsAmong(u, l), u # p, u # q
       PROVE  IsAmong(u, rest)
  <2>1. PICK i \in 1..Len(l) : l[i] = u /\ i # 1 /\ i # at + 1
    BY <1>10, <1>6 DEF IsAmong
  <2>2. CASE i <= at
    <3>1. i - 1 \in 1..(Len(l) - 2) /\ (i - 1) + 1 = i
      BY <2>1, <2>2, <1>1
    <3>2. rest[i - 1] = u
      BY <3>1, <2>1, <2>2, <1>5
    <3> QED
      BY <3>1, <3>2, <1>4 DEF IsAmong
  <2>3. CASE i > at
    <3>1. i - 2 \in 1..(Len(l) - 2) /\ (i - 2) + 2 = i /\ ~(i - 2 < at)
      BY <2>1, <2>3, <1>1
    <3>2. rest[i - 2] = u
      BY <3>1, <2>1, <1>5
    <3> QED
      BY <3>1, <3>2, <1>4 DEF IsAmong
  <2> QED
    BY <2>1, <2>2, <2>3
<1> QED
  BY <1>3, <1>4, <1>7, <1>8, <1>9, <1>10 DEF rest, others

-----------------------------------------------------------------------------
(* The pairs of a round. *)

\* The pairs that are made are of two of the ranked players each, and each of
\* them is in exactly one pair.
PairsUp(made, ranked) ==
    /\ made \in Seq([white : Entrants, black : Entrants])
    /\ \A n \in 1..Len(made) : made[n].white # made[n].black
    /\ \A n \in 1..Len(made) : \A u \in {made[n].white, made[n].black} : IsAmong(u, ranked)
    /\ \A i \in 1..Len(ranked) : \E n \in 1..Len(made) : IsIn(ranked[i], made[n])
    /\ \A n, m \in 1..Len(made) : \A u : IsIn(u, made[n]) /\ IsIn(u, made[m]) => n = m

\* The ranked players with an even number of them are paired off: each pair is of
\* two of them, and each of them is in exactly one pair.
LEMMA PairsAreMade ==
    ASSUME NEW prior, NEW round, NEW score, NEW ranked \in Seq(Entrants),
           Len(ranked) % 2 = 0,
           \A i, j \in 1..Len(ranked) : ranked[i] = ranked[j] => i = j
    PROVE  PairsUp(PairOff(ranked, prior, round, score), ranked)
<1> DEFINE made == PairOff(ranked, prior, round, score)
           half == Len(ranked) \div 2
           rematches == Rematches(prior)
           left == LeftAfter(ranked, rematches, score)
           first(n) == left[n][1]
           second(n) == Tail(left[n])[Opponent(left[n], rematches, score)]
           IsLeft(u, n) == IsAmong(u, left[n])
           IsRanked(u) == IsAmong(u, ranked)
           Paired(u, n) == u \in {first(n - 1), second(n - 1)}
<1>0. half \in Nat /\ Len(ranked) = 2 * half
  OBVIOUS
<1>1. /\ left[0] = ranked
      /\ \A n \in 1..half :
            left[n] = RemoveAt(Tail(left[n - 1]), Opponent(left[n - 1], rematches, score))
  <2> DEFINE Rest(l) == RemoveAt(Tail(l), Opponent(l, rematches, score))
  <2>1. left = [n \in 0..half |-> IF n = 0 THEN ranked ELSE Rest(left[n - 1])]
    BY LeftAfterDef
  <2> HIDE DEF left, Rest, half
  <2>2. left[0] = ranked /\ \A n \in 1..half : left[n] = Rest(left[n - 1])
    BY <2>1, <1>0
  <2> QED
    BY <2>2 DEF Rest
<1> HIDE DEF left, half, rematches
\* One pair taken from those left.
<1>2. ASSUME NEW n \in 0..half, n < half,
             left[n] \in Seq(Entrants), Len(left[n]) = 2 * (half - n),
             \A i, j \in 1..Len(left[n]) : left[n][i] = left[n][j] => i = j
      PROVE  /\ left[n + 1] \in Seq(Entrants) /\ Len(left[n + 1]) = 2 * (half - (n + 1))
             /\ \A i, j \in 1..Len(left[n + 1]) : left[n + 1][i] = left[n + 1][j] => i = j
             /\ first(n) \in Entrants /\ second(n) \in Entrants /\ first(n) # second(n)
             /\ IsLeft(first(n), n) /\ IsLeft(second(n), n)
             /\ \A u : IsLeft(u, n + 1) <=> IsLeft(u, n) /\ u # first(n) /\ u # second(n)
  <2> DEFINE l == left[n]
             at == Opponent(l, rematches, score)
  <2>1. l \in Seq(Entrants) /\ Len(l) >= 2
    BY <1>0, <1>2
  <2>2. Tail(l) \in Seq(Entrants) /\ Len(Tail(l)) = Len(l) - 1 /\ Tail(l) # <<>>
    BY <2>1, TailOfTwo
  <2>3. at \in 1..(Len(l) - 1)
    BY <2>2, OpponentIsThere DEF Opponent
  <2>4. left[n + 1] = RemoveAt(Tail(l), at)
    BY <1>0, <1>1, <1>2
  <2>5. \A i, j \in 1..Len(l) : l[i] = l[j] => i = j
    BY <1>2
  <2>6. Len(l) = 2 * (half - n)
    BY <1>2
  <2>7. first(n) = l[1] /\ second(n) = Tail(l)[at]
    OBVIOUS
  <2> HIDE DEF l, at, first, second
  <2>a. /\ RemoveAt(Tail(l), at) \in Seq(Entrants) /\ Len(RemoveAt(Tail(l), at)) = Len(l) - 2
        /\ \A i, j \in 1..Len(RemoveAt(Tail(l), at)) :
              RemoveAt(Tail(l), at)[i] = RemoveAt(Tail(l), at)[j] => i = j
        /\ l[1] \in Entrants /\ Tail(l)[at] \in Entrants /\ l[1] # Tail(l)[at]
        /\ IsAmong(l[1], l) /\ IsAmong(Tail(l)[at], l)
        /\ \A u : IsAmong(u, RemoveAt(Tail(l), at))
                    <=> IsAmong(u, l) /\ u # l[1] /\ u # Tail(l)[at]
    BY ONLY <2>1, <2>3, <2>5, TakePair
  <2>8. /\ left[n + 1] \in Seq(Entrants) /\ Len(left[n + 1]) = Len(l) - 2
        /\ \A i, j \in 1..Len(left[n + 1]) : left[n + 1][i] = left[n + 1][j] => i = j
        /\ first(n) \in Entrants /\ second(n) \in Entrants /\ first(n) # second(n)
        /\ IsAmong(first(n), l) /\ IsAmong(second(n), l)
        /\ \A u : IsAmong(u, left[n + 1]) <=> IsAmong(u, l) /\ u # first(n) /\ u # second(n)
    BY ZenonT(30), <2>a, <2>4, <2>7
  <2>9. Len(left[n + 1]) = 2 * (half - (n + 1))
    BY <2>6, <2>8, <1>0
  <2> QED
    BY <2>8, <2>9 DEF l
\* What holds after n pairs.
<1> DEFINE Sound(n) == /\ left[n] \in Seq(Entrants) /\ Len(left[n]) = 2 * (half - n)
                       /\ \A i, j \in 1..Len(left[n]) : left[n][i] = left[n][j] => i = j
           Apart(n) == \A m \in 1..n : /\ first(m - 1) \in Entrants /\ second(m - 1) \in Entrants
                                       /\ first(m - 1) # second(m - 1)
                                       /\ IsRanked(first(m - 1)) /\ IsRanked(second(m - 1))
           Within(n) == \A u : IsLeft(u, n) => IsRanked(u)
           Nowhere(n) == \A u : IsRanked(u) => IsLeft(u, n) \/ \E m \in 1..n : Paired(u, m)
           Gone(n) == \A m \in 1..n : \A u : Paired(u, m) => ~IsLeft(u, n)
           Once(n) == \A m, k \in 1..n : \A u : Paired(u, m) /\ Paired(u, k) => m = k
           Good == {n \in 0..half : /\ Sound(n) /\ Apart(n) /\ Within(n)
                                    /\ Nowhere(n) /\ Gone(n) /\ Once(n)}
<1>3. Good \in SUBSET (0..half) /\ 0 \in Good
  <2>1. Sound(0) /\ Within(0) /\ Nowhere(0)
    BY <1>0, <1>1
  <2>2. Apart(0) /\ Gone(0) /\ Once(0)
    OBVIOUS
  <2> HIDE DEF Sound, Apart, Within, Nowhere, Gone, Once
  <2> QED
    BY <2>1, <2>2, <1>0
<1>4. ASSUME NEW n \in Good, n < half PROVE n + 1 \in Good
  <2>0. n \in 0..half /\ n + 1 \in 0..half /\ (n + 1) - 1 = n
    BY <1>4, <1>0
  <2>1. Sound(n) /\ Apart(n) /\ Within(n) /\ Nowhere(n) /\ Gone(n) /\ Once(n)
    BY <1>4
  <2>2. /\ Sound(n + 1)
        /\ first(n) \in Entrants /\ second(n) \in Entrants /\ first(n) # second(n)
        /\ IsLeft(first(n), n) /\ IsLeft(second(n), n)
        /\ \A u : IsLeft(u, n + 1) <=> IsLeft(u, n) /\ u # first(n) /\ u # second(n)
    BY <2>0, <2>1, <1>2, <1>4
  <2> HIDE DEF Sound, IsLeft, IsRanked, first, second
  <2>a. \A u : Paired(u, n + 1) <=> u = first(n) \/ u = second(n)
    BY <2>0
  <2>b. \A m \in 1..(n + 1) : m \in 1..n \/ m = n + 1
    BY <2>0
  <2>3. Apart(n + 1)
    BY <2>0, <2>1, <2>2, <2>b
  <2>4. Within(n + 1)
    BY <2>1, <2>2
  <2> HIDE DEF Paired
  <2>5. Nowhere(n + 1)
    <3> SUFFICES ASSUME NEW u, IsRanked(u), ~IsLeft(u, n + 1)
                 PROVE  \E m \in 1..(n + 1) : Paired(u, m)
      OBVIOUS
    <3>1. CASE IsLeft(u, n)
      BY <3>1, <2>2, <2>a, <2>0
    <3>2. CASE ~IsLeft(u, n)
      BY <3>2, <2>1, <2>0
    <3> QED
      BY <3>1, <3>2
  <2>6. Gone(n + 1)
    BY <2>1, <2>2, <2>a, <2>b
  <2>7. Once(n + 1)
    <3> SUFFICES ASSUME NEW m \in 1..(n + 1), NEW k \in 1..(n + 1), NEW u,
                        Paired(u, m), Paired(u, k)
                 PROVE  m = k
      OBVIOUS
    <3>1. IsLeft(first(n), n) /\ IsLeft(second(n), n)
      BY <2>2
    <3>2. \A h \in 1..n : ~(Paired(u, h) /\ Paired(u, n + 1))
      BY <2>1, <2>a, <3>1
    <3> QED
      BY <3>2, <2>1, <2>b
  <2> HIDE DEF Apart, Within, Nowhere, Gone, Once
  <2> QED
    BY <2>0, <2>2, <2>3, <2>4, <2>5, <2>6, <2>7
<1>5. half \in Good
  <2> HIDE DEF Good
  <2>1. Good = 0..half
    BY <1>0, <1>3, <1>4, UpTo
  <2> QED
    BY <2>1, <1>0
<1>6. Sound(half) /\ Apart(half) /\ Nowhere(half) /\ Once(half)
  BY <1>5
<1>7. \A u : ~IsLeft(u, half)
  BY <1>6, <1>0 DEF IsAmong
<1>8. /\ DOMAIN made = 1..half
      /\ made = [n \in 1..half |-> made[n]]
      /\ \A n \in 1..half : made[n] = AssignColors(first(n - 1), second(n - 1), round, prior)
  BY DEF PairOff, left, half, rematches
<1> HIDE DEF made, first, second, IsLeft, IsRanked, Sound, Once, Nowhere
<1>9. ASSUME NEW n \in 1..half
      PROVE  /\ made[n] \in [white : Entrants, black : Entrants]
             /\ made[n].white # made[n].black
             /\ \A u : IsIn(u, made[n]) <=> Paired(u, n)
             /\ IsRanked(made[n].white) /\ IsRanked(made[n].black)
  <2> DEFINE p == first(n - 1)
             q == second(n - 1)
  <2>1. p \in Entrants /\ q \in Entrants /\ p # q /\ IsRanked(p) /\ IsRanked(q)
    BY <1>6
  <2>2. \A u : Paired(u, n) <=> u = p \/ u = q
    OBVIOUS
  <2>3. made[n] = AssignColors(p, q, round, prior)
    BY <1>8
  <2> HIDE DEF p, q, Paired
  <2>4. CASE made[n] = [white |-> p, black |-> q]
    BY <2>1, <2>2, <2>4 DEF IsIn
  <2>5. CASE made[n] = [white |-> q, black |-> p]
    BY <2>1, <2>2, <2>5 DEF IsIn
  <2> QED
    BY <2>3, <2>4, <2>5 DEF AssignColors
<1> HIDE DEF Paired
<1>12. made \in Seq([white : Entrants, black : Entrants]) /\ Len(made) = half
  <2> DEFINE Pair == [white : Entrants, black : Entrants]
  <2>1. \A n \in 1..half : made[n] \in Pair
    BY <1>9
  <2> HIDE DEF Pair
  <2>2. made \in [1..half -> Pair]
    BY <1>8, <2>1
  <2>3. made \in Seq(Pair) /\ Len(made) = half
    BY <2>2, <1>0
  <2> QED
    BY <2>3 DEF Pair
<1>13. \A n \in 1..half : \A u \in {made[n].white, made[n].black} : IsRanked(u)
  BY <1>9
<1>14. \A i \in 1..Len(ranked) : \E n \in 1..half : IsIn(ranked[i], made[n])
  <2> TAKE i \in 1..Len(ranked)
  <2>1. IsRanked(ranked[i])
    BY DEF IsRanked, IsAmong
  <2>2. PICK n \in 1..half : Paired(ranked[i], n)
    BY <2>1, <1>6, <1>7 DEF Nowhere
  <2> QED
    BY <2>2, <1>9
<1>15. \A n, m \in 1..half : \A u : IsIn(u, made[n]) /\ IsIn(u, made[m]) => n = m
  BY <1>6, <1>9 DEF Once
<1> QED
  BY <1>9, <1>12, <1>13, <1>14, <1>15 DEF PairsUp, made, IsRanked

\* The bye goes to somebody ranked, and to one who had one only when all had.
LEMMA ByeIsFair ==
    ASSUME NEW ranked \in Seq(Entrants), ranked # <<>>, NEW recipients
    PROVE  LET bye == ChooseByePlayer(ranked, recipients)
           IN  /\ bye \in 1..Len(ranked)
               /\ ranked[bye] \in recipients
                     => \A i \in 1..Len(ranked) : ranked[i] \in recipients
<1> DEFINE n == Len(ranked)
           without == {i \in DOMAIN ranked : ranked[i] \notin recipients}
<1>1. n \in Nat /\ n # 0 /\ DOMAIN ranked = 1..n
  OBVIOUS
<1>2. without \subseteq 0..n /\ without \subseteq 1..n
  BY <1>1
<1>3. CASE without = {}
  <2>1. ChooseByePlayer(ranked, recipients) = n
    BY <1>3 DEF ChooseByePlayer
  <2>2. \A i \in 1..n : ranked[i] \in recipients
    BY <1>1, <1>3
  <2> HIDE DEF n
  <2> QED
    BY <2>1, <2>2, <1>1 DEF n
<1>4. CASE without # {}
  <2>1. ChooseByePlayer(ranked, recipients) = Max(without)
    BY <1>4 DEF ChooseByePlayer
  <2>2. Max(without) \in without
    <3> HIDE DEF without, n
    <3> QED
      BY <1>1, <1>2, <1>4, MaxIsGreatest
  <2>3. Max(without) \in 1..n /\ ranked[Max(without)] \notin recipients
    <3> DEFINE m == Max(without)
    <3>1. m \in without
      BY <2>2
    <3> HIDE DEF m
    <3> QED
      BY <3>1, <1>1 DEF m
  <2> QED
    BY <2>1, <2>3
<1> QED
  BY <1>3, <1>4

\* A round pairs each of the players exactly once and nobody else; with an odd
\* number of them the first row is a bye, given fairly.
LEMMA RoundPairsAll ==
    ASSUME NEW some, some \subseteq Entrants, NEW score \in [Entrants -> Nat],
           NEW prior, NEW round
    PROVE  LET made == GenerateSwissPairings(some, prior, round, score)
           IN  /\ made \in Seq([white : Entrants, black : Entrants \cup {Nobody}])
               /\ \A i \in 1..Len(made) : made[i].white # made[i].black
               /\ \A i \in 1..Len(made) : \A u \in Entrants : IsIn(u, made[i]) => u \in some
               /\ \A u \in some : \E i \in 1..Len(made) : IsIn(u, made[i])
               /\ \A i, j \in 1..Len(made) : \A u \in Entrants :
                     IsIn(u, made[i]) /\ IsIn(u, made[j]) => i = j
               /\ \A i \in 1..Len(made) : made[i].black = Nobody =>
                     /\ i = 1
                     /\ made[i].white \in ByeRecipients(prior) => some \subseteq ByeRecipients(prior)
<1> DEFINE made == GenerateSwissPairings(some, prior, round, score)
           ranked == Standings(some, score)
           n == Cardinality(some)
           recipients == ByeRecipients(prior)
           bye == ChooseByePlayer(ranked, recipients)
           Pair == [white : Entrants, black : Entrants]
           Row == [white : Entrants, black : Entrants \cup {Nobody}]
<1>1. /\ n \in Nat /\ ranked \in [1..n -> some]
      /\ \A i, j \in 1..n : ranked[i] = ranked[j] => i = j
      /\ \A u \in some : \E i \in 1..n : ranked[i] = u
  BY StandingsOrder
<1> HIDE DEF ranked, n
<1>2. ranked \in Seq(Entrants) /\ Len(ranked) = n
  <2>1. ranked \in [1..n -> Entrants]
    BY <1>1
  <2> QED
    BY <2>1, <1>1
<1>3. Nobody \notin Entrants
  BY SwissAssumption
<1>4. CASE n % 2 = 0
  <2>1. made = PairOff(ranked, prior, round, score)
    BY <1>1, <1>2, <1>4 DEF GenerateSwissPairings, ranked
  <2> HIDE DEF made
  <2>2. /\ made \in Seq(Pair)
        /\ \A i \in 1..Len(made) : made[i].white # made[i].black
        /\ \A i \in 1..Len(made) : \A u \in {made[i].white, made[i].black} : IsAmong(u, ranked)
        /\ \A i \in 1..Len(ranked) : \E k \in 1..Len(made) : IsIn(ranked[i], made[k])
        /\ \A i, j \in 1..Len(made) : \A u : IsIn(u, made[i]) /\ IsIn(u, made[j]) => i = j
    <3>1. /\ Len(ranked) % 2 = 0
          /\ \A i, j \in 1..Len(ranked) : ranked[i] = ranked[j] => i = j
      BY <1>1, <1>2, <1>4
    <3>2. PairsUp(made, ranked)
      BY <1>2, <2>1, <3>1, PairsAreMade
    <3> QED
      BY <3>2 DEF PairsUp
  <2>3. made \in Seq(Row) /\ \A i \in 1..Len(made) : made[i].black # Nobody
    <3>1. Pair \subseteq Row
      OBVIOUS
    <3>2. \A i \in 1..Len(made) : made[i] \in Pair
      BY <2>2, ElementOfSeq
    <3> HIDE DEF Row
    <3>3. made \in Seq(Row)
      <4> HIDE DEF Pair
      <4> QED
        BY <2>2, <3>1, SeqMonotonic
    <3> QED
      BY <3>2, <3>3, <1>3
  <2>4. \A i \in 1..Len(made) : \A u \in Entrants : IsIn(u, made[i]) => u \in some
    <3>1. \A u : IsAmong(u, ranked) => u \in some
      BY <1>1, <1>2 DEF IsAmong
    <3> QED
      BY <2>2, <3>1 DEF IsIn
  <2>5. \A u \in some : \E i \in 1..Len(made) : IsIn(u, made[i])
    <3> TAKE u \in some
    <3>1. PICK i \in 1..Len(ranked) : ranked[i] = u
      BY <1>1, <1>2
    <3> QED
      BY <2>2, <3>1
  <2> QED
    BY <2>2, <2>3, <2>4, <2>5 DEF made
<1>5. CASE n % 2 = 1
  <2> DEFINE others == RemoveAt(ranked, bye)
             pairs == PairOff(others, prior, round, score)
             half == Len(pairs)
             first == [white |-> ranked[bye], black |-> Nobody]
  <2>1. made = <<first>> \o pairs
    BY <1>1, <1>2, <1>5 DEF GenerateSwissPairings, ranked
  <2>2. n >= 1 /\ ranked # <<>>
    BY <1>1, <1>2, <1>5
  <2>3. /\ bye \in 1..n
        /\ ranked[bye] \in recipients => \A i \in 1..n : ranked[i] \in recipients
    BY <1>2, <2>2, ByeIsFair
  <2> HIDE DEF bye, recipients
  <2>4. /\ others \in Seq(Entrants) /\ Len(others) = n - 1
        /\ \A j \in 1..(n - 1) : others[j] = IF j < bye THEN ranked[j] ELSE ranked[j + 1]
    BY <1>2, <2>3, RemoveAtIs
  <2> HIDE DEF others, made
  <2>5. \A i, j \in 1..(n - 1) : others[i] = others[j] => i = j
    <3> DEFINE at(j) == IF j < bye THEN j ELSE j + 1
    <3>1. \A j \in 1..(n - 1) : at(j) \in 1..n /\ others[j] = ranked[at(j)]
      BY <1>1, <2>3, <2>4
    <3>2. \A i, j \in 1..(n - 1) : at(i) = at(j) => i = j
      BY <1>1, <2>3
    <3> HIDE DEF at
    <3> QED
      BY <1>1, <3>1, <3>2
  <2>6. \A j \in 1..(n - 1) : others[j] \in some /\ others[j] # ranked[bye]
    BY <1>1, <2>3, <2>4
  <2>7. \A u \in some : u # ranked[bye] => \E j \in 1..(n - 1) : others[j] = u
    <3> SUFFICES ASSUME NEW u \in some, u # ranked[bye]
                 PROVE  \E j \in 1..(n - 1) : others[j] = u
      OBVIOUS
    <3>1. PICK i \in 1..n : ranked[i] = u /\ i # bye
      BY <1>1
    <3>2. CASE i < bye
      <4>1. i \in 1..(n - 1)
        BY <3>2, <2>3, <1>1
      <4> QED
        BY <4>1, <3>1, <3>2, <2>4
    <3>3. CASE i > bye
      <4>1. i - 1 \in 1..(n - 1) /\ ~(i - 1 < bye) /\ (i - 1) + 1 = i
        BY <3>1, <3>3, <2>3, <1>1
      <4> QED
        BY <4>1, <3>1, <2>4
    <3> QED
      BY <3>1, <3>2, <3>3, <2>3
  <2>8. Len(others) % 2 = 0
    <3>1. n - 1 \in Nat /\ (n - 1) % 2 = 0
      BY <1>1, <1>5, <2>2
    <3> QED
      BY <2>4, <3>1
  <2>9. /\ pairs \in Seq(Pair)
        /\ \A i \in 1..half : pairs[i].white # pairs[i].black
        /\ \A i \in 1..half : \A u \in {pairs[i].white, pairs[i].black} : IsAmong(u, others)
        /\ \A i \in 1..Len(others) : \E k \in 1..half : IsIn(others[i], pairs[k])
        /\ \A i, j \in 1..half : \A u : IsIn(u, pairs[i]) /\ IsIn(u, pairs[j]) => i = j
    <3>1. \A i, j \in 1..Len(others) : others[i] = others[j] => i = j
      BY <2>4, <2>5
    <3>2. PairsUp(pairs, others)
      BY <2>4, <2>8, <3>1, PairsAreMade
    <3> QED
      BY <3>2 DEF PairsUp
  <2>a. half \in Nat
    BY <2>9
  <2> HIDE DEF pairs, half
  <2>10. first \in Row /\ first.black = Nobody /\ first.white \in some
    BY <1>1, <2>3
  <2>11. pairs \in Seq(Row)
    <3>1. Pair \subseteq Row
      OBVIOUS
    <3> HIDE DEF Pair, Row
    <3> QED
      BY <2>9, <3>1, SeqMonotonic
  <2>12. /\ made \in Seq(Row) /\ Len(made) = half + 1 /\ made[1] = first
         /\ \A i \in 2..(half + 1) : made[i] = pairs[i - 1]
    <3> HIDE DEF Row, first
    <3> QED
      BY <2>1, <2>a, <2>9, <2>10, <2>11 DEF half
  <2>13. \A i \in 2..(half + 1) : i - 1 \in 1..half
    BY <2>a
  <2>14. \A i \in 1..half : pairs[i] \in Pair
    BY <2>9, ElementOfSeq DEF half
  <2>15. \A i \in 1..half : \A u \in {pairs[i].white, pairs[i].black} :
            u \in some /\ u # ranked[bye]
    <3>1. \A u : IsAmong(u, others) => u \in some /\ u # ranked[bye]
      BY <2>6, <2>4 DEF IsAmong
    <3> QED
      BY <2>9, <3>1
  <2>16. \A i \in 1..(half + 1) : i = 1 \/ i \in 2..(half + 1)
    BY <2>a
  <2>17. \A u \in Entrants : IsIn(u, made[1]) <=> u = ranked[bye]
    BY <2>10, <2>12, <1>3 DEF IsIn
  <2>18. \A i \in 2..(half + 1) : \A u : IsIn(u, made[i]) => u \in some /\ u # ranked[bye]
    BY ZenonT(30), <2>12, <2>13, <2>15 DEF IsIn
  <2>19. \A i \in 1..(half + 1) : made[i].white # made[i].black
    <3>1. made[1].white # made[1].black
      BY <2>10, <2>12, <1>3
    <3>2. \A i \in 2..(half + 1) : made[i].white # made[i].black
      BY ZenonT(30), <2>9, <2>12, <2>13 DEF half
    <3> QED
      BY <3>1, <3>2, <2>16
  <2>20. \A i \in 1..(half + 1) : \A u \in Entrants : IsIn(u, made[i]) => u \in some
    BY <2>10, <2>16, <2>17, <2>18
  <2>21. \A u \in some : \E i \in 1..(half + 1) : IsIn(u, made[i])
    <3> TAKE u \in some
    <3>1. CASE u = ranked[bye]
      BY <3>1, <2>17, <2>a
    <3>2. CASE u # ranked[bye]
      <4>1. PICK j \in 1..(n - 1) : others[j] = u
        BY <3>2, <2>7
      <4>2. PICK k \in 1..half : IsIn(u, pairs[k])
        BY <4>1, <2>9, <2>4
      <4>3. k + 1 \in 2..(half + 1) /\ (k + 1) - 1 = k /\ k + 1 \in 1..(half + 1)
        BY <2>a
      <4> QED
        BY <4>2, <4>3, <2>12
    <3> QED
      BY <3>1, <3>2
  <2>22. \A i, j \in 1..(half + 1) : \A u \in Entrants :
            IsIn(u, made[i]) /\ IsIn(u, made[j]) => i = j
    <3> SUFFICES ASSUME NEW i \in 1..(half + 1), NEW j \in 1..(half + 1), NEW u \in Entrants,
                        IsIn(u, made[i]), IsIn(u, made[j])
                 PROVE  i = j
      OBVIOUS
    <3>1. CASE u = ranked[bye]
      BY <3>1, <2>16, <2>18
    <3>2. CASE u # ranked[bye]
      <4>1. i \in 2..(half + 1) /\ j \in 2..(half + 1)
        BY <3>2, <2>16, <2>17
      <4>2. i - 1 = j - 1
        BY <4>1, <2>9, <2>12, <2>13
      <4> QED
        BY <4>1, <4>2, <2>a
    <3> QED
      BY <3>1, <3>2
  <2>23. \A i \in 2..(half + 1) : made[i].black # Nobody
    BY <2>12, <2>13, <2>14, <1>3
  <2>24. made[1].white \in recipients => some \subseteq recipients
    BY <2>3, <2>10, <2>12, <1>1
  <2> QED
    BY <2>12, <2>16, <2>19, <2>20, <2>21, <2>22, <2>23, <2>24 DEF made, recipients
<1> QED
  BY <1>1, <1>4, <1>5

-----------------------------------------------------------------------------
(* What every reachable state satisfies. *)

\* Nobody plays himself, and who is not entered has no points.
Sane(rows, entered) ==
    /\ \A i \in DOMAIN rows : rows[i].white # rows[i].black
    /\ \A u \in Entrants : entered[u].status = "none" => entered[u].score = 0

\* Rounds are numbered from 1, and a running tournament has one.
Rows ==
    /\ tournament.current_round = 0 => pairings = <<>>
    /\ tournament.status = "active" => tournament.current_round # 0
    /\ Sane(pairings, players)

\* The rounds up to the last one, as long as the tournament was not reopened.
History(rows, entered, last) ==
    /\ \A i \in DOMAIN rows : rows[i].round <= last
    /\ \A i \in DOMAIN rows : \A u \in Entrants :
          IsIn(u, rows[i]) => entered[u].status # "none"
    /\ \A u \in Entrants : entered[u].score = Earned(u, rows)
    /\ \A i, j \in DOMAIN rows : \A u \in Entrants :
          i # j /\ IsIn(u, rows[i]) /\ IsIn(u, rows[j]) => rows[i].round # rows[j].round

\* A round with a game has one that is not decided.
Undecided(rows, round) ==
    \A i \in DOMAIN rows :
        rows[i].round = round /\ rows[i].black # Nobody => ~IsComplete(rows, round)

\* Before the start there is no round; a running round waits for a game.
Rounds ==
    /\ tournament.status \in Startable => tournament.current_round = 0
    /\ History(pairings, players, tournament.current_round)
    /\ tournament.status = "active" => Undecided(pairings, tournament.current_round)

\* The inductive invariant.  The scores, and one game per round, can only be kept
\* if whoever is in a row is still entered, which a reopened registration breaks.
TournamentInv == TypeOK /\ Rows /\ (~reopened => Rounds)

-----------------------------------------------------------------------------
(* A new round. *)

\* What tournament_players may hold.
PlayerRows == [Entrants -> [status : {"none", "active", "withdrawn"}, score : Nat]]

\* A row with nobody as black.
IsBye(row) == row.black = Nobody

\* rows is prior with a new round of the players who are active in entered, and
\* scored is entered with the points of the bye.
NewRound(prior, rows, round, entered, scored) ==
    /\ rows \in Seq(Pairings) /\ scored \in PlayerRows
    /\ Len(prior) <= Len(rows)
    /\ \A i \in 1..Len(prior) : rows[i] = prior[i]
    /\ \A i \in (Len(prior) + 1)..Len(rows) :
          /\ rows[i].round = round /\ rows[i].white # rows[i].black
          /\ rows[i].result = IF IsBye(rows[i]) THEN "1-0" ELSE "none"
          /\ \A u \in Entrants : IsIn(u, rows[i]) => entered[u].status = "active"
          /\ IsBye(rows[i]) =>
                /\ i = Len(prior) + 1
                /\ rows[i].white \in ByeRecipients(prior)
                      => \A u \in Entrants : entered[u].status = "active" => u \in ByeRecipients(prior)
    /\ \A i, j \in (Len(prior) + 1)..Len(rows) : \A u \in Entrants :
          IsIn(u, rows[i]) /\ IsIn(u, rows[j]) => i = j
    /\ \A u \in Entrants : entered[u].status = "active" =>
          \E i \in (Len(prior) + 1)..Len(rows) : IsIn(u, rows[i])
    /\ \A u \in Entrants :
          /\ scored[u].status = entered[u].status
          /\ \A i \in (Len(prior) + 1)..Len(rows) :
                IsBye(rows[i]) /\ rows[i].white = u => scored[u].score = entered[u].score + 2
          /\ (\A i \in (Len(prior) + 1)..Len(rows) : ~(IsBye(rows[i]) /\ rows[i].white = u))
                => scored[u].score = entered[u].score

\* What _create_round_pairings writes.
LEMMA RoundIsCreated ==
    ASSUME NEW round \in Nat \ {0}, NEW entered \in PlayerRows, NEW prior \in Seq(Pairings),
           CreateRoundPairings(round, entered, prior)
    PROVE  NewRound(prior, pairings', round, entered, players')
<1> DEFINE score == [u \in Entrants |-> entered[u].score]
           some == Present(entered)
           made == GenerateSwissPairings(some, prior, round, score)
           row(a) == [round |-> round, white |-> a.white, black |-> a.black,
                      result |-> IF a.black = Nobody THEN "1-0" ELSE "none"]
           new == [i \in DOMAIN made |-> row(made[i])]
           k == Len(prior)
           n == Len(made)
           rows == pairings'
           scored == players'
           Row == [white : Entrants, black : Entrants \cup {Nobody}]
<1>1. score \in [Entrants -> Nat] /\ some \subseteq Entrants
      /\ \A u \in Entrants : u \in some <=> entered[u].status = "active"
  BY DEF PlayerRows, Present
<1>2. /\ rows = prior \o new
      /\ scored = [u \in Entrants |-> IF u \in ByeRecipients(made)
                                      THEN [entered[u] EXCEPT !.score = @ + 2] ELSE entered[u]]
  BY ZenonT(30) DEF CreateRoundPairings
<1>3. /\ made \in Seq(Row)
      /\ \A i \in 1..n : made[i].white # made[i].black
      /\ \A i \in 1..n : \A u \in Entrants : IsIn(u, made[i]) => u \in some
      /\ \A u \in some : \E i \in 1..n : IsIn(u, made[i])
      /\ \A i, j \in 1..n : \A u \in Entrants : IsIn(u, made[i]) /\ IsIn(u, made[j]) => i = j
      /\ \A i \in 1..n : made[i].black = Nobody =>
            /\ i = 1
            /\ made[i].white \in ByeRecipients(prior) => some \subseteq ByeRecipients(prior)
  <2> HIDE DEF score, some
  <2> QED
    BY <1>1, RoundPairsAll
<1> HIDE DEF made, some, rows, scored
<1>4. n \in Nat /\ DOMAIN made = 1..n /\ \A i \in 1..n : made[i] \in Row
  BY <1>3, ElementOfSeq, LenProperties
<1>5. \A i \in 1..n : row(made[i]) \in Pairings
  BY <1>4 DEF Pairings
<1>6. new \in Seq(Pairings) /\ Len(new) = n /\ \A i \in 1..n : new[i] = row(made[i])
  <2> HIDE DEF row
  <2>1. new \in [1..n -> Pairings]
    BY <1>4, <1>5
  <2> QED
    BY <2>1, <1>4
<1> HIDE DEF new, row
<1>7. /\ rows \in Seq(Pairings) /\ Len(rows) = k + n /\ k \in Nat
      /\ \A i \in 1..k : rows[i] = prior[i]
      /\ \A i \in (k + 1)..(k + n) : i - k \in 1..n /\ rows[i] = new[i - k]
  <2>1. /\ rows \in Seq(Pairings) /\ Len(rows) = k + n /\ k \in Nat
        /\ \A i \in 1..(k + n) : rows[i] = IF i <= k THEN prior[i] ELSE new[i - k]
    BY ZenonT(30), <1>2, <1>6, ConcatProperties, LenProperties
  <2> HIDE DEF n, k
  <2> QED
    BY <2>1, <1>4
<1> HIDE DEF n, k
<1>8. \A i \in (k + 1)..(k + n) :
          /\ i - k \in 1..n
          /\ rows[i].round = round
          /\ rows[i].white = made[i - k].white /\ rows[i].black = made[i - k].black
          /\ rows[i].result = IF rows[i].black = Nobody THEN "1-0" ELSE "none"
  BY SMTT(30), <1>6, <1>7 DEF row
<1>9. \A i \in 1..n : i + k \in (k + 1)..(k + n) /\ (i + k) - k = i
  BY <1>4, <1>7
<1>10. \A i \in (k + 1)..(k + n) : \A u : IsIn(u, rows[i]) <=> IsIn(u, made[i - k])
  BY <1>8 DEF IsIn
<1>11. \A u \in Entrants : u \in ByeRecipients(made) <=>
            \E i \in (k + 1)..(k + n) : IsBye(rows[i]) /\ rows[i].white = u
  <2> TAKE u \in Entrants
  <2>1. u \in ByeRecipients(made) <=> \E i \in 1..n : made[i].black = Nobody /\ made[i].white = u
    BY <1>4 DEF ByeRecipients
  <2>2. ASSUME NEW i \in 1..n, made[i].black = Nobody, made[i].white = u
        PROVE  IsBye(rows[i + k]) /\ rows[i + k].white = u /\ i + k \in (k + 1)..(k + n)
    BY <2>2, <1>8, <1>9 DEF IsBye
  <2>3. ASSUME NEW i \in (k + 1)..(k + n), IsBye(rows[i]), rows[i].white = u
        PROVE  made[i - k].black = Nobody /\ made[i - k].white = u /\ i - k \in 1..n
    BY <2>3, <1>8 DEF IsBye
  <2> QED
    BY <2>1, <2>2, <2>3
<1>12. scored \in PlayerRows
  <2> DEFINE Player == [status : {"none", "active", "withdrawn"}, score : Nat]
             after(u) == IF u \in ByeRecipients(made)
                         THEN [entered[u] EXCEPT !.score = @ + 2] ELSE entered[u]
  <2>1. \A u \in Entrants : entered[u] \in Player
    BY DEF PlayerRows
  <2>2. \A u \in Entrants : after(u) \in Player
    BY <2>1
  <2>3. scored = [u \in Entrants |-> after(u)]
    BY <1>2
  <2> HIDE DEF after, Player
  <2>4. scored \in [Entrants -> Player]
    BY <2>2, <2>3
  <2> QED
    BY <2>4 DEF PlayerRows, Player
<1>13. \A u \in Entrants :
          /\ scored[u].status = entered[u].status
          /\ u \in ByeRecipients(made) => scored[u].score = entered[u].score + 2
          /\ u \notin ByeRecipients(made) => scored[u].score = entered[u].score
  BY <1>2 DEF PlayerRows
<1>14. \A i \in (k + 1)..(k + n) :
          /\ rows[i].round = round /\ rows[i].white # rows[i].black
          /\ rows[i].result = IF IsBye(rows[i]) THEN "1-0" ELSE "none"
          /\ \A u \in Entrants : IsIn(u, rows[i]) => entered[u].status = "active"
  BY SMTT(30), <1>1, <1>3, <1>8, <1>10 DEF IsBye
<1>15. \A i \in (k + 1)..(k + n) : IsBye(rows[i]) =>
          /\ i = k + 1
          /\ rows[i].white \in ByeRecipients(prior)
                => \A u \in Entrants : entered[u].status = "active" => u \in ByeRecipients(prior)
  <2> SUFFICES ASSUME NEW i \in (k + 1)..(k + n), IsBye(rows[i])
               PROVE  /\ i = k + 1
                      /\ rows[i].white \in ByeRecipients(prior) => some \subseteq ByeRecipients(prior)
    BY <1>1
  <2>1. i - k \in 1..n /\ made[i - k].black = Nobody /\ made[i - k].white = rows[i].white
    BY <1>8 DEF IsBye
  <2>2. i - k = 1
    BY <2>1, <1>3
  <2> QED
    BY <2>1, <2>2, <1>3, <1>7
<1>16. \A i, j \in (k + 1)..(k + n) : \A u \in Entrants :
          IsIn(u, rows[i]) /\ IsIn(u, rows[j]) => i = j
  <2> SUFFICES ASSUME NEW i \in (k + 1)..(k + n), NEW j \in (k + 1)..(k + n), NEW u \in Entrants,
                      IsIn(u, rows[i]), IsIn(u, rows[j])
               PROVE  i = j
    OBVIOUS
  <2>1. i - k = j - k
    BY <1>3, <1>8, <1>10
  <2> QED
    BY <2>1, <1>7, <1>4
<1>17. \A u \in Entrants : entered[u].status = "active" =>
          \E i \in (k + 1)..(k + n) : IsIn(u, rows[i])
  <2> SUFFICES ASSUME NEW u \in Entrants, entered[u].status = "active"
               PROVE  \E i \in (k + 1)..(k + n) : IsIn(u, rows[i])
    OBVIOUS
  <2>1. PICK j \in 1..n : IsIn(u, made[j])
    BY <1>1, <1>3
  <2>2. IsIn(u, rows[j + k]) /\ j + k \in (k + 1)..(k + n)
    BY <2>1, <1>9, <1>10
  <2> QED
    BY <2>2
<1> QED
  BY SMTT(30), <1>7, <1>11, <1>12, <1>13, <1>14, <1>15, <1>16, <1>17, <1>4 DEF NewRound, k, rows, scored

-----------------------------------------------------------------------------
(* What the rows bring. *)

\* The rows that brought a player so many points can be counted.
LEMMA BroughtIsFinite ==
    ASSUME NEW rows \in Seq(Pairings), NEW u, NEW points
    PROVE  /\ IsFiniteSet(Brought(u, rows, points))
           /\ Cardinality(Brought(u, rows, points)) \in Nat
<1>1. Len(rows) \in Nat /\ DOMAIN rows = 1..Len(rows)
  OBVIOUS
<1>2. Brought(u, rows, points) \in SUBSET (1..Len(rows))
  BY <1>1 DEF Brought
<1>3. IsFiniteSet(Brought(u, rows, points))
  <2>1. IsFiniteSet(1..Len(rows))
    BY <1>1, FS_Interval
  <2> QED
    BY <1>2, <2>1, FS_Subset
<1> QED
  BY <1>3, FS_CardinalityType

\* An undecided row brings nothing, a bye two half points to its player.
LEMMA PointsOfRow ==
    ASSUME NEW row \in Pairings, NEW u \in Entrants, row.white # row.black
    PROVE  /\ PointsIn(u, row) \in {0, 1, 2}
           /\ row.result = "none" => PointsIn(u, row) = 0
           /\ row.result = "1-0" /\ IsBye(row) =>
                 PointsIn(u, row) = IF row.white = u THEN 2 ELSE 0
           /\ row.white = u => PointsIn(u, row) = ScoreForResult(row.result)[1]
           /\ row.black = u => PointsIn(u, row) = ScoreForResult(row.result)[2]
           /\ ~IsIn(u, row) => PointsIn(u, row) = 0
  BY SwissAssumption DEF Pairings, PointsIn, ScoreForResult, IsBye, IsIn

\* The scores show what was earned after a new round as before it.
LEMMA EarnedAfterRound ==
    ASSUME NEW prior \in Seq(Pairings), NEW rows, NEW round, NEW entered \in PlayerRows,
           NEW scored, NewRound(prior, rows, round, entered, scored), NEW u \in Entrants,
           entered[u].score = Earned(u, prior)
    PROVE  scored[u].score = Earned(u, rows)
<1> DEFINE k == Len(prior)
           n == Len(rows)
           byes == {i \in (k + 1)..n : IsBye(rows[i]) /\ rows[i].white = u}
<1>0. /\ k \in Nat /\ n \in Nat /\ DOMAIN prior = 1..k /\ DOMAIN rows = 1..n /\ k <= n
      /\ rows \in Seq(Pairings) /\ \A i \in 1..n : rows[i] \in Pairings
  BY DEF NewRound
<1> HIDE DEF k, n
<1>1. \A i \in 1..k : rows[i] = prior[i]
  BY DEF NewRound, k
<1>2. \A i \in (k + 1)..n : PointsIn(u, rows[i]) = IF i \in byes THEN 2 ELSE 0
  <2> TAKE i \in (k + 1)..n
  <2>1. /\ rows[i] \in Pairings /\ rows[i].white # rows[i].black
        /\ rows[i].result = IF IsBye(rows[i]) THEN "1-0" ELSE "none"
    BY <1>0 DEF NewRound, k, n
  <2> QED
    BY <2>1, PointsOfRow
<1>3. \A i \in 1..n : i \in 1..k \/ i \in (k + 1)..n
  BY <1>0
<1>4. \A i \in (k + 1)..n : i \in 1..n /\ i \notin 1..k
  BY <1>0
<1>5. \A i \in 1..k : i \in 1..n /\ i \notin (k + 1)..n
  BY <1>0
<1>6. Brought(u, rows, 1) = Brought(u, prior, 1)
  BY <1>0, <1>1, <1>2, <1>3, <1>4, <1>5 DEF Brought
<1>7. Brought(u, rows, 2) = Brought(u, prior, 2) \cup byes
  BY <1>0, <1>1, <1>2, <1>3, <1>4, <1>5 DEF Brought
<1>8. /\ IsFiniteSet(Brought(u, prior, 2)) /\ Cardinality(Brought(u, prior, 2)) \in Nat
      /\ Cardinality(Brought(u, prior, 1)) \in Nat
  BY BroughtIsFinite
<1>9. CASE byes = {}
  <2>1. scored[u].score = entered[u].score
    BY <1>9 DEF NewRound, k, n
  <2> QED
    BY <2>1, <1>6, <1>7, <1>9 DEF Earned
<1>10. CASE byes # {}
  <2>1. PICK i \in byes : TRUE
    BY <1>10
  <2>2. i \in (k + 1)..n /\ IsBye(rows[i]) /\ rows[i].white = u
    OBVIOUS
  <2>3. scored[u].score = entered[u].score + 2
    BY <2>2 DEF NewRound, k, n
  <2>4. byes = {i}
    <3>1. \A j \in (k + 1)..n : IsBye(rows[j]) => j = k + 1
      BY DEF NewRound, k, n
    <3> QED
      BY <3>1, <2>2
  <2>5. i \notin Brought(u, prior, 2)
    BY <2>2, <1>0, <1>4 DEF Brought
  <2>6. Cardinality(Brought(u, rows, 2)) = Cardinality(Brought(u, prior, 2)) + 1
    BY <2>4, <2>5, <1>7, <1>8, FS_AddElement
  <2> QED
    BY <2>3, <2>6, <1>6, <1>8 DEF Earned
<1> QED
  BY <1>9, <1>10

\* A result that is entered brings its points.
LEMMA EarnedAfterResult ==
    ASSUME NEW rows \in Seq(Pairings), NEW i \in DOMAIN rows, rows[i].result = "none",
           rows[i].white # rows[i].black,
           NEW row \in Pairings, row.white = rows[i].white, row.black = rows[i].black,
           NEW u \in Entrants
    PROVE  Earned(u, [rows EXCEPT ![i] = row]) = Earned(u, rows) + PointsIn(u, row)
<1> DEFINE after == [rows EXCEPT ![i] = row]
<1>1. /\ DOMAIN after = DOMAIN rows /\ after[i] = row
      /\ \A j \in DOMAIN rows : j # i => after[j] = rows[j]
  OBVIOUS
<1>2. rows[i] \in Pairings
  OBVIOUS
<1>3. PointsIn(u, rows[i]) = 0 /\ PointsIn(u, row) \in {0, 1, 2}
  BY <1>2, PointsOfRow
<1> HIDE DEF after
<1>4. \A points \in {1, 2} :
         Brought(u, after, points) = IF PointsIn(u, row) = points
                                     THEN Brought(u, rows, points) \cup {i}
                                     ELSE Brought(u, rows, points)
  BY <1>1, <1>3 DEF Brought
<1>5. \A points \in {1, 2} : i \notin Brought(u, rows, points)
  BY <1>3 DEF Brought
<1>6. \A points \in {1, 2} :
         /\ Cardinality(Brought(u, rows, points)) \in Nat
         /\ Cardinality(Brought(u, after, points)) =
               Cardinality(Brought(u, rows, points)) + IF PointsIn(u, row) = points THEN 1 ELSE 0
  <2> TAKE points \in {1, 2}
  <2>1. /\ IsFiniteSet(Brought(u, rows, points))
        /\ Cardinality(Brought(u, rows, points)) \in Nat
    BY BroughtIsFinite
  <2>2. Cardinality(Brought(u, rows, points) \cup {i}) = Cardinality(Brought(u, rows, points)) + 1
    BY <2>1, <1>5, FS_AddElement
  <2>3. CASE PointsIn(u, row) = points
    <3>1. Brought(u, after, points) = Brought(u, rows, points) \cup {i}
      BY <1>4, <2>3
    <3> QED
      BY <2>1, <2>2, <2>3, <3>1
  <2>4. CASE PointsIn(u, row) # points
    <3>1. Brought(u, after, points) = Brought(u, rows, points)
      BY <1>4, <2>4
    <3> QED
      BY <2>1, <2>4, <3>1
  <2> QED
    BY <2>3, <2>4
<1>7. Earned(u, after) = Earned(u, rows) + PointsIn(u, row)
  <2> DEFINE two == Cardinality(Brought(u, rows, 2))
             one == Cardinality(Brought(u, rows, 1))
  <2>1. /\ two \in Nat /\ one \in Nat
        /\ Cardinality(Brought(u, after, 2)) = two + IF PointsIn(u, row) = 2 THEN 1 ELSE 0
        /\ Cardinality(Brought(u, after, 1)) = one + IF PointsIn(u, row) = 1 THEN 1 ELSE 0
    BY <1>6
  <2> QED
    BY <2>1, <1>3 DEF Earned
<1> QED
  BY <1>7 DEF after

-----------------------------------------------------------------------------
(* What the parts of a step preserve. *)

\* A new round (_create_round_pairings) gives nobody himself as opponent, and no
\* points to somebody who is not entered.
LEMMA SaneAfterRound ==
    ASSUME NEW prior \in Seq(Pairings), NEW rows, NEW round, NEW entered \in PlayerRows,
           NEW scored, NewRound(prior, rows, round, entered, scored), Sane(prior, entered)
    PROVE  Sane(rows, scored)
<1> DEFINE k == Len(prior)
           n == Len(rows)
<1>0. /\ k \in Nat /\ n \in Nat /\ DOMAIN prior = 1..k /\ DOMAIN rows = 1..n /\ k <= n
  BY DEF NewRound
<1> HIDE DEF k, n
<1>1. \A i \in 1..n : rows[i].white # rows[i].black
  <2> TAKE i \in 1..n
  <2>1. CASE i \in 1..k
    BY <2>1, <1>0 DEF NewRound, Sane, k
  <2>2. CASE i \in (k + 1)..n
    BY <2>2 DEF NewRound, k, n
  <2> QED
    BY <2>1, <2>2, <1>0
<1>2. ASSUME NEW u \in Entrants, scored[u].status = "none" PROVE scored[u].score = 0
  <2>1. entered[u].status = "none" /\ entered[u].score = 0
    BY <1>2 DEF NewRound, Sane
  <2>2. \A i \in (k + 1)..n : rows[i].white # u
    BY <2>1 DEF NewRound, IsIn, k, n
  <2> QED
    BY <2>1, <2>2 DEF NewRound, k, n
<1> QED
  BY <1>0, <1>1, <1>2 DEF Sane

\* A new round adds its points to the scores, is later than all rows there were,
\* and has an undecided game if it has a game.
LEMMA HistoryAfterRound ==
    ASSUME NEW prior \in Seq(Pairings), NEW rows, NEW last \in Nat, NEW entered \in PlayerRows,
           NEW scored, NewRound(prior, rows, last + 1, entered, scored),
           History(prior, entered, last)
    PROVE  History(rows, scored, last + 1) /\ Undecided(rows, last + 1)
<1> DEFINE k == Len(prior)
           n == Len(rows)
<1>0. /\ k \in Nat /\ n \in Nat /\ DOMAIN prior = 1..k /\ DOMAIN rows = 1..n /\ k <= n
      /\ \A i \in 1..k : prior[i].round \in Nat
  <2>1. \A i \in 1..Len(prior) : prior[i] \in Pairings
    OBVIOUS
  <2> QED
    BY <2>1 DEF NewRound, Pairings
<1> HIDE DEF k, n
<1>1. \A i \in 1..n : i \in 1..k \/ i \in (k + 1)..n
  BY <1>0
<1>2. \A i \in 1..k : rows[i] = prior[i] /\ prior[i].round <= last
  BY <1>0 DEF NewRound, History, k
<1>3. \A i \in (k + 1)..n : rows[i].round = last + 1
  BY DEF NewRound, k, n
<1>4. \A i \in 1..n : rows[i].round <= last + 1
  BY <1>0, <1>1, <1>2, <1>3
<1>5. ASSUME NEW i \in 1..n, NEW u \in Entrants, IsIn(u, rows[i])
      PROVE  scored[u].status # "none"
  <2>1. CASE i \in 1..k
    BY <1>5, <2>1, <1>0, <1>2 DEF NewRound, History
  <2>2. CASE i \in (k + 1)..n
    BY <1>5, <2>2 DEF NewRound, k, n
  <2> QED
    BY <2>1, <2>2, <1>1
<1>6. \A u \in Entrants : scored[u].score = Earned(u, rows)
  BY EarnedAfterRound DEF History
<1>7. ASSUME NEW i \in 1..n, NEW j \in 1..n, NEW u \in Entrants,
             i # j, IsIn(u, rows[i]), IsIn(u, rows[j])
      PROVE  rows[i].round # rows[j].round
  <2>1. CASE i \in 1..k /\ j \in 1..k
    BY <1>7, <2>1, <1>0, <1>2 DEF History
  <2>2. CASE i \in (k + 1)..n /\ j \in (k + 1)..n
    BY <1>7, <2>2 DEF NewRound, k, n
  <2>3. CASE i \in 1..k /\ j \in (k + 1)..n
    BY <2>3, <1>0, <1>2, <1>3
  <2>4. CASE j \in 1..k /\ i \in (k + 1)..n
    BY <2>4, <1>0, <1>2, <1>3
  <2> QED
    BY <2>1, <2>2, <2>3, <2>4, <1>1
<1>8. ASSUME NEW i \in 1..n, rows[i].round = last + 1, rows[i].black # Nobody
      PROVE  ~IsComplete(rows, last + 1)
  <2>1. i \in (k + 1)..n
    BY <1>8, <1>0, <1>1, <1>2
  <2>2. rows[i].result = "none"
    BY <1>8, <2>1 DEF NewRound, IsBye, k, n
  <2> QED
    BY <1>8, <2>2, <1>0 DEF IsComplete
<1> QED
  BY <1>0, <1>4, <1>5, <1>6, <1>7, <1>8 DEF History, Undecided

\* A new round, with the round of the tournament that goes with it.
LEMMA InvAfterRound ==
    ASSUME TypeOK, NEW rounds \in Nat, NEW last \in Nat,
           NEW entered \in PlayerRows, NEW prior \in Seq(Pairings), Sane(prior, entered),
           ~reopened => History(prior, entered, last),
           CreateRoundPairings(last + 1, entered, prior),
           tournament' = [status |-> "active", current_round |-> last + 1, total_rounds |-> rounds],
           UNCHANGED <<changes, reopened>>
    PROVE  TournamentInv'
<1>1. NewRound(prior, pairings', last + 1, entered, players')
  BY RoundIsCreated
<1>2. TypeOK'
  BY <1>1 DEF TypeOK, NewRound, PlayerRows, Statuses, Startable
<1>3. Sane(pairings', players')
  BY <1>1, SaneAfterRound
<1>4. Rows'
  BY <1>3 DEF Rows
<1>5. ~reopened => Rounds'
  <2> SUFFICES ASSUME ~reopened PROVE Rounds'
    OBVIOUS
  <2>1. History(pairings', players', last + 1) /\ Undecided(pairings', last + 1)
    BY <1>1, HistoryAfterRound
  <2> QED
    BY <2>1 DEF Rounds, Startable
<1> QED
  BY <1>2, <1>4, <1>5 DEF TournamentInv

\* _advance_if_round_complete keeps what holds of the rows it reads.
LEMMA InvAfterAdvance ==
    ASSUME TypeOK, NEW entered \in PlayerRows, NEW rows \in Seq(Pairings), Sane(rows, entered),
           tournament.current_round = 0 => rows = <<>>,
           tournament.status = "active" => tournament.current_round # 0,
           ~reopened => /\ tournament.status \in Startable => tournament.current_round = 0
                        /\ History(rows, entered, tournament.current_round),
           AdvanceIfRoundComplete(entered, rows),
           UNCHANGED <<changes, reopened>>
    PROVE  TournamentInv'
<1> DEFINE round == tournament.current_round
<1>0. /\ round \in Nat /\ tournament.total_rounds \in Nat /\ tournament.status \in Statuses
      /\ tournament = [status |-> tournament.status, current_round |-> round,
                       total_rounds |-> tournament.total_rounds]
  BY DEF TypeOK
<1>1. CASE tournament.status # "active" \/ ~IsComplete(rows, round)
  <2>1. players' = entered /\ pairings' = rows /\ UNCHANGED tournament
    BY <1>1 DEF AdvanceIfRoundComplete
  <2>2. TypeOK'
    BY <2>1 DEF TypeOK, PlayerRows
  <2>3. Rows'
    BY <2>1 DEF Rows
  <2>4. ~reopened => Rounds'
    BY <1>1, <2>1 DEF Rounds, Undecided
  <2> QED
    BY <2>2, <2>3, <2>4 DEF TournamentInv
<1>2. CASE tournament.status = "active" /\ IsComplete(rows, round) /\ IsLast(round)
  <2>1. /\ players' = entered /\ pairings' = rows
        /\ tournament' = [tournament EXCEPT !.status = "finished"]
    BY <1>2 DEF AdvanceIfRoundComplete
  <2>2. tournament'.status = "finished" /\ tournament'.current_round = round
    BY <1>0, <2>1
  <2>3. TypeOK'
    BY <2>1, <1>0 DEF TypeOK, PlayerRows, Statuses
  <2>4. Rows'
    BY <2>1, <2>2 DEF Rows
  <2>5. ~reopened => Rounds'
    BY <2>1, <2>2 DEF Rounds, Startable
  <2> QED
    BY <2>3, <2>4, <2>5 DEF TournamentInv
<1>3. CASE tournament.status = "active" /\ IsComplete(rows, round) /\ ~IsLast(round)
  <2>1. CreateRoundPairings(round + 1, entered, rows)
    BY <1>3 DEF AdvanceIfRoundComplete
  <2>2. tournament' = [status |-> "active", current_round |-> round + 1,
                       total_rounds |-> tournament.total_rounds]
    BY <1>3, <1>0 DEF AdvanceIfRoundComplete
  <2> QED
    BY <2>1, <2>2, <1>0, InvAfterRound
<1> QED
  BY <1>1, <1>2, <1>3

-----------------------------------------------------------------------------
(* The actions. *)

\* swiss_round_count returns a number of rounds.
LEMMA SwissRoundCountType ==
    ASSUME NEW n \in Nat
    PROVE  SwissRoundCount(n) \in Nat
<1>1. IsFiniteSet(0..n) /\ {k \in 0..n : 2^k < n} \in SUBSET (0..n)
  BY FS_Interval
<1>2. Cardinality({k \in 0..n : 2^k < n}) \in Nat
  BY <1>1, FS_Subset, FS_CardinalityType
<1> QED
  BY <1>2 DEF SwissRoundCount

\* create_tournament establishes the invariant.
LEMMA TournamentInit ==
    Init => TournamentInv
<1> SUFFICES ASSUME Init PROVE TournamentInv
  OBVIOUS
<1>1. /\ tournament \in [status : {"registration"}, current_round : {0}, total_rounds : 0..MaxRounds]
      /\ players = [u \in Entrants |-> IF u = Owner THEN Entered ELSE NotEntered]
      /\ pairings = <<>> /\ changes = 0 /\ reopened = FALSE
  BY DEF Init
<1>2. /\ tournament.status = "registration" /\ tournament.current_round = 0
      /\ tournament.total_rounds \in Nat /\ MaxChanges \in Nat
      /\ tournament \in [status : Statuses, current_round : Nat, total_rounds : Nat]
  BY <1>1, TournamentAssumption DEF Statuses, Startable
<1>3. players \in PlayerRows /\ \A u \in Entrants : players[u].score = 0
  BY <1>1 DEF PlayerRows, Entered, NotEntered
<1>4. pairings \in Seq(Pairings) /\ DOMAIN pairings = {}
  BY <1>1
<1>5. TypeOK
  <2>1. changes \in 0..MaxChanges
    BY TournamentAssumption DEF Init
  <2>2. reopened \in BOOLEAN
    BY DEF Init
  <2> QED
    BY <1>2, <1>3, <1>4, <2>1, <2>2 DEF TypeOK, PlayerRows
<1>6. Rows
  BY <1>1, <1>2, <1>3, <1>4 DEF Rows, Sane
<1>7. \A u : \A points : Brought(u, pairings, points) = {}
  BY <1>4 DEF Brought
<1>8. \A u \in Entrants : players[u].score = Earned(u, pairings)
  BY <1>3, <1>7, FS_EmptySet DEF Earned
<1>9. Rounds
  BY <1>2, <1>4, <1>8 DEF Rounds, History, Undecided
<1> QED
  BY <1>5, <1>6, <1>9 DEF TournamentInv

\* Whoever enters or comes back while the rows stay as they are.
LEMMA InvAfterEntering ==
    ASSUME TournamentInv, NEW u \in Entrants, NEW status \in {"active", "withdrawn"},
           players' = [players EXCEPT ![u].status = status],
           changes' \in 0..MaxChanges, UNCHANGED <<tournament, pairings, reopened>>
    PROVE  TournamentInv'
<1>1. /\ players \in PlayerRows /\ players' \in PlayerRows
      /\ \A v \in Entrants : /\ players'[v].score = players[v].score
                             /\ players'[v].status = IF v = u THEN status ELSE players[v].status
  BY DEF TournamentInv, TypeOK, PlayerRows
<1>2. TypeOK'
  BY <1>1 DEF TournamentInv, TypeOK, PlayerRows
<1>3. Rows'
  BY <1>1 DEF TournamentInv, Rows, Sane
<1>4. ~reopened => Rounds'
  BY <1>1 DEF TournamentInv, Rounds, History, Undecided, IsComplete
<1> QED
  BY <1>2, <1>3, <1>4 DEF TournamentInv

\* join_tournament and add_otb_player keep the invariant.
LEMMA InvJoin ==
    ASSUME TournamentInv, NEW u \in Entrants, Join(u) \/ AddOtbPlayer(u)
    PROVE  TournamentInv'
<1>1. ~IsEntered(u) /\ players' = [players EXCEPT ![u] = Entered]
      /\ UNCHANGED <<tournament, pairings, changes, reopened>>
  BY DEF Join, AddOtbPlayer
<1>2. players[u] = [status |-> "none", score |-> 0]
  <2>1. players[u] \in [status : {"none", "active", "withdrawn"}, score : Nat]
    BY DEF TournamentInv, TypeOK
  <2>2. players[u].status = "none" /\ players[u].score = 0
    BY <1>1 DEF TournamentInv, Rows, Sane, IsEntered
  <2> QED
    BY <2>1, <2>2
<1>3. players' = [players EXCEPT ![u].status = "active"]
  <2>1. Entered = [players[u] EXCEPT !.status = "active"]
    BY <1>2 DEF Entered
  <2> QED
    BY <1>1, <2>1
<1>4. changes' \in 0..MaxChanges
  BY <1>1 DEF TournamentInv, TypeOK
<1> QED
  BY <1>1, <1>3, <1>4, InvAfterEntering

\* Before the first round there are no rows to be missing from.
LEMMA InvLeave ==
    ASSUME TournamentInv, NEW u \in Entrants, Leave(u)
    PROVE  TournamentInv'
<1>1. /\ tournament.status = "registration"
      /\ players' = [players EXCEPT ![u] = NotEntered]
      /\ changes' \in 0..MaxChanges /\ UNCHANGED <<tournament, pairings, reopened>>
  BY TournamentAssumption DEF Leave, RegistrationIsOpen, Change, TournamentInv, TypeOK
<1>2. /\ players \in PlayerRows /\ players' \in PlayerRows
      /\ \A v \in Entrants : players'[v] = IF v = u THEN NotEntered ELSE players[v]
  BY <1>1 DEF TournamentInv, TypeOK, PlayerRows, NotEntered
<1>3. TypeOK'
  BY <1>1, <1>2 DEF TournamentInv, TypeOK, PlayerRows
<1>4. Rows'
  BY <1>1, <1>2 DEF TournamentInv, Rows, Sane, NotEntered
<1>5. ~reopened => Rounds'
  <2> SUFFICES ASSUME ~reopened PROVE Rounds'
    OBVIOUS
  <2>1. pairings = <<>> /\ Rounds
    BY <1>1 DEF TournamentInv, Rows, Rounds, Startable
  <2>2. DOMAIN pairings = {}
    BY <2>1
  <2>3. \A v : \A points : Brought(v, pairings, points) = {}
    BY <2>2 DEF Brought
  <2>4. \A v \in Entrants : Earned(v, pairings) = 0
    BY <2>3, FS_EmptySet DEF Earned
  <2>5. \A v \in Entrants : players'[v].score = Earned(v, pairings')
    BY <1>1, <1>2, <2>1, <2>4 DEF Rounds, History, NotEntered
  <2> QED
    BY <1>1, <2>1, <2>2, <2>5 DEF Rounds, History, Undecided
<1> QED
  BY <1>1, <1>3, <1>4, <1>5 DEF TournamentInv

\* withdraw and apply_payment, in whatever status, keep the invariant.
LEMMA InvWithdraw ==
    ASSUME TournamentInv, NEW u \in Entrants, Withdraw(u) \/ ConfirmRegistration(u)
    PROVE  TournamentInv'
<1>1. \E status \in {"active", "withdrawn"} : players' = [players EXCEPT ![u].status = status]
  BY DEF Withdraw, ConfirmRegistration
<1>2. changes' \in 0..MaxChanges /\ UNCHANGED <<tournament, pairings, reopened>>
  BY TournamentAssumption DEF Withdraw, ConfirmRegistration, Change, TournamentInv, TypeOK
<1> QED
  BY <1>1, <1>2, InvAfterEntering

\* update_tournament keeps the invariant.
LEMMA InvUpdate ==
    ASSUME TournamentInv, NEW rounds \in 1..MaxRounds, UpdateTournament(rounds)
    PROVE  TournamentInv'
<1>1. /\ tournament' = [tournament EXCEPT !.total_rounds = rounds] /\ rounds \in Nat
      /\ changes' \in 0..MaxChanges /\ UNCHANGED <<players, pairings, reopened>>
  BY TournamentAssumption DEF UpdateTournament, Change, TournamentInv, TypeOK
<1>2. /\ TypeOK' /\ tournament'.status = tournament.status
      /\ tournament'.current_round = tournament.current_round
  BY <1>1 DEF TournamentInv, TypeOK
<1>3. Rows'
  BY <1>1, <1>2 DEF TournamentInv, Rows
<1>4. ~reopened => Rounds'
  BY <1>1, <1>2 DEF TournamentInv, Rounds
<1> QED
  BY <1>1, <1>2, <1>3, <1>4 DEF TournamentInv

\* Any status the owner may set keeps the invariant: back to registration after the
\* first round is what reopened remembers.
LEMMA InvSetStatus ==
    ASSUME TournamentInv, NEW status \in Statuses \ {"active"}, SetStatus(status)
    PROVE  TournamentInv'
<1>1. /\ tournament' = [tournament EXCEPT !.status = status]
      /\ reopened' = (reopened \/ (tournament.current_round > 0 /\ status \in Startable))
      /\ changes' \in 0..MaxChanges /\ UNCHANGED <<players, pairings>>
  BY TournamentAssumption DEF SetStatus, Change, TournamentInv, TypeOK
<1>2. /\ TypeOK' /\ tournament'.status = status
      /\ tournament'.current_round = tournament.current_round /\ tournament.current_round \in Nat
  BY <1>1 DEF TournamentInv, TypeOK
<1>3. Rows'
  BY <1>1, <1>2 DEF TournamentInv, Rows
<1>4. ~reopened' => Rounds'
  <2> SUFFICES ASSUME ~reopened' PROVE Rounds'
    OBVIOUS
  <2>1. reopened \in BOOLEAN
    BY DEF TournamentInv, TypeOK
  <2>2. ~reopened /\ ~(tournament.current_round > 0 /\ status \in Startable)
    BY <1>1, <2>1
  <2>3. tournament'.status \in Startable => tournament'.current_round = 0
    BY <1>2, <2>2
  <2>4. tournament'.status # "active"
    BY <1>2
  <2>5. History(pairings', players', tournament'.current_round)
    BY <1>1, <1>2, <2>2 DEF TournamentInv, Rounds
  <2> QED
    BY <2>3, <2>4, <2>5 DEF Rounds
<1> QED
  BY <1>2, <1>3, <1>4 DEF TournamentInv

\* start_tournament keeps the invariant.
LEMMA InvStart ==
    ASSUME TournamentInv, StartTournament
    PROVE  TournamentInv'
<1> DEFINE rounds == IF tournament.total_rounds # 0 THEN tournament.total_rounds
                                                   ELSE SwissRoundCount(Cardinality(Present(players)))
<1>1. /\ tournament.status \in Startable
      /\ tournament' = [status |-> "active", current_round |-> 1, total_rounds |-> rounds]
      /\ CreateRoundPairings(1, players, pairings) /\ UNCHANGED <<changes, reopened>>
  BY DEF StartTournament
<1>2. rounds \in Nat
  <2>1. IsFiniteSet(Present(players))
    BY SwissAssumption, FS_Subset DEF Present
  <2>2. SwissRoundCount(Cardinality(Present(players))) \in Nat
    BY <2>1, FS_CardinalityType, SwissRoundCountType
  <2> QED
    BY <2>2 DEF TournamentInv, TypeOK
<1> HIDE DEF rounds
<1>3. players \in PlayerRows /\ pairings \in Seq(Pairings) /\ Sane(pairings, players) /\ TypeOK
  BY DEF TournamentInv, TypeOK, PlayerRows, Rows
<1>4. ~reopened => History(pairings, players, 0)
  BY <1>1 DEF TournamentInv, Rounds
<1>5. CreateRoundPairings(0 + 1, players, pairings) /\ 0 + 1 = 1
  BY <1>1
<1> QED
  BY <1>1, <1>2, <1>3, <1>4, <1>5, InvAfterRound

\* advance_tournament keeps the invariant.
LEMMA InvAdvance ==
    ASSUME TournamentInv, AdvanceTournament
    PROVE  TournamentInv'
<1>1. players \in PlayerRows /\ pairings \in Seq(Pairings) /\ Sane(pairings, players) /\ TypeOK
  BY DEF TournamentInv, TypeOK, PlayerRows, Rows
<1>2. AdvanceIfRoundComplete(players, pairings) /\ UNCHANGED <<changes, reopened>>
  BY DEF AdvanceTournament
<1> QED
  BY <1>1, <1>2, InvAfterAdvance DEF TournamentInv, Rows, Rounds

\* Adding points to one player changes no other row of tournament_players.
LEMMA PointsAreAdded ==
    ASSUME NEW entered \in PlayerRows, NEW u \in Entrants, NEW p \in Nat
    PROVE  LET after == [entered EXCEPT ![u].score = @ + p]
           IN  /\ after \in PlayerRows
               /\ \A v \in Entrants :
                     /\ after[v].status = entered[v].status
                     /\ after[v].score = entered[v].score + IF v = u THEN p ELSE 0
<1> DEFINE Player == [status : {"none", "active", "withdrawn"}, score : Nat]
           more == [entered[u] EXCEPT !.score = @ + p]
           after == [entered EXCEPT ![u] = more]
<1>1. entered \in [Entrants -> Player]
  BY DEF PlayerRows
<1>2. \A v \in Entrants : entered[v] \in Player /\ entered[v].score \in Nat
  BY <1>1
<1>3. more \in Player /\ more.status = entered[u].status /\ more.score = entered[u].score + p
  BY <1>2
<1> HIDE DEF more, Player
<1>4. after \in [Entrants -> Player]
  BY <1>1, <1>3
<1>5. \A v \in Entrants : after[v] = IF v = u THEN more ELSE entered[v]
  BY <1>1
<1>6. \A v \in Entrants : /\ after[v].status = entered[v].status
                          /\ after[v].score = entered[v].score + IF v = u THEN p ELSE 0
  BY <1>2, <1>3, <1>5
<1>7. after = [entered EXCEPT ![u].score = @ + p]
  BY DEF more
<1> QED
  BY <1>4, <1>6, <1>7 DEF PlayerRows, Player

\* Applying a decided row adds to each player what the row says, and to nobody
\* else: apply_pairing_result touches two different players.
LEMMA ResultIsApplied ==
    ASSUME players \in PlayerRows, NEW row \in Pairings,
           row.result \in {"1-0", "0-1", "1/2-1/2"},
           row.white \in Entrants, row.black \in Entrants, row.white # row.black
    PROVE  /\ ApplyPairingResult(row) \in PlayerRows
           /\ \A u \in Entrants :
                 /\ ApplyPairingResult(row)[u].status = players[u].status
                 /\ ApplyPairingResult(row)[u].score = players[u].score + PointsIn(u, row)
<1> DEFINE w == ScoreForResult(row.result)[1]
           b == ScoreForResult(row.result)[2]
           applied == ApplyPairingResult(row)
           half == [players EXCEPT ![row.white].score = @ + w]
<1>1. w \in Nat /\ b \in Nat
  BY DEF ScoreForResult
<1>2. applied = [players EXCEPT ![row.white].score = @ + w, ![row.black].score = @ + b]
  BY DEF ApplyPairingResult
<1>3. \A u \in Entrants : PointsIn(u, row) = IF u = row.white THEN w
                                            ELSE IF u = row.black THEN b ELSE 0
  BY DEF PointsIn, w, b
<1> HIDE DEF w, b, applied
<1>4. /\ half \in PlayerRows
      /\ \A u \in Entrants :
            /\ half[u].status = players[u].status
            /\ half[u].score = players[u].score + IF u = row.white THEN w ELSE 0
  BY <1>1, PointsAreAdded
<1>5. applied = [half EXCEPT ![row.black].score = @ + b]
  BY <1>2, <1>4
<1> HIDE DEF half
<1>6. /\ [half EXCEPT ![row.black].score = @ + b] \in PlayerRows
      /\ \A u \in Entrants :
            /\ [half EXCEPT ![row.black].score = @ + b][u].status = half[u].status
            /\ [half EXCEPT ![row.black].score = @ + b][u].score
                  = half[u].score + IF u = row.black THEN b ELSE 0
  BY SMTT(30), <1>1, <1>4, PointsAreAdded
<1>7. /\ applied \in PlayerRows
      /\ \A u \in Entrants :
            /\ applied[u].status = half[u].status
            /\ applied[u].score = half[u].score + IF u = row.black THEN b ELSE 0
  BY <1>5, <1>6
<1>8. \A u \in Entrants : players[u].score \in Nat
  BY DEF PlayerRows
<1>9. /\ applied \in PlayerRows
      /\ \A u \in Entrants : /\ applied[u].status = players[u].status
                             /\ applied[u].score = players[u].score + PointsIn(u, row)
  BY <1>1, <1>3, <1>4, <1>7, <1>8
<1> QED
  BY <1>9 DEF applied

\* The two players of a row get their points.
LEMMA InvSync ==
    ASSUME TournamentInv, NEW i \in DOMAIN pairings, NEW gameResult \in GameResults,
           SyncGameResult(i, gameResult)
    PROVE  TournamentInv'
<1> DEFINE row == [pairings[i] EXCEPT !.result = ResolvePairingResult(gameResult)]
           rows == [pairings EXCEPT ![i] = row]
           applied == ApplyPairingResult(row)
           last == tournament.current_round
<1>1. /\ pairings[i].black # Nobody /\ pairings[i].result = "none"
      /\ UNCHANGED <<changes, reopened>>
      /\ IF row.result = "none"
         THEN UNCHANGED <<tournament, players, pairings>>
         ELSE IF IsEntered(row.white) /\ IsEntered(row.black)
         THEN AdvanceIfRoundComplete(applied, rows)
         ELSE pairings' = rows /\ UNCHANGED <<tournament, players>>
  BY DEF SyncGameResult
<1>2. /\ pairings \in Seq(Pairings) /\ pairings[i] \in Pairings /\ players \in PlayerRows
      /\ TypeOK /\ Rows /\ pairings[i].white # pairings[i].black
      /\ DOMAIN pairings = 1..Len(pairings)
  BY DEF TournamentInv, TypeOK, PlayerRows, Rows, Sane
<1>3. /\ row \in Pairings /\ row.result \in {"1-0", "0-1", "1/2-1/2"}
      /\ row.white = pairings[i].white /\ row.black = pairings[i].black
      /\ row.round = pairings[i].round
      /\ row.white \in Entrants /\ row.black \in Entrants /\ row.white # row.black
  BY <1>1, <1>2 DEF Pairings, ResolvePairingResult, GameResults
<1> HIDE DEF row
<1>4. /\ rows \in Seq(Pairings) /\ DOMAIN rows = DOMAIN pairings
      /\ rows[i] = row /\ \A j \in DOMAIN pairings : j # i => rows[j] = pairings[j]
  BY <1>2, <1>3
<1> HIDE DEF rows
<1>5. \A j \in DOMAIN pairings : /\ rows[j].white = pairings[j].white
                                 /\ rows[j].black = pairings[j].black
                                 /\ rows[j].round = pairings[j].round
  BY <1>3, <1>4
<1>6. \A j \in DOMAIN pairings : \A u : IsIn(u, rows[j]) <=> IsIn(u, pairings[j])
  BY <1>5 DEF IsIn
<1>7. pairings # <<>> /\ last # 0
  BY <1>2 DEF Rows
<1>8. /\ applied \in PlayerRows
      /\ \A u \in Entrants : /\ applied[u].status = players[u].status
                             /\ applied[u].score = players[u].score + PointsIn(u, row)
  BY <1>2, <1>3, ResultIsApplied
<1> HIDE DEF applied
<1>9. CASE IsEntered(row.white) /\ IsEntered(row.black)
  <2>1. AdvanceIfRoundComplete(applied, rows)
    BY <1>1, <1>3, <1>9
  <2>2. Sane(rows, applied)
    <3>1. \A j \in DOMAIN rows : rows[j].white # rows[j].black
      BY <1>2, <1>4, <1>5 DEF Rows, Sane
    <3>2. ASSUME NEW u \in Entrants, applied[u].status = "none"
          PROVE  applied[u].score = 0
      <4>1. players[u].status = "none" /\ players[u].score = 0
        BY <3>2, <1>2, <1>8 DEF Rows, Sane
      <4>2. ~IsIn(u, row)
        BY <4>1, <1>9 DEF IsIn, IsEntered
      <4>3. PointsIn(u, row) = 0
        BY <4>2 DEF PointsIn, IsIn
      <4> QED
        BY <4>1, <4>3, <1>8
    <3> QED
      BY <3>1, <3>2 DEF Sane
  <2>3. ~reopened => /\ tournament.status \in Startable => last = 0
                     /\ History(rows, applied, last)
    <3> SUFFICES ASSUME ~reopened
                 PROVE  /\ tournament.status \in Startable => last = 0
                        /\ History(rows, applied, last)
      OBVIOUS
    <3>1. History(pairings, players, last) /\ (tournament.status \in Startable => last = 0)
      BY DEF TournamentInv, Rounds
    <3>2. \A u \in Entrants : applied[u].score = Earned(u, rows)
      <4> TAKE u \in Entrants
      <4>1. Earned(u, rows) = Earned(u, pairings) + PointsIn(u, row)
        BY <1>1, <1>2, <1>3, EarnedAfterResult DEF rows
      <4> QED
        BY <4>1, <3>1, <1>8 DEF History
    <3>3. /\ \A j \in DOMAIN rows : rows[j].round <= last
          /\ \A j \in DOMAIN rows : \A u \in Entrants :
                IsIn(u, rows[j]) => applied[u].status # "none"
      BY <1>4, <1>5, <1>6, <1>8, <3>1 DEF History
    <3>4. \A j, k \in DOMAIN rows : \A u \in Entrants :
             j # k /\ IsIn(u, rows[j]) /\ IsIn(u, rows[k]) => rows[j].round # rows[k].round
      BY <1>4, <1>5, <1>6, <3>1 DEF History
    <3> QED
      BY <3>1, <3>2, <3>3, <3>4 DEF History
  <2> QED
    BY <2>1, <2>2, <2>3, <1>1, <1>2, <1>4, <1>7, <1>8, InvAfterAdvance DEF Rows
<1>10. CASE ~(IsEntered(row.white) /\ IsEntered(row.black))
  <2>1. pairings' = rows /\ UNCHANGED <<tournament, players, changes, reopened>>
    BY <1>1, <1>3, <1>10
  <2>2. TypeOK'
    BY <2>1, <1>2, <1>4 DEF TypeOK
  <2>3. Rows'
    BY <2>1, <1>2, <1>4, <1>5, <1>7 DEF Rows, Sane
  <2>4. reopened
    <3> SUFFICES ASSUME ~reopened PROVE FALSE
      BY <1>2 DEF TypeOK
    <3>1. \A u \in Entrants : IsIn(u, pairings[i]) => players[u].status # "none"
      BY DEF TournamentInv, Rounds, History
    <3> QED
      BY <3>1, <1>3, <1>10 DEF IsIn, IsEntered
  <2> QED
    BY <2>1, <2>2, <2>3, <2>4 DEF TournamentInv
<1> QED
  BY <1>9, <1>10

\* Every step of the tournament keeps the invariant.
LEMMA TournamentStep ==
    TournamentInv /\ [Next]_vars => TournamentInv'
<1> SUFFICES ASSUME TournamentInv, [Next]_vars PROVE TournamentInv'
  OBVIOUS
<1>1. ASSUME NEW u \in Entrants,
             Join(u) \/ AddOtbPlayer(u) \/ Leave(u) \/ Withdraw(u) \/ ConfirmRegistration(u)
      PROVE  TournamentInv'
  BY <1>1, InvJoin, InvLeave, InvWithdraw
<1>2. ASSUME NEW rounds \in 1..MaxRounds, UpdateTournament(rounds)
      PROVE  TournamentInv'
  BY <1>2, InvUpdate
<1>3. ASSUME NEW status \in Statuses \ {"active"}, SetStatus(status)
      PROVE  TournamentInv'
  BY <1>3, InvSetStatus
<1>4. CASE StartTournament
  BY <1>4, InvStart
<1>5. CASE AdvanceTournament
  BY <1>5, InvAdvance
<1>6. CASE GameEnds
  BY <1>6, InvSync DEF GameEnds
<1>7. CASE UNCHANGED vars
  BY <1>7 DEF vars, TournamentInv, TypeOK, Rows, Sane, Rounds, History, Undecided,
              IsComplete, Earned, Brought
<1> QED
  BY <1>1, <1>2, <1>3, <1>4, <1>5, <1>6, <1>7 DEF Next

\* What every reachable state of a tournament satisfies.
LEMMA TournamentInvariant ==
    Spec => []TournamentInv
<1>1. Init => TournamentInv
  BY TournamentInit
<1>2. TournamentInv /\ [Next]_vars => TournamentInv'
  BY TournamentStep
<1> QED
  BY <1>1, <1>2, PTL DEF Spec

\* The types of the state.
THEOREM TournamentTyped == Spec => []TypeOK
BY TournamentInvariant, PTL DEF TournamentInv

\* The standings show what was played (sync_game_result, _create_round_pairings,
\* leave_tournament, apply_payment): a score is the sum of the results.
THEOREM StandingsShowResults == Spec => []ScoresMatchResults
<1>1. TournamentInv => ScoresMatchResults
  BY DEF TournamentInv, Rounds, History, ScoresMatchResults
<1> QED
  BY <1>1, TournamentInvariant, PTL

\* Nobody is paired twice in a round.
THEOREM OneGamePerRound == Spec => []OncePerRound
<1>1. TournamentInv => OncePerRound
  BY DEF TournamentInv, Rounds, History, OncePerRound
<1> QED
  BY <1>1, TournamentInvariant, PTL

\* Whoever enters the last result of a round takes the tournament on.
THEOREM NoRoundIsStuck == Spec => []DecidedRoundIsLeft
<1>1. TournamentInv => DecidedRoundIsLeft
  BY DEF TournamentInv, Rounds, Undecided, DecidedRoundIsLeft, HasGame
<1> QED
  BY <1>1, TournamentInvariant, PTL

\* Rows are only added by a new round, of those active, after the rows there were
\* (with the result that has just been entered).
LEMMA RowsAreAddedByRound ==
    ASSUME TournamentInv, Next, Made # {}
    PROVE  \E prior, entered, round :
              /\ NewRound(prior, pairings', round, entered, players')
              /\ Len(prior) = Len(pairings)
              /\ ByeRecipients(prior) = ByeRecipients(pairings)
<1>1. /\ players \in PlayerRows /\ pairings \in Seq(Pairings) /\ TypeOK
      /\ tournament.current_round \in Nat
  BY DEF TournamentInv, TypeOK, PlayerRows
<1>2. pairings' # pairings
  <2>1. \A i \in DOMAIN pairings : ~(i > Len(pairings))
    BY <1>1
  <2> QED
    BY <2>1 DEF Made
<1>3. CASE StartTournament
  <2>1. CreateRoundPairings(1, players, pairings)
    BY <1>3 DEF StartTournament
  <2>2. NewRound(pairings, pairings', 1, players, players')
    BY <2>1, <1>1, RoundIsCreated
  <2> QED
    BY <2>2
<1>4. ASSUME NEW entered \in PlayerRows, NEW prior \in Seq(Pairings), Len(prior) = Len(pairings),
             ByeRecipients(prior) = ByeRecipients(pairings),
             AdvanceIfRoundComplete(entered, prior)
      PROVE  NewRound(prior, pairings', tournament.current_round + 1, entered, players')
  <2>1. pairings' # prior
    <3>1. \A i \in DOMAIN prior : ~(i > Len(pairings))
      BY <1>4
    <3> QED
      BY <3>1 DEF Made
  <2>2. CreateRoundPairings(tournament.current_round + 1, entered, prior)
    BY <1>4, <2>1 DEF AdvanceIfRoundComplete
  <2> QED
    BY <2>2, <1>1, RoundIsCreated
<1>5. CASE AdvanceTournament
  <2>1. AdvanceIfRoundComplete(players, pairings)
    BY <1>5 DEF AdvanceTournament
  <2> QED
    BY <2>1, <1>1, <1>4
<1>6. ASSUME NEW i \in DOMAIN pairings, NEW gameResult \in GameResults, SyncGameResult(i, gameResult)
      PROVE  \E prior, entered, round :
                /\ NewRound(prior, pairings', round, entered, players')
                /\ Len(prior) = Len(pairings)
                /\ ByeRecipients(prior) = ByeRecipients(pairings)
  <2> DEFINE row == [pairings[i] EXCEPT !.result = ResolvePairingResult(gameResult)]
             rows == [pairings EXCEPT ![i] = row]
             applied == ApplyPairingResult(row)
  <2>1. /\ pairings[i].black # Nobody
        /\ IF row.result = "none"
           THEN UNCHANGED <<tournament, players, pairings>>
           ELSE IF IsEntered(row.white) /\ IsEntered(row.black)
           THEN AdvanceIfRoundComplete(applied, rows)
           ELSE pairings' = rows /\ UNCHANGED <<tournament, players>>
    BY <1>6 DEF SyncGameResult
  <2>2. pairings[i] \in Pairings
    BY <1>1
  <2>3. /\ row \in Pairings /\ row.result \in {"1-0", "0-1", "1/2-1/2"}
        /\ row.white = pairings[i].white /\ row.black = pairings[i].black
        /\ row.white \in Entrants /\ row.black \in Entrants
    BY <2>1, <2>2 DEF Pairings, ResolvePairingResult, GameResults
  <2> HIDE DEF row
  <2>4. /\ rows \in Seq(Pairings) /\ Len(rows) = Len(pairings) /\ DOMAIN rows = DOMAIN pairings
        /\ \A j \in DOMAIN pairings : /\ rows[j].white = pairings[j].white
                                      /\ rows[j].black = pairings[j].black
    BY <1>1, <2>3
  <2> HIDE DEF rows
  <2>5. ByeRecipients(rows) = ByeRecipients(pairings)
    BY <2>4 DEF ByeRecipients
  <2>6. pairings' # rows
    <3>1. \A j \in DOMAIN rows : ~(j > Len(pairings))
      BY <1>1, <2>4
    <3> QED
      BY <3>1 DEF Made
  <2>7. applied \in PlayerRows
    <3>1. pairings[i].white # pairings[i].black
      BY <1>6, <1>1 DEF TournamentInv, Rows, Sane
    <3> QED
      BY <1>1, <2>3, <3>1, ResultIsApplied
  <2>8. AdvanceIfRoundComplete(applied, rows)
    BY <2>1, <2>3, <2>6, <1>2
  <2> QED
    BY <2>4, <2>5, <2>7, <2>8, <1>4
<1>7. ASSUME NEW u \in Entrants,
             Join(u) \/ AddOtbPlayer(u) \/ Leave(u) \/ Withdraw(u) \/ ConfirmRegistration(u)
      PROVE  UNCHANGED pairings
  BY <1>7 DEF Join, AddOtbPlayer, Leave, Withdraw, ConfirmRegistration
<1>8. ASSUME NEW x, UpdateTournament(x) \/ SetStatus(x)
      PROVE  UNCHANGED pairings
  BY <1>8 DEF UpdateTournament, SetStatus
<1> QED
  BY <1>2, <1>3, <1>5, <1>6, <1>7, <1>8 DEF Next, GameEnds

\* A new round pairs every active player exactly once, and nobody else.
THEOREM RoundsPairTheActive == Spec => NewRoundPairsTheActive
<1>1. ASSUME TournamentInv, Next, Made # {}, NEW u \in Entrants
      PROVE  Cardinality({i \in Made : IsIn(u, pairings'[i])})
                = IF players'[u].status = "active" THEN 1 ELSE 0
  <2>1. PICK prior, entered, round :
              /\ NewRound(prior, pairings', round, entered, players')
              /\ Len(prior) = Len(pairings)
    BY <1>1, RowsAreAddedByRound
  <2>2. Made = (Len(prior) + 1)..Len(pairings')
    <3>1. Len(pairings) \in Nat
      BY <1>1 DEF TournamentInv, TypeOK
    <3>2. pairings' \in Seq(Pairings)
      BY <2>1 DEF NewRound
    <3>3. DOMAIN pairings' = 1..Len(pairings') /\ Len(pairings') \in Nat
      BY <3>2
    <3> QED
      BY <2>1, <3>1, <3>3 DEF Made
  <2> DEFINE own == {i \in Made : IsIn(u, pairings'[i])}
  <2>3. \A i, j \in own : i = j
    BY <2>1, <2>2 DEF NewRound
  <2>4. CASE players'[u].status = "active"
    <3>1. PICK i \in own : TRUE
      BY <2>1, <2>2, <2>4 DEF NewRound
    <3>2. own = {i}
      BY <2>3, <3>1
    <3>3. Cardinality(own) = 1
      <4> HIDE DEF own
      <4> QED
        BY <3>2, FS_Singleton
    <3> QED
      BY <3>3, <2>4
  <2>5. CASE players'[u].status # "active"
    <3>1. own = {}
      BY <2>1, <2>2, <2>5 DEF NewRound
    <3> QED
      BY <3>1, <2>5, FS_EmptySet
  <2> QED
    BY <2>4, <2>5
<1>2. TournamentInv /\ [Next]_vars =>
        [pairings' # pairings /\ Made # {} =>
            \A u \in Entrants :
                Cardinality({i \in Made : IsIn(u, pairings'[i])})
                    = IF players'[u].status = "active" THEN 1 ELSE 0]_vars
  BY <1>1
<1> QED
  BY <1>2, TournamentInvariant, PTL DEF Spec, NewRoundPairsTheActive

\* Nobody sits out again as long as somebody present has not yet.
THEOREM ByesAreShared == Spec => ByesGoAround
<1>1. ASSUME TournamentInv, Next, NEW i \in Made,
             pairings'[i].black = Nobody, pairings'[i].white \in ByeRecipients(pairings),
             NEW u \in Entrants, players'[u].status = "active"
      PROVE  u \in ByeRecipients(pairings)
  <2>1. PICK prior, entered, round :
              /\ NewRound(prior, pairings', round, entered, players')
              /\ Len(prior) = Len(pairings)
              /\ ByeRecipients(prior) = ByeRecipients(pairings)
    BY <1>1, RowsAreAddedByRound
  <2>2. i \in (Len(prior) + 1)..Len(pairings')
    <3>1. Len(pairings) \in Nat
      BY <1>1 DEF TournamentInv, TypeOK
    <3>2. pairings' \in Seq(Pairings)
      BY <2>1 DEF NewRound
    <3>3. DOMAIN pairings' = 1..Len(pairings') /\ Len(pairings') \in Nat
      BY <3>2
    <3> QED
      BY <2>1, <3>1, <3>3 DEF Made
  <2> QED
    BY <1>1, <2>1, <2>2 DEF NewRound, IsBye
<1>2. TournamentInv /\ [Next]_vars =>
        [pairings' # pairings =>
            \A i \in Made : pairings'[i].black = Nobody /\ pairings'[i].white \in ByeRecipients(pairings)
                => \A u \in Entrants :
                    players'[u].status = "active" => u \in ByeRecipients(pairings)]_vars
  BY <1>1
<1> QED
  BY <1>2, TournamentInvariant, PTL DEF Spec, ByesGoAround

-----------------------------------------------------------------------------
(* Payments and the scheduled match. *)

MatchWork == {"accepted", "declined", "cancelled", "rescheduled", "start", "link"}

\* What a handler holds is of its kind, and it has checked what it is to spend.
Held(j) ==
    /\ j.at \in {"flush", "settle"} => j.of \in Payments /\ j.row \in PaymentRows
    /\ j.at = "settle" => j.coins \in Nat
    /\ j.at \in {"inventory", "pay"} => j.item \in Items /\ j.coins \in Nat
    /\ j.at = "pay" => Price[j.item] <= j.coins /\ j.quantity \in Nat
    /\ j.at \in MatchWork => j.row \in MatchRows
    /\ j.at = "link" => j.game \in Nat

JobsHeld ==
    /\ job = [h \in Handlers |-> job[h]]
    /\ \A h \in Handlers : Held(job[h])

TypeInv == ScheduleTypeOK /\ JobsHeld

\* A handler that takes up what it may hold disturbs no other one.
LEMMA HoldKeeps ==
    ASSUME JobsHeld, NEW h \in Handlers, NEW held, Held(held), Hold(h, held)
    PROVE  /\ JobsHeld'
           /\ job'[h] = held
           /\ \A g \in Handlers \ {h} : job'[g] = job[g]
  <1>1. job'[h] = held /\ \A g \in Handlers \ {h} : job'[g] = job[g]
    BY DEF JobsHeld, Hold
  <1>2. job' = [g \in Handlers |-> job'[g]]
    BY DEF JobsHeld, Hold
  <1>3. \A g \in Handlers : Held(job'[g])
    BY <1>1 DEF JobsHeld
  <1> QED BY <1>1, <1>2, <1>3 DEF JobsHeld

LEMMA IdleHeld == Held(NoJob)
  BY DEF Held, NoJob, MatchWork

\* A handler that replies holds nothing any more.
LEMMA ReplyKeeps ==
    ASSUME JobsHeld, NEW h \in Handlers, Reply(h)
    PROVE  /\ JobsHeld'
           /\ job'[h] = NoJob
           /\ \A g \in Handlers \ {h} : job'[g] = job[g]
  BY HoldKeeps, IdleHeld DEF Reply

LEMMA TypeInit == ScheduleInit => TypeInv
  <1> SUFFICES ASSUME ScheduleInit PROVE TypeInv
    OBVIOUS
  <1>1. ScheduleTypeOK
    BY WalletAssumption
    DEF ScheduleInit, WalletInit, ScheduleTypeOK, WalletTypeOK, NoPayment, PaymentRows,
        MatchRows, NoGame
  <1>2. JobsHeld
    BY IdleHeld DEF ScheduleInit, WalletInit, JobsHeld
  <1> QED BY <1>1, <1>2 DEF TypeInv

-----------------------------------------------------------------------------
(* Types. *)

\* What a payment's handler commits is a payment, and costs what there is.
LEMMA SettleTyped ==
    ASSUME TypeInv, NEW h \in Handlers, job[h].at = "settle",
           NEW status \in {"succeeded", "refunded"}, NEW change \in {"none", "charge", "refund"},
           change = "charge" => Amount[job[h].of] <= job[h].coins,
           Settle(h, status, change)
    PROVE  JobsHeld' /\ coins' \in Nat /\ payment' \in [Payments -> PaymentRows]
  <1> DEFINE p == job[h].of
  <1>1. p \in Payments /\ job[h].row \in PaymentRows /\ job[h].coins \in Nat /\ Amount[p] \in Nat
    BY WalletAssumption DEF TypeInv, JobsHeld, Held
  <1>2. JobsHeld'
    BY ReplyKeeps DEF TypeInv, Settle
  <1>3. coins' \in Nat
    BY <1>1 DEF TypeInv, ScheduleTypeOK, WalletTypeOK, Settle
  <1>4. payment' \in [Payments -> PaymentRows]
    <2> DEFINE stored == [payment[p] EXCEPT !.status = Put(@, job[h].row.status, status)]
    <2>1. stored \in PaymentRows
      BY <1>1 DEF TypeInv, ScheduleTypeOK, WalletTypeOK, Put, PaymentRows
    <2>2. [stored EXCEPT !.debited = TRUE, !.refunded = (change = "refund")] \in PaymentRows
      BY <2>1 DEF PaymentRows
    <2>3. \E row \in PaymentRows : payment' = [payment EXCEPT ![p] = row]
      BY <2>1, <2>2 DEF Settle
    <2> QED BY <1>1, <2>3 DEF TypeInv, ScheduleTypeOK, WalletTypeOK
  <1> QED BY <1>2, <1>3, <1>4

LEMMA WalletTyped ==
    ASSUME TypeInv, WalletNext, UNCHANGED matchVars
    PROVE  TypeInv'
  <1> USE DEF TypeInv, ScheduleTypeOK, WalletTypeOK, matchVars
  <1>1. ASSUME NEW p \in Payments, CreatePayment(p)
        PROVE  TypeInv'
    BY <1>1 DEF CreatePayment, PaymentRows, JobsHeld
  <1>2. ASSUME NEW h \in Handlers, NEW p \in Payments, NEW s \in Scenarios, Simulate(h, p, s)
        PROVE  TypeInv'
    <2>1. Held([at |-> "flush", of |-> p, scenario |-> s, row |-> payment[p]])
      BY DEF Held, MatchWork
    <2> QED BY <1>2, <2>1, HoldKeeps DEF Simulate
  <1>3. ASSUME NEW h \in Handlers, SettleFailed(h)
        PROVE  TypeInv'
    <2>1. JobsHeld'
      BY <1>3, ReplyKeeps DEF SettleFailed
    <2>2. payment' \in [Payments -> PaymentRows]
      BY ZenonT(30), <1>3 DEF SettleFailed, Put, PaymentRows
    <2> QED BY <1>3, <2>1, <2>2 DEF SettleFailed
  <1>4. ASSUME NEW h \in Handlers, ReadUser(h)
        PROVE  TypeInv'
    <2>1. Held([at |-> "settle", of |-> job[h].of, scenario |-> job[h].scenario,
                row |-> job[h].row, coins |-> coins])
      BY <1>4 DEF ReadUser, JobsHeld, Held, MatchWork
    <2> QED BY <1>4, <2>1, HoldKeeps DEF ReadUser
  <1>5. ASSUME NEW h \in Handlers, SettleSuccess(h)
        PROVE  TypeInv'
    <2>1. PICK change \in WalletCharge(job[h].row, Amount[job[h].of], job[h].coins) :
                Settle(h, "succeeded", change)
      BY <1>5 DEF SettleSuccess
    <2>2. /\ change \in {"none", "charge", "refund"}
          /\ change = "charge" => Amount[job[h].of] <= job[h].coins
      <3>1. job[h].coins \in Nat /\ Amount[job[h].of] \in Nat
        BY <1>5, WalletAssumption DEF SettleSuccess, JobsHeld, Held
      <3> QED BY <3>1, <2>1 DEF WalletCharge
    <2>3. JobsHeld' /\ coins' \in Nat /\ payment' \in [Payments -> PaymentRows]
      BY <1>5, <2>1, <2>2, SettleTyped DEF SettleSuccess
    <2> QED BY <1>5, <2>3 DEF SettleSuccess
  <1>6. ASSUME NEW h \in Handlers, SettleRefund(h)
        PROVE  TypeInv'
    <2>1. JobsHeld' /\ coins' \in Nat /\ payment' \in [Payments -> PaymentRows]
      BY <1>6, SettleTyped DEF SettleRefund
    <2> QED BY <1>6, <2>1 DEF SettleRefund
  <1>7. ASSUME NEW h \in Handlers, NEW i \in Items, Purchase(h, i)
        PROVE  TypeInv'
    <2>1. Held([at |-> "inventory", item |-> i, coins |-> coins])
      BY DEF Held, MatchWork
    <2> QED BY <1>7, <2>1, HoldKeeps DEF Purchase
  <1>8. ASSUME NEW h \in Handlers, ReadInventory(h)
        PROVE  TypeInv'
    <2>1. Held([at |-> "pay", item |-> job[h].item, coins |-> job[h].coins,
                quantity |-> owned[job[h].item]])
      BY <1>8 DEF ReadInventory, JobsHeld, Held, MatchWork
    <2> QED BY <1>8, <2>1, HoldKeeps DEF ReadInventory
  <1>9. ASSUME NEW h \in Handlers, Pay(h)
        PROVE  TypeInv'
    <2>1. JobsHeld'
      BY <1>9, ReplyKeeps DEF Pay
    <2>2. /\ job[h].item \in Items /\ job[h].coins \in Nat /\ job[h].quantity \in Nat
          /\ Price[job[h].item] \in Nat /\ Price[job[h].item] <= job[h].coins
      BY <1>9, WalletAssumption DEF Pay, JobsHeld, Held
    <2> QED BY <1>9, <2>1, <2>2 DEF Pay
  <1> QED BY <1>1, <1>2, <1>3, <1>4, <1>5, <1>6, <1>7, <1>8, <1>9 DEF WalletNext

\* What the match's handlers take up and write is of its kind.
LEMMA MatchTyped ==
    ASSUME TypeInv, MatchNext
    PROVE  TypeInv'
  <1> USE DEF TypeInv, ScheduleTypeOK, WalletTypeOK
  <1>1. ASSUME NEW h \in Handlers, NEW next \in MatchWork \ {"link"}, MatchRequest(h, next)
        PROVE  TypeInv'
    <2>1. Held([at |-> next, row |-> match])
      BY DEF Held, MatchWork
    <2> QED BY <1>1, <2>1, HoldKeeps DEF MatchRequest
  <1>2. ASSUME NEW h \in Handlers, NEW status, NEW game, Commit(h, status, game),
               job[h].at \in MatchWork, game \in Nat,
               status \in {"accepted", "declined", "cancelled", "rescheduled", "live"}
        PROVE  TypeInv'
    <2>1. JobsHeld'
      BY <1>2, ReplyKeeps DEF Commit
    <2>2. match' \in MatchRows
      BY <1>2 DEF Commit, Put, MatchRows, STARTABLE
    <2> QED BY <1>2, <2>1, <2>2 DEF Commit
  <1>3. \A h \in Handlers : job[h].at \in MatchWork => job[h].row.game \in Nat
    BY DEF JobsHeld, Held, MatchRows
  <1>4. ASSUME NEW h \in Handlers, NEW status \in {"accepted", "declined", "cancelled"},
               AskTransition(h, status)
        PROVE  TypeInv'
    BY <1>1, <1>4 DEF AskTransition, MatchWork
  <1>5. ASSUME NEW h \in Handlers, AskReschedule(h) \/ AskStart(h)
        PROVE  TypeInv'
    BY <1>1, <1>5 DEF AskReschedule, AskStart, MatchWork
  <1>6. ASSUME NEW h \in Handlers, Transition(h) \/ Reschedule(h) \/ StartAgain(h)
        PROVE  TypeInv'
    BY <1>2, <1>3, <1>6 DEF Transition, Reschedule, StartAgain, MatchWork
  <1>7. ASSUME NEW h \in Handlers, CreateGame(h)
        PROVE  TypeInv'
    <2>1. Held([at |-> "link", row |-> job[h].row, game |-> games + 1])
      BY <1>7 DEF CreateGame, JobsHeld, Held, MatchWork
    <2> QED BY <1>7, <2>1, HoldKeeps DEF CreateGame
  <1>8. ASSUME NEW h \in Handlers, LinkGame(h)
        PROVE  TypeInv'
    <2>1. job[h].game \in Nat
      BY <1>8 DEF LinkGame, JobsHeld, Held
    <2> QED BY <1>2, <1>8, <2>1 DEF LinkGame, MatchWork
  <1>9. ASSUME NEW h \in Handlers, HandlerFails(h)
        PROVE  TypeInv'
    BY <1>9, ReplyKeeps DEF HandlerFails, RollBack
  <1> QED BY <1>4, <1>5, <1>6, <1>7, <1>8, <1>9 DEF MatchNext

LEMMA TypeStep == TypeInv /\ [ScheduleNext]_scheduleVars => TypeInv'
  <1> SUFFICES ASSUME TypeInv, [ScheduleNext]_scheduleVars PROVE TypeInv'
    OBVIOUS
  <1>1. CASE TimePasses
    BY <1>1 DEF TimePasses, walletVars, TypeInv, ScheduleTypeOK, WalletTypeOK, JobsHeld
  <1>2. CASE UNCHANGED scheduleVars
    BY <1>2 DEF scheduleVars, walletVars, matchVars, TypeInv, ScheduleTypeOK, WalletTypeOK, JobsHeld
  <1> QED BY <1>1, <1>2, WalletTyped, MatchTyped DEF ScheduleNext

\* Rows keep their types and the coins never become negative, also when handlers
\* overtake one another: each has checked what it spends of what it has read.
THEOREM ScheduleTyped == ScheduleSpec => []ScheduleTypeOK
  <1>1. TypeInv => ScheduleTypeOK
    BY DEF TypeInv
  <1> QED BY <1>1, TypeInit, TypeStep, PTL DEF ScheduleSpec

-----------------------------------------------------------------------------
(* Charges. *)

\* What a handler knows to be paid for has been charged.
Backed(j, charged) ==
    /\ j.at \in {"flush", "settle"} /\ j.row.debited => j.of \in charged
    /\ j.at \in {"start", "link"} => charged \cap MatchPayments # {}

ChargeInv ==
    /\ ConfirmedWasCharged
    /\ \A h \in Handlers : Backed(job[h], Charged)

LEMMA ChargeInit == ScheduleInit => ChargeInv
  BY DEF ScheduleInit, WalletInit, ChargeInv, ConfirmedWasCharged, Backed, Charged, NoPayment, NoJob

\* As long as no charge is forgotten, only the handler that goes on must be looked at.
LEMMA BackedStay ==
    ASSUME ChargeInv, NEW h \in Handlers, \A g \in Handlers \ {h} : job'[g] = job[g],
           Charged \subseteq Charged', Backed(job'[h], Charged')
    PROVE  \A g \in Handlers : Backed(job'[g], Charged')
  BY DEF ChargeInv, Backed

\* While rows stay as they are, so does what is confirmed.
LEMMA NothingConfirmed ==
    ASSUME ChargeInv, UNCHANGED <<payment, registration, paid>>,
           match'.status = "live" => Charged \cap MatchPayments # {}
    PROVE  ConfirmedWasCharged' /\ Charged' = Charged
  BY DEF ChargeInv, ConfirmedWasCharged, Charged

\* What settling a payment does to the charges and to the payments that succeeded.
LEMMA SettleCharges ==
    ASSUME TypeInv, ChargeInv, NEW h \in Handlers, job[h].at = "settle",
           NEW status \in {"succeeded", "refunded"}, NEW change \in {"none", "charge", "refund"},
           Settle(h, status, change)
    PROVE  /\ Charged' = IF change = "none" THEN Charged ELSE Charged \cup {job[h].of}
           /\ \A q \in Payments : payment'[q].status = "succeeded" =>
                 payment[q].status = "succeeded" \/ (q = job[h].of /\ status = "succeeded")
           /\ \A g \in Handlers : Backed(job'[g], Charged')
  <1> DEFINE p == job[h].of
             stored == [payment[p] EXCEPT !.status = Put(@, job[h].row.status, status)]
             row == IF change = "none" THEN stored
                    ELSE [stored EXCEPT !.debited = TRUE, !.refunded = (change = "refund")]
  <1>1. p \in Payments /\ payment \in [Payments -> PaymentRows]
    BY DEF TypeInv, ScheduleTypeOK, WalletTypeOK, JobsHeld, Held
  <1>2. payment' = [payment EXCEPT ![p] = row]
    BY DEF Settle
  <1>3. /\ stored.debited = payment[p].debited
        /\ stored.status = payment[p].status \/ stored.status = status
    BY <1>1 DEF Put, PaymentRows
  <1>4. /\ row.status = stored.status
        /\ row.debited = (change # "none" \/ payment[p].debited)
    BY <1>1, <1>3 DEF PaymentRows
  <1> HIDE DEF row, stored
  <1>5. Charged' = IF change = "none" THEN Charged ELSE Charged \cup {p}
    BY <1>1, <1>2, <1>4 DEF Charged
  <1>6. \A q \in Payments : payment'[q].status = "succeeded" =>
            payment[q].status = "succeeded" \/ (q = p /\ status = "succeeded")
    BY <1>1, <1>2, <1>3, <1>4
  <1>7. \A g \in Handlers : Backed(job'[g], Charged')
    <2>1. job'[h] = NoJob /\ \A g \in Handlers \ {h} : job'[g] = job[g]
      BY ReplyKeeps DEF Settle, TypeInv
    <2>2. Backed(job'[h], Charged')
      BY <2>1 DEF Backed, NoJob
    <2> QED BY <1>5, <2>1, <2>2, BackedStay
  <1> QED BY <1>5, <1>6, <1>7

LEMMA WalletCharges ==
    ASSUME TypeInv, ChargeInv, WalletNext, UNCHANGED matchVars
    PROVE  ChargeInv'
  <1> USE DEF matchVars
  <1>1. payment \in [Payments -> PaymentRows]
    BY DEF TypeInv, ScheduleTypeOK, WalletTypeOK
  <1>2. ASSUME NEW p \in Payments, CreatePayment(p)
        PROVE  ChargeInv'
    BY <1>1, <1>2 DEF CreatePayment, NoPayment, PaymentRows, ChargeInv, ConfirmedWasCharged, Charged
  <1>3. ASSUME NEW h \in Handlers, NEW held, Hold(h, held), Held(held), Backed(held, Charged),
               UNCHANGED <<payment, registration, paid>>
        PROVE  ChargeInv'
    <2>1. job'[h] = held /\ \A g \in Handlers \ {h} : job'[g] = job[g]
      BY <1>3, HoldKeeps DEF TypeInv
    <2>2. ConfirmedWasCharged' /\ Charged' = Charged
      BY <1>3, NothingConfirmed DEF ChargeInv, ConfirmedWasCharged
    <2> QED BY <1>3, <2>1, <2>2, BackedStay DEF ChargeInv
  <1>4. ASSUME NEW h \in Handlers, NEW p \in Payments, NEW s \in Scenarios, Simulate(h, p, s)
        PROVE  ChargeInv'
    <2> DEFINE held == [at |-> "flush", of |-> p, scenario |-> s, row |-> payment[p]]
    <2>1. Held(held) /\ Backed(held, Charged)
      BY <1>1 DEF Held, MatchWork, Backed, Charged
    <2> QED BY <1>3, <1>4, <2>1 DEF Simulate
  <1>5. ASSUME NEW h \in Handlers, SettleFailed(h)
        PROVE  ChargeInv'
    <2> DEFINE p == job[h].of
               row == [payment[p] EXCEPT !.status = Put(@, job[h].row.status, "failed")]
    <2>1. p \in Payments /\ payment' = [payment EXCEPT ![p] = row]
      BY <1>5 DEF SettleFailed, TypeInv, JobsHeld, Held
    <2>2. /\ row.debited = payment[p].debited
          /\ row.status = "succeeded" => payment[p].status = "succeeded"
      BY <1>1, <2>1 DEF Put, PaymentRows
    <2> HIDE DEF row
    <2>3. Charged' = Charged /\ ConfirmedWasCharged'
      BY ZenonT(30), <1>1, <1>5, <2>1, <2>2 DEF SettleFailed, ChargeInv, ConfirmedWasCharged, Charged
    <2>4. job'[h] = NoJob /\ \A g \in Handlers \ {h} : job'[g] = job[g]
      BY <1>5, ReplyKeeps DEF SettleFailed, TypeInv
    <2>5. Backed(job'[h], Charged')
      BY <2>4 DEF Backed, NoJob
    <2> QED BY <2>3, <2>4, <2>5, BackedStay DEF ChargeInv
  <1>6. ASSUME NEW h \in Handlers, ReadUser(h)
        PROVE  ChargeInv'
    <2> DEFINE held == [at |-> "settle", of |-> job[h].of, scenario |-> job[h].scenario,
                        row |-> job[h].row, coins |-> coins]
    <2>1. Held(held) /\ Backed(held, Charged)
      BY <1>6 DEF ReadUser, TypeInv, ScheduleTypeOK, WalletTypeOK, JobsHeld, Held, MatchWork,
                  ChargeInv, Backed
    <2> QED BY <1>3, <1>6, <2>1 DEF ReadUser
  <1>7. ASSUME NEW h \in Handlers, SettleSuccess(h)
        PROVE  ChargeInv'
    <2> DEFINE p == job[h].of
    <2>1. PICK change \in WalletCharge(job[h].row, Amount[p], job[h].coins) :
                Settle(h, "succeeded", change)
      BY <1>7 DEF SettleSuccess
    <2>2. /\ change \in {"none", "charge"}
          /\ change = "none" => p \in Charged
          /\ p \in Payments
      BY <1>7, <2>1 DEF WalletCharge, SettleSuccess, ChargeInv, Backed, TypeInv, JobsHeld, Held
    <2>3. /\ Charged' = IF change = "none" THEN Charged ELSE Charged \cup {p}
          /\ \A q \in Payments : payment'[q].status = "succeeded" =>
                payment[q].status = "succeeded" \/ q = p
          /\ \A g \in Handlers : Backed(job'[g], Charged')
      BY <1>7, <2>1, <2>2, SettleCharges DEF SettleSuccess
    <2>4. Charged \subseteq Charged' /\ p \in Charged'
      BY <2>2, <2>3
    <2>5. ConfirmedWasCharged'
      BY <1>7, <2>2, <2>3, <2>4 DEF SettleSuccess, ChargeInv, ConfirmedWasCharged, Payments
    <2> QED BY <2>3, <2>5 DEF ChargeInv
  <1>8. ASSUME NEW h \in Handlers, SettleRefund(h)
        PROVE  ChargeInv'
    <2>1. PICK change \in {"none", "refund"} : Settle(h, "refunded", change)
      BY <1>8 DEF SettleRefund
    <2>2. /\ Charged \subseteq Charged'
          /\ \A q \in Payments : payment'[q].status = "succeeded" => payment[q].status = "succeeded"
          /\ \A g \in Handlers : Backed(job'[g], Charged')
      BY <1>8, <2>1, SettleCharges DEF SettleRefund
    <2>3. ConfirmedWasCharged'
      BY <1>8, <2>2 DEF SettleRefund, ChargeInv, ConfirmedWasCharged
    <2> QED BY <2>2, <2>3 DEF ChargeInv
  <1>9. ASSUME NEW h \in Handlers, NEW i \in Items, Purchase(h, i)
        PROVE  ChargeInv'
    <2> DEFINE held == [at |-> "inventory", item |-> i, coins |-> coins]
    <2>1. Held(held) /\ Backed(held, Charged)
      BY DEF Held, MatchWork, Backed, TypeInv, ScheduleTypeOK, WalletTypeOK
    <2> QED BY <1>3, <1>9, <2>1 DEF Purchase
  <1>10. ASSUME NEW h \in Handlers, ReadInventory(h)
        PROVE  ChargeInv'
    <2> DEFINE held == [at |-> "pay", item |-> job[h].item, coins |-> job[h].coins,
                        quantity |-> owned[job[h].item]]
    <2>1. Held(held) /\ Backed(held, Charged)
      BY <1>10 DEF ReadInventory, Held, MatchWork, Backed, JobsHeld, TypeInv, ScheduleTypeOK, WalletTypeOK
    <2> QED BY <1>3, <1>10, <2>1 DEF ReadInventory
  <1>11. ASSUME NEW h \in Handlers, Pay(h)
        PROVE  ChargeInv'
    <2>1. Backed(NoJob, Charged)
      BY DEF Backed, NoJob
    <2> QED BY <1>3, <1>11, <2>1, IdleHeld DEF Pay, Reply
  <1> QED BY <1>2, <1>4, <1>5, <1>6, <1>7, <1>8, <1>9, <1>10, <1>11 DEF WalletNext

LEMMA MatchCharges ==
    ASSUME TypeInv, ChargeInv, MatchNext
    PROVE  ChargeInv'
  <1>1. ASSUME NEW h \in Handlers, NEW held, Hold(h, held), Held(held), Backed(held, Charged),
               UNCHANGED <<payment, registration, paid>>,
               match'.status = "live" => Charged \cap MatchPayments # {}
        PROVE  ChargeInv'
    <2>1. job'[h] = held /\ \A g \in Handlers \ {h} : job'[g] = job[g]
      BY <1>1, HoldKeeps DEF TypeInv
    <2>2. ConfirmedWasCharged' /\ Charged' = Charged
      BY <1>1, NothingConfirmed
    <2> QED BY <1>1, <2>1, <2>2, BackedStay DEF ChargeInv
  <1>2. match.status = "live" => Charged \cap MatchPayments # {}
    BY DEF ChargeInv, ConfirmedWasCharged
  <1>3. Held(NoJob) /\ Backed(NoJob, Charged)
    BY IdleHeld DEF Backed, NoJob
  <1>4. ASSUME NEW h \in Handlers, NEW next \in MatchWork \ {"link"}, MatchRequest(h, next),
               next = "start" => Charged \cap MatchPayments # {}
        PROVE  ChargeInv'
    <2> DEFINE held == [at |-> next, row |-> match]
    <2>1. Held(held) /\ Backed(held, Charged)
      BY <1>4 DEF Held, MatchWork, Backed, TypeInv, ScheduleTypeOK
    <2> QED BY <1>1, <1>2, <1>4, <2>1 DEF MatchRequest
  <1>5. ASSUME NEW h \in Handlers, NEW status, NEW game, Commit(h, status, game),
               status = "live" => Charged \cap MatchPayments # {}
        PROVE  ChargeInv'
    <2>1. match'.status = "live" => Charged \cap MatchPayments # {}
      BY <1>2, <1>5 DEF Commit, Put
    <2> QED BY <1>1, <1>3, <1>5, <2>1 DEF Commit, Reply
  <1>6. ASSUME NEW h \in Handlers, NEW status \in {"accepted", "declined", "cancelled"},
               AskTransition(h, status)
        PROVE  ChargeInv'
    BY <1>4, <1>6 DEF AskTransition, MatchWork
  <1>7. ASSUME NEW h \in Handlers, AskReschedule(h)
        PROVE  ChargeInv'
    BY <1>4, <1>7 DEF AskReschedule, MatchWork
  <1>8. ASSUME NEW h \in Handlers, AskStart(h)
        PROVE  ChargeInv'
    <2>1. Charged \cap MatchPayments # {}
      BY <1>8 DEF AskStart, ChargeInv, ConfirmedWasCharged
    <2> QED BY <1>4, <1>8, <2>1 DEF AskStart, MatchWork
  <1>9. ASSUME NEW h \in Handlers, Transition(h) \/ Reschedule(h)
        PROVE  ChargeInv'
    BY <1>5, <1>9 DEF Transition, Reschedule
  <1>10. ASSUME NEW h \in Handlers, StartAgain(h) \/ LinkGame(h)
         PROVE  ChargeInv'
    <2>1. Charged \cap MatchPayments # {}
      BY <1>10 DEF StartAgain, LinkGame, ChargeInv, Backed
    <2> QED BY <1>5, <1>10, <2>1 DEF StartAgain, LinkGame
  <1>11. ASSUME NEW h \in Handlers, CreateGame(h)
         PROVE  ChargeInv'
    <2> DEFINE held == [at |-> "link", row |-> job[h].row, game |-> games + 1]
    <2>1. Held(held) /\ Backed(held, Charged)
      BY <1>11 DEF CreateGame, Held, MatchWork, Backed, ChargeInv, JobsHeld, TypeInv, ScheduleTypeOK
    <2> QED BY <1>1, <1>2, <1>11, <2>1 DEF CreateGame
  <1>12. ASSUME NEW h \in Handlers, HandlerFails(h)
         PROVE  ChargeInv'
    BY <1>1, <1>2, <1>3, <1>12 DEF HandlerFails, RollBack, Reply
  <1> QED BY <1>6, <1>7, <1>8, <1>9, <1>10, <1>11, <1>12 DEF MatchNext

LEMMA ChargeStep == TypeInv /\ ChargeInv /\ [ScheduleNext]_scheduleVars => ChargeInv'
  <1> SUFFICES ASSUME TypeInv, ChargeInv, [ScheduleNext]_scheduleVars PROVE ChargeInv'
    OBVIOUS
  <1>1. CASE TimePasses
    BY <1>1 DEF TimePasses, walletVars, ChargeInv, ConfirmedWasCharged, Charged
  <1>2. CASE UNCHANGED scheduleVars
    BY <1>2 DEF scheduleVars, walletVars, matchVars, ChargeInv, ConfirmedWasCharged, Charged
  <1> QED BY <1>1, <1>2, WalletCharges, MatchCharges DEF ScheduleNext

\* Whatever simulations, starts and failures overlap: a payment that succeeded,
\* an active registration, a match that counts as paid and a live match each
\* have a charge behind them.
THEOREM ConfirmedIsCharged == ScheduleSpec => []ConfirmedWasCharged
  <1>1. ChargeInv => ConfirmedWasCharged
    BY DEF ChargeInv
  <1> QED BY <1>1, TypeInit, TypeStep, ChargeInit, ChargeStep, PTL DEF ScheduleSpec

-----------------------------------------------------------------------------
(* Games. *)

Linking == {h \in Handlers : job[h].at = "link"}

\* One start at a time: it has read the game the match has, and while it is to
\* be linked the game made is the only one, and the match has none.
GameInv ==
    /\ OneGamePerMatch
    /\ ~startsOverlap =>
        /\ \A g, h \in Starting : g = h
        /\ \A h \in Starting : job[h].row.game = match.game
        /\ \A h \in Linking : job[h].game = 1 /\ games = 1 /\ match.game = NoGame
        /\ Linking = {} => match.game = games

LEMMA GameInit == ScheduleInit => GameInv
  BY DEF ScheduleInit, WalletInit, GameInv, OneGamePerMatch, Starting, Linking, NoJob, NoGame

\* What is neither a start nor the writing of a match leaves the games alone.
LEMMA GameStays ==
    ASSUME GameInv, UNCHANGED <<match, games, startsOverlap>>, Starting' \subseteq Starting,
           Linking' = Linking, \A h \in Starting' : job'[h] = job[h]
    PROVE  GameInv'
  <1>1. Linking' \subseteq Starting'
    BY DEF Linking, Starting
  <1> QED BY <1>1 DEF GameInv, OneGamePerMatch

\* A handler whose work is, before and after, not a start.
LEMMA GameAside ==
    ASSUME TypeInv, GameInv, NEW h \in Handlers, NEW held, Hold(h, held), Held(held),
           held.at # "start", held.at # "link", job[h].at # "link",
           UNCHANGED <<match, games, startsOverlap>>
    PROVE  GameInv'
  <1>1. job'[h] = held /\ \A g \in Handlers \ {h} : job'[g] = job[g]
    BY HoldKeeps DEF TypeInv
  <1>2. /\ Starting' = Starting \ {h} /\ Linking' = Linking
        /\ \A g \in Starting' : job'[g] = job[g]
    BY <1>1 DEF Starting, Linking
  <1> QED BY <1>2, GameStays

LEMMA WalletGames ==
    ASSUME TypeInv, GameInv, WalletNext, UNCHANGED matchVars
    PROVE  GameInv'
  <1> USE DEF matchVars
  <1>1. ASSUME NEW p \in Payments, CreatePayment(p)
        PROVE  GameInv'
    BY <1>1, GameStays DEF CreatePayment, Starting, Linking
  <1>2. TypeInv'
    BY WalletTyped
  <1>3. ASSUME NEW h \in Handlers, NEW held, Hold(h, held), held.at \notin {"start", "link"},
               job[h].at # "link"
        PROVE  GameInv'
    <2>1. job'[h] = held
      BY <1>3 DEF Hold, TypeInv, JobsHeld
    <2>2. Held(held)
      BY <1>2, <2>1 DEF TypeInv, JobsHeld
    <2> QED BY <1>3, <2>2, GameAside
  <1>4. ASSUME NEW h \in Handlers, Reply(h), job[h].at # "link"
        PROVE  GameInv'
    BY <1>3, <1>4 DEF Reply, NoJob
  <1>5. ASSUME NEW h \in Handlers, NEW p \in Payments, NEW s \in Scenarios, Simulate(h, p, s)
        PROVE  GameInv'
    BY <1>3, <1>5 DEF Simulate, Arrives, NoJob
  <1>6. ASSUME NEW h \in Handlers, ReadUser(h)
        PROVE  GameInv'
    BY <1>3, <1>6 DEF ReadUser
  <1>7. ASSUME NEW h \in Handlers, SettleFailed(h) \/ SettleSuccess(h) \/ SettleRefund(h) \/ Pay(h)
        PROVE  GameInv'
    BY ZenonT(30), <1>4, <1>7 DEF SettleFailed, SettleSuccess, SettleRefund, Settle, Pay
  <1>8. ASSUME NEW h \in Handlers, NEW i \in Items, Purchase(h, i)
        PROVE  GameInv'
    BY <1>3, <1>8 DEF Purchase, Arrives, NoJob
  <1>9. ASSUME NEW h \in Handlers, ReadInventory(h)
        PROVE  GameInv'
    BY <1>3, <1>9 DEF ReadInventory
  <1> QED BY <1>1, <1>5, <1>6, <1>7, <1>8, <1>9 DEF WalletNext

LEMMA MatchGames ==
    ASSUME TypeInv, GameInv, MatchNext
    PROVE  GameInv'
  <1>1. TypeInv'
    BY MatchTyped
  <1>2. ASSUME NEW h \in Handlers, NEW next \in MatchWork \ {"start", "link"}, MatchRequest(h, next)
        PROVE  GameInv'
    <2> DEFINE held == [at |-> next, row |-> match]
    <2>1. Held(held)
      BY DEF Held, MatchWork, TypeInv, ScheduleTypeOK
    <2>2. UNCHANGED startsOverlap
      BY <1>2 DEF MatchRequest, TypeInv, ScheduleTypeOK
    <2>3. job[h].at # "link" /\ held.at # "start" /\ held.at # "link"
      BY <1>2 DEF MatchRequest, NoJob
    <2>4. Hold(h, held) /\ UNCHANGED <<match, games>>
      BY <1>2 DEF MatchRequest
    <2> HIDE DEF held
    <2> QED BY <2>1, <2>2, <2>3, <2>4, GameAside
  <1>3. ASSUME NEW h \in Handlers, MatchRequest(h, "start")
        PROVE  GameInv'
    <2> DEFINE held == [at |-> "start", row |-> match]
    <2>1. Held(held)
      BY DEF Held, MatchWork, TypeInv, ScheduleTypeOK
    <2>2. job'[h] = held /\ \A g \in Handlers \ {h} : job'[g] = job[g]
      BY <1>3, <2>1, HoldKeeps DEF MatchRequest, TypeInv
    <2>3. Linking' = Linking /\ Starting' = Starting \cup {h}
      BY <1>3, <2>2 DEF Linking, Starting, MatchRequest, NoJob
    <2>4. CASE startsOverlap'
      BY <2>4 DEF GameInv, OneGamePerMatch
    <2>5. CASE ~startsOverlap'
      <3>1. ~startsOverlap /\ Starting = {} /\ UNCHANGED <<match, games>>
        BY <1>3, <2>5 DEF MatchRequest, TypeInv, ScheduleTypeOK
      <3>2. Linking = {} /\ match.game = games /\ games <= 1
            /\ (match.status = "live" => match.game # NoGame)
        BY <3>1 DEF GameInv, OneGamePerMatch, Linking, Starting
      <3>3. Starting' = {h} /\ Linking' = {} /\ job'[h].row.game = match.game
        BY <2>2, <2>3, <3>1, <3>2
      <3> QED BY <3>1, <3>2, <3>3 DEF GameInv, OneGamePerMatch
    <2> QED BY <2>4, <2>5
  <1>4. ASSUME NEW h \in Handlers, NEW status, Commit(h, status, job[h].row.game),
               job[h].at # "link", status = "live" => match.game # NoGame \/ startsOverlap
        PROVE  GameInv'
    <2>1. job'[h] = NoJob /\ \A g \in Handlers \ {h} : job'[g] = job[g]
      BY <1>4, ReplyKeeps DEF Commit, TypeInv
    <2>2. match'.game = match.game /\ (match'.status = "live" => match.status = "live" \/ status = "live")
      BY <1>4 DEF Commit, Put
    <2>3. Starting' = Starting \ {h} /\ Linking' = Linking
      BY <1>4, <2>1 DEF Starting, Linking, NoJob
    <2> QED BY <1>4, <2>1, <2>2, <2>3 DEF GameInv, OneGamePerMatch, Commit, Linking, Starting
  <1>5. ASSUME NEW h \in Handlers, NEW status \in {"accepted", "declined", "cancelled"},
               AskTransition(h, status)
        PROVE  GameInv'
    BY <1>2, <1>5 DEF AskTransition, MatchWork
  <1>6. ASSUME NEW h \in Handlers, AskReschedule(h) \/ AskStart(h)
        PROVE  GameInv'
    BY <1>2, <1>3, <1>6 DEF AskReschedule, AskStart, MatchWork
  <1>7. ASSUME NEW h \in Handlers, Transition(h) \/ Reschedule(h)
        PROVE  GameInv'
    BY <1>4, <1>7 DEF Transition, Reschedule
  <1>8. ASSUME NEW h \in Handlers, StartAgain(h)
        PROVE  GameInv'
    <2>1. match.game # NoGame \/ startsOverlap
      BY <1>8 DEF StartAgain, HasItsGame, GameInv, Starting
    <2> QED BY <1>4, <1>8, <2>1 DEF StartAgain
  <1>9. ASSUME NEW h \in Handlers, CreateGame(h)
        PROVE  GameInv'
    <2> DEFINE held == [at |-> "link", row |-> job[h].row, game |-> games + 1]
    <2>1. Held(held)
      BY <1>9 DEF Held, MatchWork, CreateGame, TypeInv, ScheduleTypeOK, JobsHeld
    <2>2. job'[h] = held /\ \A g \in Handlers \ {h} : job'[g] = job[g]
      BY <1>9, <2>1, HoldKeeps DEF CreateGame, TypeInv
    <2>3. CASE startsOverlap
      BY <1>9, <2>3 DEF CreateGame, GameInv, OneGamePerMatch
    <2>4. CASE ~startsOverlap
      <3>1. Starting = {h} /\ Linking = {} /\ match.game = NoGame /\ games = NoGame
        BY <1>9, <2>4 DEF CreateGame, HasItsGame, GameInv, Starting, Linking
      <3>2. Starting' = {h} /\ Linking' = {h}
        BY <2>2, <3>1 DEF Starting, Linking
      <3>3. games' = 1 /\ job'[h].game = 1 /\ job'[h].row = job[h].row /\ UNCHANGED <<match, startsOverlap>>
        BY <1>9, <2>2, <3>1 DEF CreateGame, NoGame
      <3>4. job[h].row.game = match.game /\ (match.status = "live" => match.game # NoGame)
        BY <2>4, <3>1 DEF GameInv, OneGamePerMatch
      <3> QED BY <3>1, <3>2, <3>3, <3>4 DEF GameInv, OneGamePerMatch
    <2> QED BY <2>3, <2>4
  <1>10. ASSUME NEW h \in Handlers, LinkGame(h)
         PROVE  GameInv'
    <2>1. job'[h] = NoJob /\ \A g \in Handlers \ {h} : job'[g] = job[g]
      BY <1>10, ReplyKeeps DEF LinkGame, Commit, TypeInv
    <2>2. CASE startsOverlap
      BY <1>10, <2>2 DEF LinkGame, Commit, GameInv, OneGamePerMatch
    <2>3. CASE ~startsOverlap
      <3>1. /\ Starting = {h} /\ Linking = {h} /\ games = 1 /\ job[h].game = 1
            /\ job[h].row.game = NoGame
        BY <1>10, <2>3 DEF LinkGame, GameInv, Starting, Linking
      <3>2. match'.game = 1 /\ games' = 1
        BY <1>10, <3>1 DEF LinkGame, Commit, Put, NoGame
      <3>3. Starting' = {} /\ Linking' = {}
        BY <2>1, <3>1 DEF Starting, Linking, NoJob
      <3> QED BY <3>2, <3>3 DEF GameInv, OneGamePerMatch, NoGame
    <2> QED BY <2>2, <2>3
  <1>11. ASSUME NEW h \in Handlers, HandlerFails(h)
         PROVE  GameInv'
    <2>1. CASE job[h].at = "link"
      BY <1>11, <2>1 DEF HandlerFails, GameInv, OneGamePerMatch
    <2>2. CASE job[h].at # "link"
      <3>1. UNCHANGED <<match, games, startsOverlap>>
        BY <1>11, <2>2 DEF HandlerFails, TypeInv, ScheduleTypeOK
      <3>2. Hold(h, NoJob) /\ NoJob.at # "start" /\ NoJob.at # "link"
        BY <1>11 DEF HandlerFails, RollBack, Reply, NoJob
      <3> QED BY <2>2, <3>1, <3>2, GameAside, IdleHeld
    <2> QED BY <2>1, <2>2
  <1> QED BY <1>5, <1>6, <1>7, <1>8, <1>9, <1>10, <1>11 DEF MatchNext

LEMMA GameStep == TypeInv /\ GameInv /\ [ScheduleNext]_scheduleVars => GameInv'
  <1> SUFFICES ASSUME TypeInv, GameInv, [ScheduleNext]_scheduleVars PROVE GameInv'
    OBVIOUS
  <1>1. CASE TimePasses
    BY <1>1, GameStays DEF TimePasses, walletVars, Starting, Linking
  <1>2. CASE UNCHANGED scheduleVars
    BY <1>2, GameStays DEF scheduleVars, walletVars, matchVars, Starting, Linking
  <1> QED BY <1>1, <1>2, WalletGames, MatchGames DEF ScheduleNext

\* Starts of a match that do not overlap make one game of it between them, and a
\* live match has it, whatever reschedulings and cancellations overtake them.
THEOREM OneGameIsMade == ScheduleSpec => []OneGamePerMatch
  <1>1. GameInv => OneGamePerMatch
    BY DEF GameInv
  <1> QED BY <1>1, TypeInit, TypeStep, GameInit, GameStep, PTL DEF ScheduleSpec

-----------------------------------------------------------------------------
(* What is left of the coins. *)

\* The element that a sum takes next.
Next1(s) == CHOOSE x \in s : TRUE

\* g sums up fun over each part of S.
Sums(g, fun, S) ==
    \A s \in SUBSET S : g[s] = IF s = {} THEN 0 ELSE fun[Next1(s)] + g[s \ {Next1(s)}]

\* Something is taken from what is not empty.
LEMMA Next1Is == \A s : s # {} => Next1(s) \in s
BY DEF Next1

\* Two functions that sum up fun over S agree on the parts of S.
LEMMA SumsAgree ==
    ASSUME NEW fun, NEW S, IsFiniteSet(S), NEW T, IsFiniteSet(T), NEW g, Sums(g, fun, S),
           NEW h, Sums(h, fun, T), NEW r \in SUBSET (S \cap T)
    PROVE  g[r] = h[r]
<1> DEFINE Bad == {s \in SUBSET (S \cap T) : g[s] # h[s]}
<1>1. SUFFICES ASSUME Bad # {} PROVE FALSE
  OBVIOUS
<1>2. \A s \in Bad : IsFiniteSet(s)
  BY FS_Subset
<1>3. PICK s \in Bad : \A y \in Bad : ~(y \subseteq s /\ y # s)
  <2> HIDE DEF Bad
  <2> QED
    BY <1>1, <1>2, SmallestSet
<1>4. s # {}
  BY <1>3 DEF Sums
<1> DEFINE x == Next1(s)
           rest == s \ {x}
<1>5. x \in s /\ rest \subseteq s /\ rest # s /\ rest \in SUBSET (S \cap T)
  BY <1>3, <1>4, Next1Is
<1>6. g[rest] = h[rest]
  BY <1>3, <1>5
<1>7. g[s] = fun[x] + g[rest] /\ h[s] = fun[x] + h[rest]
  BY <1>3, <1>4 DEF Sums
<1> QED
  BY <1>3, <1>6, <1>7

\* There is one for each finite set.
LEMMA SumsExist ==
    ASSUME NEW fun, NEW S, IsFiniteSet(S)
    PROVE  \E g : g = [s \in SUBSET S |-> g[s]] /\ Sums(g, fun, S)
<1> DEFINE Summed(T, g) == g = [s \in SUBSET T |-> g[s]] /\ Sums(g, fun, T)
           Bad == {T \in SUBSET S : ~\E g : Summed(T, g)}
<1>1. SUFFICES ASSUME Bad # {} PROVE FALSE
  OBVIOUS
<1>2. \A T \in SUBSET S : IsFiniteSet(T)
  BY FS_Subset
<1>3. PICK T \in Bad : \A y \in Bad : ~(y \subseteq T /\ y # T)
  <2>1. \A s \in Bad : IsFiniteSet(s)
    BY <1>2
  <2> HIDE DEF Bad
  <2> QED
    BY <1>1, <2>1, SmallestSet
<1>4. T \in SUBSET S /\ IsFiniteSet(T) /\ ~\E g : Summed(T, g)
  BY <1>2, <1>3
<1>5. \A s \in SUBSET T : s # T => \E g : Summed(s, g)
  BY <1>3, <1>4
<1> DEFINE part(s) == CHOOSE g : Summed(s, g)
           x == Next1(T)
           g == [s \in SUBSET T |-> IF s = {} THEN 0
                                    ELSE IF s = T THEN fun[x] + part(T \ {x})[T \ {x}]
                                    ELSE part(s)[s]]
<1>6. \A s \in SUBSET T : s # T => Sums(part(s), fun, s)
  BY <1>5
<1>7. \A s \in SUBSET T : s # {} => Next1(s) \in s
  BY Next1Is
<1>8. \A s \in SUBSET T : s # T => IsFiniteSet(s)
  BY <1>4, FS_Subset
<1> HIDE DEF part, Summed, Bad
<1>9. ASSUME NEW s \in SUBSET T, s # T PROVE g[s] = part(s)[s]
  <2>1. CASE s = {}
    <3>1. part(s)[s] = 0
      BY <1>6, <1>9, <2>1 DEF Sums
    <3> QED
      BY <2>1, <3>1
  <2>2. CASE s # {}
    BY <1>9, <2>2
  <2> QED
    BY <2>1, <2>2
<1>10. ASSUME NEW s \in SUBSET T, s # {}
       PROVE  g[s] = fun[Next1(s)] + g[s \ {Next1(s)}]
  <2> DEFINE y == Next1(s)
             rest == s \ {y}
  <2>1. y \in s /\ rest \in SUBSET T /\ rest # T /\ rest # s
    BY <1>7, <1>10
  <2>2. g[rest] = part(rest)[rest]
    BY <1>9, <2>1
  <2>3. CASE s = T
    BY <1>10, <2>2, <2>3
  <2>4. CASE s # T
    <3>1. g[s] = part(s)[s]
      BY <1>9, <2>4
    <3>2. Sums(part(s), fun, s) /\ Sums(part(rest), fun, rest)
      BY <1>6, <2>1, <2>4
    <3>3. part(s)[s] = fun[y] + part(s)[rest]
      BY <1>10, <3>2 DEF Sums
    <3>4. part(s)[rest] = part(rest)[rest]
      <4>1. IsFiniteSet(s) /\ IsFiniteSet(rest) /\ rest \in SUBSET (s \cap rest)
        BY <1>8, <2>1, <2>4
      <4> DEFINE a == part(s)
                 b == part(rest)
      <4>2. Sums(a, fun, s) /\ Sums(b, fun, rest)
        BY <3>2
      <4> HIDE DEF rest, a, b
      <4>3. a[rest] = b[rest]
        BY <4>1, <4>2, SumsAgree
      <4> QED
        BY <4>3 DEF a, b
    <3> QED
      BY <2>2, <3>1, <3>3, <3>4
  <2> QED
    BY <2>3, <2>4
<1>11. g[{}] = 0
  OBVIOUS
<1>12. g = [s \in SUBSET T |-> g[s]]
  OBVIOUS
<1> HIDE DEF g
<1>13. Sums(g, fun, T)
  BY <1>10, <1>11 DEF Sums
<1> QED
  BY <1>4, <1>12, <1>13 DEF Summed

\* SumFunctionOnSet sums up.
LEMMA SumIs ==
    ASSUME NEW fun, NEW S, IsFiniteSet(S)
    PROVE  \E g : Sums(g, fun, S) /\ SumFunctionOnSet(fun, S) = g[S]
<1> DEFINE Iter(g) == g = [s \in SUBSET S |-> IF s = {} THEN 0
                                              ELSE fun[CHOOSE x \in s : TRUE]
                                                     + g[s \ {CHOOSE x \in s : TRUE}]]
<1>1. SumFunctionOnSet(fun, S) = (CHOOSE g : Iter(g))[S]
  BY DEF SumFunctionOnSet, FoldFunctionOnSet, MapThenFoldSet
<1>2. PICK h : h = [s \in SUBSET S |-> h[s]] /\ Sums(h, fun, S)
  BY SumsExist
<1>3. Iter(h)
  BY <1>2 DEF Sums, Next1
<1> DEFINE g == CHOOSE k : Iter(k)
<1>4. Iter(g)
  BY <1>3
<1>5. Sums(g, fun, S)
  BY <1>4 DEF Sums, Next1
<1> QED
  BY <1>1, <1>5

\* A sum over what is not empty: any element and the sum of the others.
LEMMA SumTakesAny ==
    ASSUME NEW fun, NEW S, IsFiniteSet(S), \A x \in S : fun[x] \in Int
    PROVE  /\ SumFunctionOnSet(fun, S) \in Int
           /\ SumFunctionOnSet(fun, {}) = 0
           /\ \A x \in S : SumFunctionOnSet(fun, S) = fun[x] + SumFunctionOnSet(fun, S \ {x})
<1>1. PICK g : Sums(g, fun, S) /\ SumFunctionOnSet(fun, S) = g[S]
  BY SumIs
<1>2. ASSUME NEW s \in SUBSET S PROVE SumFunctionOnSet(fun, s) = g[s]
  <2>1. IsFiniteSet(s)
    BY FS_Subset
  <2>2. PICK h : Sums(h, fun, s) /\ SumFunctionOnSet(fun, s) = h[s]
    BY <2>1, SumIs
  <2>3. s \in SUBSET (S \cap s)
    OBVIOUS
  <2>4. g[s] = h[s]
    BY <1>1, <2>1, <2>2, <2>3, SumsAgree
  <2> QED
    BY <2>2, <2>4
<1>3. \A s \in SUBSET S : s # {} => Next1(s) \in s
  BY Next1Is
<1>4. \A s \in SUBSET S : g[s] = IF s = {} THEN 0 ELSE fun[Next1(s)] + g[s \ {Next1(s)}]
  BY <1>1 DEF Sums
<1> DEFINE Taken(s) == g[s] \in Int /\ \A x \in s : g[s] = fun[x] + g[s \ {x}]
           Bad == {s \in SUBSET S : ~Taken(s)}
<1>5. ASSUME Bad # {} PROVE FALSE
  <2>1. \A s \in Bad : IsFiniteSet(s)
    BY FS_Subset
  <2>2. PICK s \in Bad : \A y \in Bad : ~(y \subseteq s /\ y # s)
    <3> HIDE DEF Bad
    <3> QED
      BY <1>5, <2>1, SmallestSet
  <2>3. s \in SUBSET S /\ ~Taken(s)
    BY <2>2
  <2>4. \A y \in SUBSET s : y # s => Taken(y)
    BY <2>2, <2>3
  <2> HIDE DEF Bad
  <2>5. s # {}
    <3>1. g[{}] = 0
      BY <1>4
    <3>2. Taken({})
      BY <3>1
    <3> HIDE DEF Taken
    <3> QED
      BY <2>3, <3>2
  <2> DEFINE n == Next1(s)
             rest == s \ {n}
  <2>6. n \in s /\ g[s] = fun[n] + g[rest] /\ fun[n] \in Int
    BY <1>3, <1>4, <2>3, <2>5
  <2> HIDE DEF n
  <2>7. g[rest] \in Int
    BY <2>4, <2>6
  <2>8. ASSUME NEW x \in s PROVE g[s] = fun[x] + g[s \ {x}]
    <3>1. CASE x = n
      BY <2>6, <3>1
    <3>2. CASE x # n
      <4> DEFINE both == s \ {n, x}
      <4>1. x \in rest /\ rest \ {x} = both /\ n \in s \ {x} /\ (s \ {x}) \ {n} = both
        BY <2>6, <3>2
      <4>2. g[rest] = fun[x] + g[both]
        BY <2>4, <2>6, <4>1
      <4>3. g[s \ {x}] = fun[n] + g[both] /\ g[both] \in Int
        BY ZenonT(30), <2>4, <2>6, <4>1
      <4>4. fun[x] \in Int
        BY <2>3
      <4> HIDE DEF both, rest
      <4> QED
        BY <2>6, <4>2, <4>3, <4>4
    <3> QED
      BY <3>1, <3>2
  <2>9. g[s] \in Int
    <3> HIDE DEF rest
    <3> QED
      BY <2>6, <2>7
  <2> QED
    BY <2>3, <2>8, <2>9
<1>6. Taken(S)
  BY <1>5
<1>7. g[{}] = 0
  BY <1>4
<1> QED
  BY <1>2, <1>6, <1>7

\* Functions that agree on a set have the same sum over it.
LEMMA SumDepends ==
    ASSUME NEW f, NEW g, NEW S, IsFiniteSet(S), \A x \in S : f[x] \in Int /\ f[x] = g[x]
    PROVE  SumFunctionOnSet(f, S) = SumFunctionOnSet(g, S)
<1>1. PICK h : Sums(h, f, S) /\ SumFunctionOnSet(f, S) = h[S]
  BY SumIs
<1>2. Sums(h, g, S)
  <2>1. \A s \in SUBSET S : s # {} => f[Next1(s)] = g[Next1(s)]
    BY Next1Is
  <2> QED
    BY <1>1, <2>1 DEF Sums
<1>3. PICK k : Sums(k, g, S) /\ SumFunctionOnSet(g, S) = k[S]
  BY SumIs
<1>4. S \in SUBSET (S \cap S)
  OBVIOUS
<1>5. h[S] = k[S]
  BY <1>2, <1>3, <1>4, SumsAgree
<1> QED
  BY <1>1, <1>3, <1>5

\* The coins left are those that the open charges and the items bought leave.
Open == {p \in Charged : ~payment[p].refunded}
Bought == [i \in Items |-> Price[i] * owned[i]]
Left == StartCoins - SumFunctionOnSet(Amount, Open) - SumFunctionOnSet(Bought, Items)

\* With nothing charged and nothing bought, all of them.
LEMMA LeftAtFirst == ScheduleInit => coins = Left
<1> SUFFICES ASSUME ScheduleInit PROVE coins = Left
  OBVIOUS
<1>1. Open = {}
  BY DEF ScheduleInit, WalletInit, Open, Charged, NoPayment
<1>2. SumFunctionOnSet(Amount, {}) = 0
  BY FS_EmptySet, SumTakesAny
<1>3. /\ IsFiniteSet(Items) /\ \A i \in Items : Bought[i] = 0
      /\ \A i \in Items : Bought[i] \in Int
  BY WalletAssumption DEF ScheduleInit, WalletInit, Bought
<1>4. SumFunctionOnSet(Bought, Items) = 0
  <2> DEFINE Bad == {s \in SUBSET Items : SumFunctionOnSet(Bought, s) # 0}
  <2>1. SUFFICES ASSUME Bad # {} PROVE FALSE
    OBVIOUS
  <2>2. \A s \in Bad : IsFiniteSet(s)
    BY <1>3, FS_Subset
  <2>3. PICK s \in Bad : \A y \in Bad : ~(y \subseteq s /\ y # s)
    <3> HIDE DEF Bad
    <3> QED
      BY <2>1, <2>2, SmallestSet
  <2>4. /\ IsFiniteSet(s) /\ SumFunctionOnSet(Bought, {}) = 0
        /\ \A i \in s : SumFunctionOnSet(Bought, s) = Bought[i] + SumFunctionOnSet(Bought, s \ {i})
    <3>1. IsFiniteSet(s) /\ \A i \in s : Bought[i] \in Int
      BY <1>3, <2>2, <2>3
    <3> HIDE DEF Bad
    <3> QED
      BY ZenonT(30), <3>1, SumTakesAny
  <2>5. PICK i \in s : TRUE
    BY <2>3, <2>4
  <2>6. SumFunctionOnSet(Bought, s \ {i}) = 0
    BY <2>3, <2>5
  <2> QED
    BY <1>3, <2>3, <2>4, <2>5, <2>6
<1>5. coins = StartCoins /\ StartCoins \in Nat
  BY WalletAssumption DEF ScheduleInit, WalletInit
<1> QED
  BY <1>1, <1>2, <1>4, <1>5 DEF Left

\* What of the coins depends on: the amounts of the open payments, and the items.
LEMMA LeftIsTyped ==
    ASSUME TypeInv
    PROVE  /\ IsFiniteSet(Open) /\ Open \subseteq Payments /\ IsFiniteSet(Items)
           /\ \A p \in Payments : Amount[p] \in Nat
           /\ \A i \in Items : Price[i] \in Nat /\ owned[i] \in Nat /\ Bought[i] \in Int
           /\ SumFunctionOnSet(Amount, Open) \in Int
           /\ SumFunctionOnSet(Bought, Items) \in Int
           /\ StartCoins \in Nat
<1>1. Open \subseteq Payments /\ IsFiniteSet(Payments) /\ IsFiniteSet(Items)
  BY WalletAssumption DEF Open, Charged
<1>2. IsFiniteSet(Open)
  BY <1>1, FS_Subset
<1>3. \A i \in Items : Price[i] \in Nat /\ owned[i] \in Nat
  BY WalletAssumption DEF TypeInv, ScheduleTypeOK, WalletTypeOK
<1>4. \A i \in Items : Bought[i] \in Int
  BY <1>3 DEF Bought
<1>5. StartCoins \in Nat /\ \A p \in Payments : Amount[p] \in Nat
  BY WalletAssumption
<1>6. SumFunctionOnSet(Amount, Open) \in Int
  BY <1>1, <1>2, <1>5, SumTakesAny
<1>7. SumFunctionOnSet(Bought, Items) \in Int
  BY <1>1, <1>4, SumTakesAny
<1> QED
  BY <1>1, <1>2, <1>3, <1>4, <1>5, <1>6, <1>7

\* What is charged or refunded leaves less or more.
LEMMA LeftAfterSettling ==
    ASSUME TypeInv, TypeInv', owned' = owned, NEW p \in Payments
    PROVE  /\ Open' = Open => Left' = Left
           /\ p \notin Open /\ Open' = Open \cup {p} => Left' = Left - Amount[p]
           /\ p \in Open /\ Open' = Open \ {p} => Left' = Left + Amount[p]
<1> DEFINE sum(S) == SumFunctionOnSet(Amount, S)
           goods == SumFunctionOnSet(Bought, Items)
<1>1. /\ IsFiniteSet(Open) /\ IsFiniteSet(Open') /\ Open \subseteq Payments /\ Open' \subseteq Payments
      /\ \A q \in Payments : Amount[q] \in Nat
      /\ sum(Open) \in Int /\ goods \in Int /\ StartCoins \in Nat
  <2>1. IsFiniteSet(Open') /\ Open' \subseteq Payments
    BY LeftIsTyped, WalletAssumption, FS_Subset DEF Open, Charged
  <2> QED
    BY <2>1, LeftIsTyped
<1>2. goods' = goods
  BY DEF Bought
<1>3. Left = StartCoins - sum(Open) - goods /\ Left' = StartCoins - sum(Open') - goods
  BY <1>2 DEF Left
<1>4. \A S \in SUBSET Payments : IsFiniteSet(S) =>
          sum(S) \in Int /\ \A q \in S : sum(S) = Amount[q] + sum(S \ {q})
  BY <1>1, SumTakesAny
<1> HIDE DEF sum, goods
<1>5. ASSUME p \notin Open, Open' = Open \cup {p} PROVE sum(Open') = Amount[p] + sum(Open)
  <2>1. Open' \ {p} = Open /\ p \in Open'
    BY <1>5
  <2> QED
    BY <1>1, <1>4, <2>1
<1>6. ASSUME p \in Open, Open' = Open \ {p} PROVE sum(Open) = Amount[p] + sum(Open')
  BY <1>1, <1>4, <1>6
<1>7. sum(Open') \in Int
  BY <1>1, <1>4
<1> QED
  BY <1>1, <1>3, <1>5, <1>6, <1>7

\* An item bought leaves less.
LEMMA LeftAfterBuying ==
    ASSUME TypeInv, TypeInv', payment' = payment, NEW i \in Items,
           owned' = [owned EXCEPT ![i] = owned[i] + 1]
    PROVE  Left' = Left - Price[i]
<1> DEFINE f == Bought
           g == Bought'
           others == Items \ {i}
           sum == SumFunctionOnSet(Amount, Open)
<1>1. /\ IsFiniteSet(Items) /\ sum \in Int /\ StartCoins \in Nat
      /\ \A k \in Items : Price[k] \in Nat /\ owned[k] \in Nat
      /\ \A k \in Items : f[k] \in Int
      /\ owned \in [Items -> Nat]
  BY LeftIsTyped DEF TypeInv, ScheduleTypeOK, WalletTypeOK
<1>2. owned'[i] = owned[i] + 1 /\ \A k \in others : owned'[k] = owned[k]
  BY <1>1
<1>3. \A k \in Items : f[k] = Price[k] * owned[k] /\ g[k] = Price[k] * owned'[k]
  BY DEF Bought
<1>4. \A m, n \in Nat : m * (n + 1) = m * n + m
  OBVIOUS
<1>5. g[i] = f[i] + Price[i]
  <2>1. Price[i] * (owned[i] + 1) = Price[i] * owned[i] + Price[i]
    BY <1>1, <1>4, Zenon
  <2>2. g[i] = Price[i] * (owned[i] + 1) /\ f[i] = Price[i] * owned[i]
    BY <1>2, <1>3, Zenon
  <2> QED
    BY <2>1, <2>2, Zenon
<1>6. \A k \in others : g[k] = f[k]
  BY <1>2, <1>3
<1>7. \A k \in Items : g[k] \in Int
  BY <1>1, <1>5, <1>6
<1>8. sum' = sum
  BY DEF Open, Charged
<1>9. Left = StartCoins - sum - SumFunctionOnSet(f, Items)
      /\ Left' = StartCoins - sum - SumFunctionOnSet(g, Items)
  BY <1>8 DEF Left
<1> HIDE DEF f, g, sum
<1>10. /\ SumFunctionOnSet(f, Items) = f[i] + SumFunctionOnSet(f, others)
       /\ SumFunctionOnSet(f, Items) \in Int
  BY <1>1, SumTakesAny
<1>11. SumFunctionOnSet(g, Items) = g[i] + SumFunctionOnSet(g, others)
  BY <1>1, <1>7, SumTakesAny
<1>12. IsFiniteSet(others) /\ \A k \in others : f[k] \in Int
  BY <1>1, FS_Subset
<1>13. SumFunctionOnSet(f, others) = SumFunctionOnSet(g, others)
  BY <1>6, <1>12, SumDepends
<1>14. SumFunctionOnSet(f, others) \in Int
  BY <1>12, SumTakesAny
<1> QED
  BY <1>1, <1>5, <1>9, <1>10, <1>11, <1>13, <1>14

\* As long as nobody has written over rows changed since they were read, the coins
\* are what is left.
Accounted == ~outdated => coins = Left

\* A handler commits a simulation.
LEMMA SettleAccounted ==
    ASSUME TypeInv, TypeInv', Accounted, NEW h \in Handlers, job[h].at = "settle",
           NEW status, NEW change \in {"none", "charge", "refund"}, Settle(h, status, change),
           change = "charge" => ~job[h].row.debited,
           change = "refund" => RefundIsDue(job[h].row),
           owned' = owned
    PROVE  Accounted'
<1> DEFINE p == job[h].of
           row == job[h].row
           stored == [payment[p] EXCEPT !.status = Put(@, row.status, status)]
           changed == [stored EXCEPT !.debited = TRUE, !.refunded = (change = "refund")]
<1>1. /\ p \in Payments /\ row \in PaymentRows /\ job[h].coins \in Nat
      /\ payment \in [Payments -> PaymentRows] /\ coins \in Nat
  BY DEF TypeInv, JobsHeld, Held, ScheduleTypeOK, WalletTypeOK
<1>2. \/ change = "none" /\ payment' = [payment EXCEPT ![p] = stored] /\ UNCHANGED <<coins, outdated>>
      \/ /\ change # "none" /\ payment' = [payment EXCEPT ![p] = changed]
         /\ coins' = job[h].coins + (IF change = "refund" THEN Amount[p] ELSE -Amount[p])
         /\ outdated' = (outdated \/ coins # job[h].coins
                            \/ <<payment[p].debited, payment[p].refunded>> # <<row.debited, row.refunded>>)
  BY DEF Settle
<1>3. /\ stored.debited = payment[p].debited /\ stored.refunded = payment[p].refunded
      /\ changed.debited /\ changed.refunded = (change = "refund")
  BY <1>1 DEF PaymentRows
<1> HIDE DEF stored, changed
<1>4. CASE change = "none"
  <2>1. \A q \in Payments : /\ payment'[q].debited = payment[q].debited
                            /\ payment'[q].refunded = payment[q].refunded
    BY <1>1, <1>2, <1>3, <1>4
  <2>2. Open' = Open
    BY <2>1 DEF Open, Charged
  <2> QED
    BY <1>1, <1>2, <1>4, <2>2, LeftAfterSettling DEF Accounted
<1>5. CASE change # "none"
  <2> SUFFICES ASSUME ~outdated' PROVE coins' = Left'
    BY DEF Accounted
  <2>1. /\ ~outdated /\ coins = job[h].coins /\ payment[p].debited = row.debited
        /\ payment[p].refunded = row.refunded /\ coins = Left
    BY <1>2, <1>5 DEF Accounted
  <2>2. \A q \in Payments : q # p => payment'[q] = payment[q]
    BY <1>1, <1>2, <1>5
  <2>3. payment'[p].debited /\ payment'[p].refunded = (change = "refund")
    BY <1>1, <1>2, <1>3, <1>5
  <2>4. Amount[p] \in Nat
    BY <1>1, WalletAssumption
  <2>5. CASE change = "charge"
    <3>1. p \notin Open /\ Open' = Open \cup {p}
      BY <1>1, <2>1, <2>2, <2>3, <2>5 DEF Open, Charged
    <3>2. Left' = Left - Amount[p]
      BY <1>1, <3>1, LeftAfterSettling
    <3> QED
      BY <1>1, <1>2, <2>1, <2>4, <2>5, <3>2
  <2>6. CASE change = "refund"
    <3>1. p \in Open /\ Open' = Open \ {p}
      BY <1>1, <2>1, <2>2, <2>3, <2>6 DEF Open, Charged, RefundIsDue
    <3>2. Left' = Left + Amount[p]
      BY <1>1, <3>1, LeftAfterSettling
    <3> QED
      BY <1>2, <2>1, <2>6, <3>2
  <2> QED
    BY <1>5, <2>5, <2>6
<1> QED
  BY <1>4, <1>5

\* Every step keeps account.
LEMMA AccountStep == TypeInv /\ Accounted /\ [ScheduleNext]_scheduleVars => Accounted'
<1> SUFFICES ASSUME TypeInv, Accounted, [ScheduleNext]_scheduleVars PROVE Accounted'
  OBVIOUS
<1>1. TypeInv'
  BY TypeStep
<1>2. payment \in [Payments -> PaymentRows]
  BY DEF TypeInv, ScheduleTypeOK, WalletTypeOK
<1>3. CASE UNCHANGED <<coins, payment, owned, outdated>>
  BY <1>3 DEF Accounted, Left, Open, Charged, Bought
<1>4. ASSUME UNCHANGED <<coins, owned, outdated>>,
             \A p \in Payments : payment'[p].debited = payment[p].debited
                                 /\ payment'[p].refunded = payment[p].refunded
      PROVE  Accounted'
  BY <1>4 DEF Accounted, Left, Open, Charged, Bought
<1>5. ASSUME NEW p \in Payments, CreatePayment(p) PROVE Accounted'
  BY <1>2, <1>4, <1>5 DEF CreatePayment, PaymentRows
<1>6. ASSUME NEW h \in Handlers, SettleFailed(h) PROVE Accounted'
  BY <1>2, <1>4, <1>6 DEF SettleFailed, PaymentRows
<1>7. ASSUME NEW h \in Handlers, SettleSuccess(h) PROVE Accounted'
  <2>1. job[h].at = "settle" /\ owned' = owned
    BY <1>7 DEF SettleSuccess
  <2>2. PICK change \in WalletCharge(job[h].row, Amount[job[h].of], job[h].coins) :
              Settle(h, "succeeded", change)
    BY <1>7 DEF SettleSuccess
  <2>3. change \in {"none", "charge"} /\ (change = "charge" => ~job[h].row.debited)
    BY <2>2 DEF WalletCharge
  <2> QED
    BY <1>1, <2>1, <2>2, <2>3, SettleAccounted
<1>8. ASSUME NEW h \in Handlers, SettleRefund(h) PROVE Accounted'
  BY <1>1, <1>8, SettleAccounted DEF SettleRefund
<1>9. ASSUME NEW h \in Handlers, Pay(h) PROVE Accounted'
  <2> DEFINE i == job[h].item
  <2>1. /\ coins' = job[h].coins - Price[i] /\ payment' = payment
        /\ owned' = [owned EXCEPT ![i] = job[h].quantity + 1]
        /\ outdated' = (outdated \/ coins # job[h].coins \/ owned[i] # job[h].quantity)
        /\ job[h].at = "pay"
    BY <1>9 DEF Pay
  <2>2. i \in Items
    BY <2>1 DEF TypeInv, JobsHeld, Held
  <2> SUFFICES ASSUME ~outdated' PROVE coins' = Left'
    BY DEF Accounted
  <2>3. coins = Left /\ coins = job[h].coins /\ owned[i] = job[h].quantity
    BY <2>1 DEF Accounted
  <2>4. Left' = Left - Price[i]
    BY <1>1, <2>1, <2>2, <2>3, LeftAfterBuying
  <2> QED
    BY <2>1, <2>3, <2>4
<1>10. CASE WalletNext
  BY <1>3, <1>5, <1>6, <1>7, <1>8, <1>9, <1>10
     DEF WalletNext, Simulate, ReadUser, Purchase, ReadInventory
<1>11. CASE MatchNext
  BY <1>3, <1>11 DEF MatchNext, AskTransition, AskReschedule, AskStart, MatchRequest, Transition,
                    Reschedule, StartAgain, CreateGame, LinkGame, HandlerFails, RollBack, Commit
<1>12. CASE TimePasses \/ UNCHANGED scheduleVars
  BY <1>3, <1>12 DEF TimePasses, scheduleVars, walletVars
<1> QED
  BY <1>10, <1>11, <1>12 DEF ScheduleNext

\* The coins are what the open charges and the items bought leave, unless a handler
\* committed over rows changed since it read them (PaymentService.simulate,
\* ShopService.purchase).
THEOREM CoinsAreAccountedFor == ScheduleSpec => []CoinsAddUp
<1>1. ScheduleInit => Accounted
  BY LeftAtFirst DEF Accounted
<1>2. TypeInv /\ Accounted => CoinsAddUp
  BY DEF TypeInv, ScheduleTypeOK, WalletTypeOK, Accounted, CoinsAddUp, Left, Open, Bought, SumFunction
<1> QED
  BY <1>1, <1>2, TypeInit, TypeStep, AccountStep, PTL DEF ScheduleSpec
=============================================================================
