---------------------------- MODULE MatchdayProofs ----------------------------
(***************************************************************************)
(* Theorems about what surrounds the matches of a turn: the line-ups       *)
(* (Lineups) for any number of matches, athletes, modules and line-ups,    *)
(* and the notifications (Notifications) for any number of users,          *)
(* broadcasts, workers, crashes and failed deliveries.                     *)
(***************************************************************************)
EXTENDS Lineups, Notifications, FiniteSetTheorems, SequenceTheorems, TLAPS

-----------------------------------------------------------------------------
(* Line-ups: the invariants *)

Links == [observed : Nat, latch : Nat \cup {None}]
Matches == [kickoff : Nat, status : {"NS", "LIVE", "FT", "PST"}]

IsSubmission(s) ==
  /\ s = [lineup |-> s.lineup, at |-> s.at, by |-> s.by, revision |-> s.revision,
          moves |-> s.moves, source |-> s.source, ai |-> s.ai]
  /\ IsLineup(s.lineup) /\ s.at \in Nat

IsRequest(r) ==
  /\ r.at \in Nat /\ r.at <= now /\ r.by \in {"manager", "operator"} /\ IsLineup(r.lineup)
  /\ r.loaded \in [Fixtures -> Links] /\ r.links \in [Fixtures -> Links]

LineupsTypeOK ==
  /\ now \in Nat /\ rosterNo \in 1..Len(Rosters) /\ moved \in BOOLEAN /\ ai \in BOOLEAN
  /\ fixture \in [Fixtures -> Matches] /\ link \in [Fixtures -> Links]
  /\ submission # None => IsSubmission(submission)
  /\ draft # None => IsLineup(draft.lineup) /\ draft.at \in Nat /\ draft.at <= now
  /\ request # None => IsRequest(request)

\* Nobody but an operator and the AI writes the line-up of a team of the AI,
\* and nobody drafts one.
ManagersAreHuman ==
  ai => /\ request # None => request.by # "manager"
        /\ submission # None => submission.by # "manager"
        /\ draft = None

\* A postponed match, and every match until the first is moved, is observed
\* with the kickoff it always had.
AsPublished ==
  \A f \in Fixtures :
    (fixture[f].status = "PST" \/ ~moved) =>
      /\ fixture[f].kickoff = FirstKickoff[f] /\ link[f].observed = FirstKickoff[f]
      /\ request # None => request.links[f].observed = FirstKickoff[f]

\* At that instant the match could not lock, and what has been observed and
\* latched since is later.
Untouched(l, match, at) ==
  at < l.observed /\ at < match.kickoff /\ (l.latch # None => at < l.latch)

Fresh(f, at) ==
  /\ Untouched(link[f], fixture[f], at)
  /\ request # None => Untouched(request.links[f], fixture[f], at)

\* Who is not locked for a manager's save had a match that could not lock when
\* the save was sent; the roster is still the one that the save has read.
SaveIsFresh ==
  request # None /\ request.by = "manager" =>
    \A a \in Range(Roster) \ request.locked : Fresh(FixtureOf[a], request.at)

\* So had the starters of a draft when it was saved, until a line-up is sent.
DraftIsFresh ==
  draft # None /\ submission = None =>
    \A a \in Starters(draft.lineup) : Fresh(FixtureOf[a], draft.at)

LocksInv == LineupsTypeOK /\ ManagersAreHuman /\ AsPublished /\ SaveIsFresh /\ DraftIsFresh

\* Every place of a submission is an athlete's, and his only one.
Injective(s) == \A i, j \in DOMAIN s : s[i] = s[j] => i = j
Fielded(lineup) ==
  /\ lineup.starters \in Seq(Athletes) /\ lineup.bench \in Seq(Athletes)
  /\ Injective(lineup.starters) /\ Injective(lineup.bench)
  /\ Range(lineup.starters) \cap Range(lineup.bench) = {}

SubmissionIsFielded == submission # None => Fielded(submission.lineup)

-----------------------------------------------------------------------------
(* Recursion and finite sets *)

\* The order of the naturals as a set of pairs.
Below == {p \in Nat \X Nat : p[1] < p[2]}

LEMMA SmallestOf ==
  ASSUME NEW T \in SUBSET Nat, T # {}
  PROVE  \E n \in T : \A m \in T : n <= m
<1>1. OpToRel(<, Nat) = Below
  BY Zenon DEF OpToRel, Below
<1>2. IsWellFoundedOn(Below, Nat)
  BY <1>1, NatLessThanWellFounded, Zenon
<1>3. PICK n \in T : \A m \in T : <<m, n>> \notin Below
  BY <1>2, WFMin
<1>4. ASSUME NEW m \in T
      PROVE  n <= m
  <2>1. <<m, n>> \in Nat \X Nat /\ <<m, n>>[1] = m /\ <<m, n>>[2] = n
    OBVIOUS
  <2> QED
    BY <1>3, <2>1 DEF Below
<1> QED
  BY <1>4

\* A set of naturals that has 0 and every successor up to n has all of 0..n.
LEMMA UpTo ==
  ASSUME NEW n \in Nat, NEW T \in SUBSET (0..n), 0 \in T, \A i \in 1..n : i - 1 \in T => i \in T
  PROVE  T = 0..n
<1> SUFFICES ASSUME (0..n) \ T # {}
             PROVE  FALSE
  OBVIOUS
<1>1. PICK m \in (0..n) \ T : \A k \in (0..n) \ T : m <= k
  BY SmallestOf, (0..n) \ T \in SUBSET Nat
<1>2. m \in 1..n /\ m - 1 \in T
  BY <1>1
<1> QED
  BY <1>1, <1>2

LEMMA Counting ==
  ASSUME NEW n \in Nat
  PROVE  IsFiniteSet(1..n) /\ Cardinality(1..n) = n
BY FS_Interval

\* f follows a recursion over 0..n that starts with s0.
Recurs(f, n, S, s0, step) ==
  /\ f \in [0..n -> S] /\ f[0] = s0
  /\ \A i \in 1..n : f[i] = step[<<i, f[i - 1]>>]

LEMMA Recursion ==
  ASSUME NEW n \in Nat, NEW S, NEW s0 \in S, NEW step \in [(1..n) \X S -> S]
  PROVE  \E f : Recurs(f, n, S, s0, step)
<1> DEFINE T == {k \in 0..n : \E f : Recurs(f, k, S, s0, step)}
<1>1. 0 \in T
  <2> DEFINE f == [i \in 0..0 |-> s0]
  <2>1. Recurs(f, 0, S, s0, step)
    BY DEF Recurs
  <2> QED
    BY <2>1
<1>2. ASSUME NEW k \in 1..n, k - 1 \in T
      PROVE  k \in T
  <2>1. PICK f : Recurs(f, k - 1, S, s0, step)
    BY <1>2
  <2> DEFINE g == [i \in 0..k |-> IF i = k THEN step[<<k, f[k - 1]>>] ELSE f[i]]
  <2>2. step[<<k, f[k - 1]>>] \in S
    BY <2>1 DEF Recurs
  <2>3. g \in [0..k -> S] /\ g[0] = s0
    BY <2>1, <2>2 DEF Recurs
  <2>4. ASSUME NEW i \in 1..k
        PROVE  g[i] = step[<<i, g[i - 1]>>]
    <3>1. i - 1 \in 0..k /\ i - 1 # k /\ i \in 0..k /\ (i = k \/ i \in 1..(k - 1))
      OBVIOUS
    <3>2. g[i - 1] = f[i - 1] /\ g[i] = IF i = k THEN step[<<k, f[k - 1]>>] ELSE f[i]
      BY <3>1
    <3> HIDE DEF g
    <3> QED
      BY <2>1, <3>1, <3>2 DEF Recurs
  <2> HIDE DEF g
  <2>5. Recurs(g, k, S, s0, step)
    BY <2>3, <2>4 DEF Recurs
  <2> QED
    BY <2>5
<1>3. T = 0..n
  <2> HIDE DEF T
  <2>1. T \in SUBSET (0..n)
    BY DEF T
  <2> QED
    BY <1>1, <1>2, <2>1, UpTo
<1> QED
  BY <1>3

-----------------------------------------------------------------------------
(* Sequences *)

LEMMA InRange ==
  ASSUME NEW T, NEW s \in Seq(T)
  PROVE  /\ \A x : x \in Range(s) <=> \E i \in 1..Len(s) : s[i] = x
         /\ Range(s) \subseteq T
<1>1. DOMAIN s = 1..Len(s) /\ \A i \in 1..Len(s) : s[i] \in T
  OBVIOUS
<1> QED
  BY <1>1 DEF Range

LEMMA RetypeSeq ==
  ASSUME NEW T, NEW s \in Seq(T), NEW S, Range(s) \subseteq S
  PROVE  s \in Seq(S)
<1>1. Len(s) \in Nat /\ s = [i \in 1..Len(s) |-> s[i]]
  BY LenProperties
<1>2. \A i \in 1..Len(s) : s[i] \in S
  BY InRange
<1> QED
  BY <1>1, <1>2

LEMMA Joined ==
  ASSUME NEW T, NEW s \in Seq(T), NEW t \in Seq(T)
  PROVE  s \o t \in Seq(T) /\ Range(s \o t) = Range(s) \cup Range(t)
BY ConcatProperties, RangeConcatenation

\* What First leaves of a sequence.
LEMMA FirstOf ==
  ASSUME NEW T, NEW s \in Seq(T), NEW n \in Int
  PROVE  First(s, n) \in Seq(T) /\ Range(First(s, n)) \subseteq Range(s)
<1> DEFINE m == Min({n, Len(s)})
<1>1. m \in Int /\ m <= Len(s) /\ Len(s) \in Nat
  <2>1. \E k \in {n, Len(s)} : \A l \in {n, Len(s)} : k <= l
    <3>1. n <= Len(s) \/ Len(s) <= n
      OBVIOUS
    <3> QED
      BY <3>1
  <2>2. m \in {n, Len(s)} /\ \A l \in {n, Len(s)} : m <= l
    BY <2>1, Zenon DEF Min
  <2> QED
    BY <2>2
<1> HIDE DEF m
<1>2. /\ SubSeq(s, 1, m) \in Seq(T) /\ Len(SubSeq(s, 1, m)) = IF 1 <= m THEN m ELSE 0
      /\ \A i \in 1..m : SubSeq(s, 1, m)[i] = s[i]
  <2>1. \A i \in 1..m : s[i] \in T
    BY <1>1
  <2>2. /\ SubSeq(s, 1, m) \in Seq(T) /\ Len(SubSeq(s, 1, m)) = IF 1 <= m THEN m - 1 + 1 ELSE 0
        /\ \A i \in 1..(m - 1 + 1) : SubSeq(s, 1, m)[i] = s[1 + i - 1]
    BY <1>1, <2>1, SubSeqProperties
  <2> QED
    BY <1>1, <2>2
<1>3. ASSUME NEW x \in Range(SubSeq(s, 1, m))
      PROVE  x \in Range(s)
  <2>1. PICK i \in 1..Len(SubSeq(s, 1, m)) : SubSeq(s, 1, m)[i] = x
    BY <1>2, InRange
  <2>2. i \in 1..Len(s) /\ s[i] = x
    BY <1>1, <1>2, <2>1
  <2> QED
    BY <2>2, InRange
<1> QED
  BY <1>2, <1>3 DEF First, m

\* The places of s that t picks, in their order.
Picks(t, s, places) ==
  \E g \in [1..Len(t) -> places] :
    /\ \A m, n \in 1..Len(t) : m < n => g[m] < g[n]
    /\ \A i \in places : \E n \in 1..Len(t) : g[n] = i
    /\ \A n \in 1..Len(t) : t[n] = s[g[n]]

\* One more place: it is picked or not.
Picking(t, s, k, S) == IF s[k] \in S THEN Append(t, s[k]) ELSE t

LEMMA PickNext ==
  ASSUME NEW T, NEW s \in Seq(T), NEW k \in 1..Len(s), NEW S, NEW t \in Seq(T),
         Picks(t, s, {i \in 1..(k - 1) : s[i] \in S})
  PROVE  Picks(Picking(t, s, k, S), s, {i \in 1..k : s[i] \in S})
<1> DEFINE old == {i \in 1..(k - 1) : s[i] \in S}
<1> DEFINE new == {i \in 1..k : s[i] \in S}
<1>1. PICK g \in [1..Len(t) -> old] :
        /\ \A m, n \in 1..Len(t) : m < n => g[m] < g[n]
        /\ \A i \in old : \E n \in 1..Len(t) : g[n] = i
        /\ \A n \in 1..Len(t) : t[n] = s[g[n]]
  BY DEF Picks
<1>2. old \subseteq 1..(k - 1) /\ k \in Nat /\ Len(s) \in Nat /\ Len(t) \in Nat
  BY LenProperties
<1>3. CASE s[k] \notin S
  <2>1. new = old
    BY <1>3
  <2> QED
    BY <1>1, <1>3, <2>1 DEF Picks, Picking
<1>4. CASE s[k] \in S
  <2> DEFINE u == Append(t, s[k])
  <2> DEFINE h == [n \in 1..(Len(t) + 1) |-> IF n = Len(t) + 1 THEN k ELSE g[n]]
  <2>1. new = old \cup {k}
    BY <1>4
  <2>2. /\ u \in Seq(T) /\ Len(u) = Len(t) + 1 /\ u[Len(t) + 1] = s[k]
        /\ \A n \in 1..Len(t) : u[n] = t[n]
    <3>1. s[k] \in T
      OBVIOUS
    <3> QED
      BY <3>1, AppendProperties
  <2>3. /\ h[Len(t) + 1] = k /\ h \in [1..Len(u) -> new]
        /\ \A n \in 1..Len(t) : h[n] = g[n] /\ g[n] \in old
    <3>1. Len(t) + 1 \in 1..(Len(t) + 1) /\ \A n \in 1..(Len(t) + 1) : n = Len(t) + 1 \/ n \in 1..Len(t)
      BY <1>2
    <3>2. h[Len(t) + 1] = k /\ \A n \in 1..Len(t) : h[n] = g[n]
      BY <1>2, <3>1
    <3>3. \A n \in 1..Len(t) : g[n] \in old
      OBVIOUS
    <3> HIDE DEF u, old, new
    <3>4. \A n \in 1..(Len(t) + 1) : h[n] \in new
      BY <2>1, <3>1, <3>2, <3>3
    <3>5. h \in [1..Len(u) -> new]
      BY <2>2, <3>4
    <3> QED
      BY <3>2, <3>3, <3>5
  <2> HIDE DEF h, u, old, new
  <2>4. \A n \in 1..Len(u) : n = Len(t) + 1 \/ n \in 1..Len(t)
    BY <1>2, <2>2
  <2>5. ASSUME NEW m \in 1..Len(u), NEW n \in 1..Len(u), m < n
        PROVE  h[m] < h[n]
    <3>1. m \in 1..Len(t)
      BY <2>2, <2>4, <2>5
    <3>2. h[m] = g[m] /\ g[m] \in 1..(k - 1)
      BY <1>2, <2>3, <3>1
    <3>3. CASE n = Len(t) + 1
      BY <1>2, <2>3, <3>2, <3>3
    <3>4. CASE n \in 1..Len(t)
      BY <1>1, <2>3, <2>5, <3>1, <3>2, <3>4
    <3> QED
      BY <2>4, <3>3, <3>4
  <2>6. ASSUME NEW i \in new
        PROVE  \E n \in 1..Len(u) : h[n] = i
    <3>1. CASE i = k
      <4>1. Len(t) + 1 \in 1..Len(u)
        BY <1>2, <2>2
      <4> QED
        BY <2>3, <3>1, <4>1
    <3>2. CASE i \in old
      <4>1. PICK n \in 1..Len(t) : g[n] = i
        BY <1>1, <3>2
      <4> QED
        BY <1>2, <2>2, <2>3, <4>1
    <3> QED
      BY <2>1, <3>1, <3>2
  <2>7. ASSUME NEW n \in 1..Len(u)
        PROVE  u[n] = s[h[n]]
    BY <1>1, <2>2, <2>3, <2>4
  <2>8. Picks(u, s, new)
    BY <2>3, <2>5, <2>6, <2>7 DEF Picks
  <2> QED
    BY <1>4, <2>2, <2>8 DEF u, new, Picking
<1> QED
  BY <1>3, <1>4

\* kept is what the places of s up to each have of S.
Filters(kept, T, s, S) ==
  /\ kept \in [0..Len(s) -> Seq(T)] /\ kept[0] = <<>>
  /\ \A i \in 1..Len(s) : kept[i] = Picking(kept[i - 1], s, i, S)

LEMMA KeptSteps ==
  ASSUME NEW T, NEW s \in Seq(T), NEW S
  PROVE  \E kept : Filters(kept, T, s, S) /\ Kept(s, S) = kept[Len(s)]
<1> DEFINE step == [p \in (1..Len(s)) \X Seq(T) |->
                      IF s[p[1]] \in S THEN Append(p[2], s[p[1]]) ELSE p[2]]
<1> DEFINE body(f) == [i \in 0..Len(s) |->
                         IF i = 0 THEN <<>>
                         ELSE IF s[i] \in S THEN Append(f[i - 1], s[i]) ELSE f[i - 1]]
<1>1. Len(s) \in Nat /\ <<>> \in Seq(T) /\ step \in [(1..Len(s)) \X Seq(T) -> Seq(T)]
  OBVIOUS
<1>2. \A i \in 1..Len(s), t \in Seq(T) :
        step[<<i, t>>] = IF s[i] \in S THEN Append(t, s[i]) ELSE t
  OBVIOUS
<1> HIDE DEF step
<1>3. PICK f : Recurs(f, Len(s), Seq(T), <<>>, step)
  BY <1>1, Recursion
<1>4. /\ f \in [0..Len(s) -> Seq(T)] /\ f[0] = <<>>
      /\ \A i \in 1..Len(s) : f[i] = step[<<i, f[i - 1]>>] /\ f[i - 1] \in Seq(T)
  <2>1. \A i \in 1..Len(s) : i - 1 \in 0..Len(s)
    BY <1>1
  <2> QED
    BY <1>3, <2>1 DEF Recurs
<1>5. \A i \in 1..Len(s) : f[i] = IF s[i] \in S THEN Append(f[i - 1], s[i]) ELSE f[i - 1]
  BY <1>2, <1>4
<1>6. f = body(f)
  <2>1. \A i \in 0..Len(s) :
          f[i] = IF i = 0 THEN <<>> ELSE IF s[i] \in S THEN Append(f[i - 1], s[i]) ELSE f[i - 1]
    <3>1. \A i \in 0..Len(s) : i = 0 \/ i \in 1..Len(s)
      BY <1>1
    <3> QED
      BY <1>4, <1>5, <3>1
  <2>2. f = [i \in 0..Len(s) |-> f[i]]
    BY <1>4
  <2> QED
    BY <2>1, <2>2
<1> DEFINE kept == CHOOSE g : g = body(g)
<1>7. kept = body(kept)
  BY <1>6, Zenon
<1>8. Kept(s, S) = kept[Len(s)]
  BY Zenon DEF Kept
<1> HIDE DEF kept
<1>9. kept[0] = <<>> /\ \A i \in 1..Len(s) : kept[i] = Picking(kept[i - 1], s, i, S)
  <2>1. \A i \in 0..Len(s) : kept[i] = body(kept)[i]
    BY <1>7
  <2>2. 0 \in 0..Len(s) /\ \A i \in 1..Len(s) : i \in 0..Len(s) /\ i # 0
    BY <1>1
  <2> QED
    BY <2>1, <2>2 DEF Picking
<1>10. \A i \in 0..Len(s) : kept[i] \in Seq(T)
  <2> DEFINE good == {i \in 0..Len(s) : kept[i] \in Seq(T)}
  <2>1. 0 \in good
    <3>1. kept[0] \in Seq(T) /\ 0 \in 0..Len(s)
      BY <1>1, <1>9
    <3> QED
      BY <3>1
  <2>2. ASSUME NEW i \in 1..Len(s), i - 1 \in good
        PROVE  i \in good
    <3>1. s[i] \in T /\ kept[i - 1] \in Seq(T) /\ i \in 0..Len(s)
      BY <1>1, <2>2
    <3>2. Picking(kept[i - 1], s, i, S) \in Seq(T)
      BY <3>1 DEF Picking
    <3> QED
      BY <1>9, <3>1, <3>2
  <2> HIDE DEF good
  <2>3. good \in SUBSET (0..Len(s))
    BY DEF good
  <2>4. good = 0..Len(s)
    BY <1>1, <2>1, <2>2, <2>3, UpTo
  <2> QED
    BY <2>4 DEF good
<1>11. kept \in [0..Len(s) -> Seq(T)]
  <2>1. kept = [i \in 0..Len(s) |-> kept[i]]
    BY <1>7
  <2> QED
    BY <1>10, <2>1
<1> QED
  BY <1>8, <1>9, <1>11 DEF Filters

LEMMA KeptPicks ==
  ASSUME NEW T, NEW s \in Seq(T), NEW S
  PROVE  Kept(s, S) \in Seq(T) /\ Picks(Kept(s, S), s, {i \in 1..Len(s) : s[i] \in S})
<1>1. PICK kept : Filters(kept, T, s, S) /\ Kept(s, S) = kept[Len(s)]
  BY KeptSteps
<1>2. Len(s) \in Nat /\ \A k \in 0..Len(s) : kept[k] \in Seq(T)
  <2>1. Len(s) \in Nat
    OBVIOUS
  <2> QED
    BY <1>1, <2>1 DEF Filters
<1> DEFINE places(k) == {i \in 1..k : s[i] \in S}
<1> DEFINE good == {k \in 0..Len(s) : Picks(kept[k], s, places(k))}
<1>3. 0 \in good
  <2>1. Picks(<<>>, s, {})
    <3> DEFINE g == [n \in 1..0 |-> n]
    <3>1. g \in [1..Len(<<>>) -> {}]
      OBVIOUS
    <3> QED
      BY <3>1 DEF Picks
  <2>2. places(0) = {}
    OBVIOUS
  <2>3. kept[0] = <<>>
    BY <1>1 DEF Filters
  <2> QED
    BY <1>2, <2>1, <2>2, <2>3
<1>4. ASSUME NEW k \in 1..Len(s), k - 1 \in good
      PROVE  k \in good
  <2>1. kept[k - 1] \in Seq(T) /\ Picks(kept[k - 1], s, places(k - 1)) /\ k \in 0..Len(s)
    BY <1>2, <1>4
  <2>2. Picks(Picking(kept[k - 1], s, k, S), s, places(k))
    BY <2>1, PickNext
  <2>3. kept[k] = Picking(kept[k - 1], s, k, S)
    BY <1>1 DEF Filters
  <2> HIDE DEF places
  <2> QED
    BY <2>1, <2>2, <2>3
<1>5. good = 0..Len(s)
  <2> HIDE DEF good
  <2>1. good \in SUBSET (0..Len(s))
    BY DEF good
  <2> QED
    BY <1>2, <1>3, <1>4, <2>1, UpTo
<1>6. Len(s) \in good /\ Len(s) \in 0..Len(s)
  <2> HIDE DEF good
  <2> QED
    BY <1>2, <1>5
<1> QED
  BY <1>1, <1>2, <1>6

LEMMA KeptIs ==
  ASSUME NEW T, NEW s \in Seq(T), NEW S
  PROVE  /\ Kept(s, S) \in Seq(T) /\ Range(Kept(s, S)) = Range(s) \cap S
         /\ Len(Kept(s, S)) = Cardinality({i \in 1..Len(s) : s[i] \in S})
<1> DEFINE t == Kept(s, S)
<1> DEFINE places == {i \in 1..Len(s) : s[i] \in S}
<1>1. t \in Seq(T) /\ Picks(t, s, places) /\ Len(s) \in Nat
  BY KeptPicks
<1> HIDE DEF t
<1>2. PICK g \in [1..Len(t) -> places] :
        /\ \A m, n \in 1..Len(t) : m < n => g[m] < g[n]
        /\ \A i \in places : \E n \in 1..Len(t) : g[n] = i
        /\ \A n \in 1..Len(t) : t[n] = s[g[n]]
  BY <1>1 DEF Picks
<1>3. ASSUME NEW x \in Range(t)
      PROVE  x \in Range(s) \cap S
  <2>1. PICK n \in 1..Len(t) : t[n] = x
    BY <1>1, InRange
  <2>2. g[n] \in places /\ s[g[n]] = x
    BY <1>2, <2>1
  <2> QED
    BY <2>2, InRange
<1>4. ASSUME NEW x \in Range(s) \cap S
      PROVE  x \in Range(t)
  <2>1. PICK i \in 1..Len(s) : s[i] = x
    BY InRange
  <2>2. PICK n \in 1..Len(t) : g[n] = i
    BY <1>2, <1>4, <2>1
  <2>3. t[n] = x
    BY <1>2, <2>1, <2>2
  <2> QED
    BY <1>1, <2>3, InRange
<1>5. Len(t) = Cardinality(places)
  <2>1. Len(t) \in Nat /\ IsFiniteSet(1..Len(t)) /\ Cardinality(1..Len(t)) = Len(t)
    <3>1. Len(t) \in Nat
      BY <1>1
    <3> QED
      BY <3>1, Counting
  <2>2. g \in Surjection(1..Len(t), places)
    BY <1>2 DEF Surjection
  <2>3. \A m, n \in 1..Len(t) : g[m] = g[n] => m = n
    <3> SUFFICES ASSUME NEW m \in 1..Len(t), NEW n \in 1..Len(t), g[m] = g[n], m < n
                 PROVE  FALSE
      BY <2>1
    <3>1. g[m] < g[n] /\ g[m] \in Int
      BY <1>2
    <3> QED
      BY <3>1
  <2>4. g \in Injection(1..Len(t), places)
    BY <1>2, <2>3 DEF Injection, IsInjective
  <2> QED
    BY <2>1, <2>2, <2>4, FS_Surjection
<1> QED
  BY <1>1, <1>3, <1>4, <1>5 DEF t

\* Who comes before whom is the same in what is kept.
LEMMA KeptOrder ==
  ASSUME NEW T, NEW s \in Seq(T), NEW S, NEW a \in S, NEW b \in S
  PROVE  Before(Kept(s, S), a, b) <=> Before(s, a, b)
<1> DEFINE t == Kept(s, S)
<1> DEFINE places == {i \in 1..Len(s) : s[i] \in S}
<1>1. t \in Seq(T) /\ Picks(t, s, places) /\ Len(s) \in Nat
  BY KeptPicks
<1> HIDE DEF t
<1>2. PICK g \in [1..Len(t) -> places] :
        /\ \A m, n \in 1..Len(t) : m < n => g[m] < g[n]
        /\ \A i \in places : \E n \in 1..Len(t) : g[n] = i
        /\ \A n \in 1..Len(t) : t[n] = s[g[n]]
  BY <1>1 DEF Picks
<1>3. DOMAIN t = 1..Len(t) /\ DOMAIN s = 1..Len(s) /\ Len(t) \in Nat
  BY <1>1
<1>4. ASSUME NEW m \in 1..Len(t), NEW n \in 1..Len(t), m < n, t[m] = a, t[n] = b
      PROVE  Before(s, a, b)
  <2>1. g[m] < g[n] /\ g[m] \in 1..Len(s) /\ g[n] \in 1..Len(s) /\ s[g[m]] = a /\ s[g[n]] = b
    BY <1>2, <1>4
  <2> QED
    BY <1>3, <2>1 DEF Before
<1>5. ASSUME NEW i \in 1..Len(s), NEW j \in 1..Len(s), i < j, s[i] = a, s[j] = b
      PROVE  Before(t, a, b)
  <2>1. i \in places /\ j \in places
    BY <1>5
  <2>2. PICK m \in 1..Len(t) : g[m] = i
    BY <1>2, <2>1
  <2>3. PICK n \in 1..Len(t) : g[n] = j
    BY <1>2, <2>1
  <2>4. m < n
    <3>1. m # n /\ ~(n < m)
      BY <1>2, <1>5, <2>2, <2>3
    <3> QED
      BY <3>1
  <2>5. t[m] = a /\ t[n] = b
    BY <1>2, <1>5, <2>2, <2>3
  <2> QED
    BY <1>3, <2>4, <2>5 DEF Before
<1> QED
  BY <1>3, <1>4, <1>5 DEF Before, t

\* The blocks of FlattenSeq, one after the other.
LEMMA Flattened ==
  ASSUME NEW T, NEW n \in Nat, NEW seqs \in [1..n -> Seq(T)]
  PROVE  /\ FlattenSeq(seqs) \in Seq(T)
         /\ \A x : x \in Range(FlattenSeq(seqs)) <=> \E i \in 1..n : x \in Range(seqs[i])
<1>1. seqs \in Seq(Seq(T)) /\ Len(seqs) = n
  OBVIOUS
<1>2. CASE n = 0
  <2>1. FlattenSeq(seqs) = <<>>
    <3>1. FlattenSeq(seqs) = seqs
      BY <1>1, <1>2 DEF FlattenSeq
    <3> QED
      BY <1>1, <1>2, <3>1
  <2>2. 1..n = {} /\ Range(<<>>) = {} /\ <<>> \in Seq(T)
    BY <1>2 DEF Range
  <2> QED
    BY <2>1, <2>2
<1>3. CASE n # 0
  <2> DEFINE step == [p \in (1..(n - 1)) \X Seq(T) |-> p[2] \o seqs[p[1] + 1]]
  <2> DEFINE body(f) == [i \in 1..n |-> IF i = 1 THEN seqs[i] ELSE f[i - 1] \o seqs[i]]
  <2>1. /\ n - 1 \in Nat /\ seqs[1] \in Seq(T) /\ n \in 1..n
        /\ \A i \in 1..(n - 1), t \in Seq(T) : t \o seqs[i + 1] \in Seq(T)
    <3>1. n - 1 \in Nat /\ 1 \in 1..n /\ n \in 1..n /\ \A i \in 1..(n - 1) : i + 1 \in 1..n
      BY <1>3
    <3> QED
      BY <3>1
  <2>2. /\ step \in [(1..(n - 1)) \X Seq(T) -> Seq(T)]
        /\ \A i \in 1..(n - 1), t \in Seq(T) : step[<<i, t>>] = t \o seqs[i + 1]
    BY <2>1
  <2> HIDE DEF step
  <2>3. PICK f : Recurs(f, n - 1, Seq(T), seqs[1], step)
    BY <2>1, <2>2, Recursion
  <2> DEFINE g == [i \in 1..n |-> f[i - 1]]
  <2>4. /\ f \in [0..(n - 1) -> Seq(T)] /\ f[0] = seqs[1]
        /\ \A i \in 1..(n - 1) : f[i] = step[<<i, f[i - 1]>>] /\ f[i - 1] \in Seq(T)
    <3>1. \A i \in 1..(n - 1) : i - 1 \in 0..(n - 1)
      BY <2>1
    <3> QED
      BY <2>3, <3>1 DEF Recurs
  <2>5. g = body(g)
    <3>1. \A i \in 1..n : f[i - 1] = IF i = 1 THEN seqs[i] ELSE f[(i - 1) - 1] \o seqs[i]
      <4>1. ASSUME NEW i \in 1..n, i # 1
            PROVE  f[i - 1] = f[(i - 1) - 1] \o seqs[i]
        <5>1. i - 1 \in 1..(n - 1) /\ (i - 1) + 1 = i
          BY <4>1
        <5> QED
          BY <2>2, <2>4, <5>1
      <4>2. \A i \in 1..n : i = 1 => f[i - 1] = seqs[i]
        BY <2>4
      <4> QED
        BY <4>1, <4>2
    <3>2. \A i \in 1..n : i # 1 => i - 1 \in 1..n
      OBVIOUS
    <3> QED
      BY <3>1, <3>2
  <2> DEFINE flat == CHOOSE h : h = body(h)
  <2>6. flat = body(flat)
    BY <2>5, Zenon
  <2>7. FlattenSeq(seqs) = flat[n]
    <3>1. FlattenSeq(seqs) = (CHOOSE h : h = [i \in 1..Len(seqs) |->
                                IF i = 1 THEN seqs[i] ELSE h[i - 1] \o seqs[i]])[Len(seqs)]
      BY <1>1, <1>3, Zenon DEF FlattenSeq
    <3> QED
      BY <1>1, <3>1
  <2> HIDE DEF flat, g
  <2>8. flat[1] = seqs[1] /\ \A i \in 2..n : flat[i] = flat[i - 1] \o seqs[i]
    <3>1. \A i \in 1..n : flat[i] = IF i = 1 THEN seqs[i] ELSE flat[i - 1] \o seqs[i]
      BY <2>6
    <3>2. 1 \in 1..n /\ \A i \in 2..n : i \in 1..n /\ i # 1
      BY <2>1
    <3> QED
      BY <3>1, <3>2
  <2> DEFINE Flat(i) == /\ flat[i] \in Seq(T)
                        /\ \A x : x \in Range(flat[i]) <=> \E j \in 1..i : x \in Range(seqs[j])
  <2> DEFINE good == {k \in 0..(n - 1) : Flat(k + 1)}
  <2>9. 0 \in good
    BY <2>1, <2>8
  <2>10. ASSUME NEW k \in 1..(n - 1), k - 1 \in good
         PROVE  k \in good
    <3>1. /\ k \in 1..n /\ k + 1 \in 2..n /\ (k + 1) - 1 = k /\ (k - 1) + 1 = k /\ k \in 0..(n - 1)
          /\ k + 1 \in 1..n
      BY <2>1
    <3>2. Flat(k)
      BY <2>10, <3>1
    <3>3. flat[k + 1] = flat[k] \o seqs[k + 1]
      BY <2>8, <3>1
    <3>4. /\ flat[k + 1] \in Seq(T)
          /\ Range(flat[k + 1]) = Range(flat[k]) \cup Range(seqs[k + 1])
      BY <3>1, <3>2, <3>3, Joined
    <3>5. \A j \in 1..(k + 1) : j = k + 1 \/ j \in 1..k
      BY <3>1
    <3>6. k + 1 \in 1..(k + 1) /\ \A j \in 1..k : j \in 1..(k + 1)
      BY <3>1
    <3>7. Flat(k + 1)
      BY <3>2, <3>4, <3>5, <3>6
    <3> HIDE DEF Flat
    <3> QED
      BY <3>1, <3>7
  <2> HIDE DEF Flat
  <2>11. n - 1 \in good
    <3> HIDE DEF good
    <3>1. good \in SUBSET (0..(n - 1))
      BY DEF good
    <3>2. good = 0..(n - 1)
      BY <2>1, <2>9, <2>10, <3>1, UpTo
    <3> QED
      BY <2>1, <3>2
  <2>12. Flat(n)
    BY <2>1, <2>11
  <2> QED
    BY <2>7, <2>12 DEF Flat
<1> QED
  BY <1>2, <1>3

LEMMA WithoutIs ==
  ASSUME NEW T, NEW s \in Seq(T), NEW used
  PROVE  Without(s, used) \in Seq(T) /\ Range(Without(s, used)) = Range(s) \ used
<1> DEFINE S == Range(s) \ used
<1>1. Kept(s, S) \in Seq(T) /\ Range(Kept(s, S)) = Range(s) \cap S
  <2> HIDE DEF S
  <2> QED
    BY KeptIs
<1> QED
  BY <1>1 DEF Without

LEMMA OfRoleIs ==
  ASSUME NEW T, NEW s \in Seq(T), NEW r
  PROVE  OfRole(s, r) \in Seq(T) /\ Range(OfRole(s, r)) = {a \in Range(s) : Role[a] = r}
<1> DEFINE S == {a \in Range(s) : Role[a] = r}
<1>1. Kept(s, S) \in Seq(T) /\ Range(Kept(s, S)) = Range(s) \cap S
  <2> HIDE DEF S
  <2> QED
    BY KeptIs
<1> QED
  BY <1>1 DEF OfRole

\* The roles are those of the order.
LEMMA RolesInOrder ==
  /\ Len(RoleOrder) \in Nat /\ DOMAIN RoleOrder = 1..Len(RoleOrder)
  /\ \A i \in 1..Len(RoleOrder) : RoleOrder[i] \in Roles
  /\ \A r \in Roles : \E i \in 1..Len(RoleOrder) : RoleOrder[i] = r
<1>1. RoleOrder \in Seq(Roles) /\ Len(RoleOrder) \in Nat /\ DOMAIN RoleOrder = 1..Len(RoleOrder)
  BY RulesAssumption
<1> QED
  BY <1>1, InRange DEF Roles

LEMMA RoleBlocksAre ==
  ASSUME NEW T, NEW s \in Seq(T)
  PROVE  /\ RoleBlocks(s) \in Seq(T) /\ Range(RoleBlocks(s)) \subseteq Range(s)
         /\ Range(s) \subseteq Athletes => Range(RoleBlocks(s)) = Range(s)
<1> DEFINE n == Len(RoleOrder)
<1> DEFINE seqs == [i \in 1..n |-> OfRole(s, RoleOrder[i])]
<1>1. n \in Nat /\ seqs \in [1..n -> Seq(T)] /\ RoleBlocks(s) = FlattenSeq(seqs)
  BY RolesInOrder, OfRoleIs DEF RoleBlocks
<1>2. \A i \in 1..n : Range(seqs[i]) = {a \in Range(s) : Role[a] = RoleOrder[i]}
  BY OfRoleIs
<1> HIDE DEF seqs
<1>3. /\ FlattenSeq(seqs) \in Seq(T)
      /\ \A x : x \in Range(FlattenSeq(seqs)) <=> \E i \in 1..n : x \in Range(seqs[i])
  BY <1>1, Flattened
<1>4. ASSUME Range(s) \subseteq Athletes, NEW a \in Range(s)
      PROVE  \E i \in 1..n : a \in Range(seqs[i])
  <2>1. Role[a] \in Roles
    BY <1>4, RulesAssumption
  <2> QED
    BY <1>2, <2>1, RolesInOrder
<1>5. Range(FlattenSeq(seqs)) \subseteq Range(s)
  BY <1>2, <1>3
<1>6. Range(s) \subseteq Athletes => Range(s) \subseteq Range(FlattenSeq(seqs))
  BY <1>3, <1>4
<1> QED
  BY <1>1, <1>3, <1>5, <1>6

\* InOrder lists the set.
LEMMA InOrderIs ==
  ASSUME NEW T, IsFiniteSet(T), NEW key \in [T -> Int], \A x, y \in T : key[x] = key[y] => x = y
  PROVE  InOrder(T, key) \in Seq(T) /\ Range(InOrder(T, key)) = T
<1> DEFINE c == Cardinality(T)
<1> DEFINE upTo(x) == {y \in T : key[y] <= key[x]}
<1> DEFINE rank == [x \in T |-> Cardinality(upTo(x))]
<1>1. c \in Nat /\ IsFiniteSet(1..c) /\ Cardinality(1..c) = c
  BY FS_CardinalityType, Counting
<1>2. ASSUME NEW x \in T
      PROVE  IsFiniteSet(upTo(x)) /\ rank[x] \in 1..c
  <2>1. upTo(x) \subseteq T /\ x \in upTo(x)
    OBVIOUS
  <2>2. IsFiniteSet(upTo(x)) /\ Cardinality(upTo(x)) <= c
    BY <2>1, FS_Subset
  <2>3. Cardinality(upTo(x)) \in Nat /\ Cardinality(upTo(x)) # 0
    BY <2>1, <2>2, FS_CardinalityType, FS_EmptySet
  <2> QED
    BY <1>1, <2>2, <2>3
<1>3. ASSUME NEW x \in T, NEW y \in T, key[x] < key[y]
      PROVE  rank[x] # rank[y]
  <2>1. upTo(x) \subseteq upTo(y) /\ y \in upTo(y) /\ y \notin upTo(x)
    BY <1>3
  <2> QED
    BY <1>2, <2>1, FS_Subset
<1>4. ASSUME NEW x \in T, NEW y \in T, rank[x] = rank[y]
      PROVE  x = y
  <2>1. ~(key[x] < key[y]) /\ ~(key[y] < key[x])
    BY <1>3, <1>4
  <2> QED
    BY <2>1
<1>5. rank \in [T -> 1..c]
  BY <1>2
<1> HIDE DEF rank
<1>6. rank \in Surjection(T, 1..c)
  <2>1. rank \in Injection(T, 1..c)
    BY <1>4, <1>5 DEF Injection, IsInjective
  <2> QED
    BY <1>1, <2>1, FS_Injection
<1> DEFINE at(n) == CHOOSE x \in T : Cardinality({y \in T : key[y] <= key[x]}) = n
<1>7. ASSUME NEW n \in 1..c
      PROVE  at(n) \in T /\ rank[at(n)] = n
  <2>1. PICK x \in T : rank[x] = n
    BY <1>6 DEF Surjection
  <2>2. Cardinality({y \in T : key[y] <= key[x]}) = n
    BY <2>1 DEF rank
  <2>3. at(n) \in T /\ Cardinality({y \in T : key[y] <= key[at(n)]}) = n
    BY <2>2, Zenon
  <2> QED
    BY <2>3 DEF rank
<1>8. InOrder(T, key) = [n \in 1..c |-> at(n)]
  BY DEF InOrder
<1> HIDE DEF at
<1>9. InOrder(T, key) \in Seq(T) /\ Len(InOrder(T, key)) = c
  BY <1>1, <1>7, <1>8
<1>10. ASSUME NEW x \in T
       PROVE  x \in Range(InOrder(T, key))
  <2>1. rank[x] \in 1..c
    BY <1>5
  <2>2. at(rank[x]) = x
    BY <1>4, <1>7, <2>1
  <2> QED
    BY <1>8, <1>9, <2>1, <2>2, InRange
<1> QED
  BY <1>9, <1>10, InRange

LEMMA ByScoreIs ==
  ASSUME NEW S, S \subseteq Athletes
  PROVE  ByScore(S) \in Seq(Athletes) /\ Range(ByScore(S)) = S
<1> DEFINE key == [a \in Athletes |-> 0 - Score[a]]
<1>1. /\ IsFiniteSet(Athletes) /\ key \in [Athletes -> Int]
      /\ \A a, b \in Athletes : key[a] = key[b] => a = b
  <2>1. /\ IsFiniteSet(Athletes) /\ Score \in [Athletes -> Nat]
        /\ \A a, b \in Athletes : Score[a] = Score[b] => a = b
    BY RulesAssumption
  <2> QED
    BY <2>1
<1> HIDE DEF key
<1>2. InOrder(Athletes, key) \in Seq(Athletes) /\ Range(InOrder(Athletes, key)) = Athletes
  BY <1>1, InOrderIs
<1>3. Ranking \in Seq(Athletes) /\ Range(Ranking) = Athletes
  BY <1>2 DEF Ranking, key
<1> QED
  <2>1. Kept(Ranking, S) \in Seq(Athletes) /\ Range(Kept(Ranking, S)) = Range(Ranking) \cap S
    BY <1>3, KeptIs
  <2> QED
    BY <1>3, <2>1 DEF ByScore

-----------------------------------------------------------------------------
(* Line-ups made by the rules *)

LEMMA SmallerOf ==
  ASSUME NEW x \in Int, NEW y \in Int
  PROVE  /\ Min({x, y}) \in Int /\ Min({x, y}) <= x /\ Min({x, y}) <= y
         /\ Min({x, y}) = x \/ Min({x, y}) = y
<1>1. \E m \in {x, y} : \A n \in {x, y} : m <= n
  <2>1. x <= y \/ y <= x
    OBVIOUS
  <2> QED
    BY <2>1
<1>2. Min({x, y}) \in {x, y} /\ \A n \in {x, y} : Min({x, y}) <= n
  BY <1>1, Zenon DEF Min
<1> QED
  BY <1>2

LEMMA LargerOf ==
  ASSUME NEW x \in Int, NEW y \in Int
  PROVE  /\ Max({x, y}) \in Int /\ Max({x, y}) >= x /\ Max({x, y}) >= y
         /\ Max({x, y}) = x \/ Max({x, y}) = y
<1>1. \E m \in {x, y} : \A n \in {x, y} : m >= n
  <2>1. x >= y \/ y >= x
    OBVIOUS
  <2> QED
    BY <2>1
<1>2. Max({x, y}) \in {x, y} /\ \A n \in {x, y} : Max({x, y}) >= n
  BY <1>1, Zenon DEF Max
<1> QED
  BY <1>2

LEMMA RoleCountsType ==
  ASSUME NEW T, NEW s \in Seq(T), NEW r \in Roles
  PROVE  RoleCounts(s)[r] \in Nat /\ BenchRequired(s)[r] \in Nat
<1> DEFINE places == {i \in DOMAIN s : Role[s[i]] = r}
<1>1. Len(s) \in Nat /\ DOMAIN s = 1..Len(s)
  OBVIOUS
<1>2. IsFiniteSet(places) /\ Cardinality(places) \in Nat
  <2>1. places \subseteq 1..Len(s)
    BY <1>1
  <2> QED
    BY <1>1, <2>1, Counting, FS_Subset, FS_CardinalityType
<1>3. RoleCounts(s)[r] = Cardinality(places)
  BY DEF RoleCounts
<1>4. Quota[r] \in Nat
  BY RulesAssumption
<1>5. BenchRequired(s)[r] = Min({Quota[r], RoleCounts(s)[r]})
  BY DEF BenchRequired
<1> HIDE DEF places
<1>6. Min({Quota[r], RoleCounts(s)[r]}) \in Nat
  <2> DEFINE q == Quota[r]
  <2> DEFINE c == RoleCounts(s)[r]
  <2>1. q \in Nat /\ c \in Nat /\ q \in Int /\ c \in Int
    BY <1>2, <1>3, <1>4
  <2> HIDE DEF q, c
  <2>2. Min({q, c}) \in Nat
    BY <2>1, SmallerOf, Zenon
  <2> QED
    BY <2>2 DEF q, c
<1> QED
  BY <1>2, <1>3, <1>5, <1>6

\* A new order of the bench moves everybody and loses nobody.
LEMMA ActiveBenchIs ==
  ASSUME NEW T, NEW s \in Seq(T), NEW required, \A r \in Roles : required[r] \in Int, NEW size \in Int
  PROVE  /\ ActiveBench(s, required, size) \in Seq(T)
         /\ Range(s) \subseteq Athletes => Range(ActiveBench(s, required, size)) = Range(s)
<1> DEFINE n == Len(RoleOrder)
<1> DEFINE seqs == [i \in 1..n |-> First(OfRole(s, RoleOrder[i]), required[RoleOrder[i]])]
<1> DEFINE owed == FlattenSeq(seqs)
<1> DEFINE wanted == Max({0, Min({size, Len(s)}) - Len(owed)})
<1> DEFINE fill == First(Without(s, Range(owed)), wanted)
<1> DEFINE others == Without(s, Range(owed) \cup Range(fill))
<1>1. ActiveBench(s, required, size) = owed \o fill \o RoleBlocks(others)
  BY RolesInOrder DEF ActiveBench
<1>2. n \in Nat /\ seqs \in [1..n -> Seq(T)] /\ \A i \in 1..n : Range(seqs[i]) \subseteq Range(s)
  <2>1. ASSUME NEW i \in 1..n
        PROVE  seqs[i] \in Seq(T) /\ Range(seqs[i]) \subseteq Range(s)
    <3>1. required[RoleOrder[i]] \in Int
      BY RolesInOrder
    <3>2. OfRole(s, RoleOrder[i]) \in Seq(T) /\ Range(OfRole(s, RoleOrder[i])) \subseteq Range(s)
      BY OfRoleIs
    <3> QED
      BY <3>1, <3>2, FirstOf
  <2> QED
    BY <2>1, RolesInOrder
<1> HIDE DEF seqs
<1>3. owed \in Seq(T) /\ Range(owed) \subseteq Range(s)
  BY <1>2, Flattened
<1> HIDE DEF owed
<1>4. wanted \in Int
  <2> DEFINE l == Len(s)
  <2> DEFINE left == Min({size, l}) - Len(owed)
  <2>1. l \in Int /\ Len(owed) \in Int
    BY <1>3
  <2> HIDE DEF l
  <2>2. left \in Int
    <3>1. Min({size, l}) \in Int
      BY <2>1, SmallerOf, Zenon
    <3> QED
      BY <2>1, <3>1
  <2> HIDE DEF left
  <2>3. Max({0, left}) \in Int
    <3>1. 0 \in Int
      OBVIOUS
    <3> QED
      BY <2>2, <3>1, LargerOf, Zenon
  <2> QED
    BY <2>3 DEF left, l
<1> HIDE DEF wanted
<1>5. fill \in Seq(T) /\ Range(fill) \subseteq Range(s)
  <2>1. Without(s, Range(owed)) \in Seq(T) /\ Range(Without(s, Range(owed))) \subseteq Range(s)
    BY WithoutIs
  <2> QED
    BY <1>4, <2>1, FirstOf
<1> HIDE DEF fill
<1>6. others \in Seq(T) /\ Range(others) = Range(s) \ (Range(owed) \cup Range(fill))
  BY WithoutIs
<1> HIDE DEF others
<1>7. /\ RoleBlocks(others) \in Seq(T)
      /\ Range(s) \subseteq Athletes => Range(RoleBlocks(others)) = Range(others)
  BY <1>6, RoleBlocksAre
<1>8. owed \o fill \in Seq(T) /\ Range(owed \o fill) = Range(owed) \cup Range(fill)
  BY <1>3, <1>5, Joined
<1>9. /\ owed \o fill \o RoleBlocks(others) \in Seq(T)
      /\ Range(owed \o fill \o RoleBlocks(others)) = Range(owed \o fill) \cup Range(RoleBlocks(others))
  <2> DEFINE s1 == owed \o fill
  <2> DEFINE s2 == RoleBlocks(others)
  <2>1. s1 \in Seq(T) /\ s2 \in Seq(T)
    BY <1>7, <1>8
  <2> HIDE DEF s1, s2
  <2>2. s1 \o s2 \in Seq(T) /\ Range(s1 \o s2) = Range(s1) \cup Range(s2)
    BY <2>1, Joined
  <2> QED
    BY <2>2 DEF s1, s2
<1> QED
  BY <1>1, <1>3, <1>5, <1>6, <1>7, <1>8, <1>9

LEMMA PlacesOfAthletes ==
  ASSUME NEW s \in Seq(Athletes)
  PROVE  s \in Places /\ Range(s) \subseteq Athletes /\ None \notin Range(s)
<1>1. s \in Places
  BY SeqMonotonic DEF Places
<1>2. Range(s) \subseteq Athletes
  BY InRange
<1> QED
  BY <1>1, <1>2, RulesAssumption

\* A copy has the places of a line-up.
LEMMA CopiedIs ==
  ASSUME NEW previous, IsLineup(previous), NEW roster \in Seq(Athletes), NEW locked, NEW confirmed
  PROVE  IsLineup(CopiedLineup(previous, roster, locked, confirmed))
<1> DEFINE taken(a) == a \in Range(roster) /\ (a \in locked => Slot(confirmed, a) = "starter")
<1> DEFINE starters == [i \in 1..StarterCount |->
                          IF i \in DOMAIN previous.starters /\ taken(previous.starters[i])
                          THEN previous.starters[i] ELSE None]
<1> DEFINE kept == Kept(previous.bench, Range(roster))
<1> DEFINE displaced == Kept(previous.starters, {a \in Range(roster) : ~taken(a)})
<1> DEFINE order == Without(kept, Range(starters)) \o displaced
<1> DEFINE rest == Without(roster, Range(starters))
<1> DEFINE first == Kept(order, Range(rest))
<1> DEFINE bench == first \o Without(rest, Range(first))
<1> DEFINE active == ActiveBench(bench, BenchRequired(bench), BenchActive)
<1>1. CopiedLineup(previous, roster, locked, confirmed) =
        [module |-> previous.module, starters |-> starters, bench |-> IF locked = {} THEN active ELSE bench]
  BY DEF CopiedLineup, OrderedBench
<1>2. /\ previous.starters \in Places /\ previous.bench \in Places /\ previous.module \in DOMAIN Modules
      /\ StarterCount \in Nat /\ BenchActive \in Int
  BY RulesAssumption DEF IsLineup
<1>3. starters \in Places
  <2>1. \A i \in DOMAIN previous.starters : previous.starters[i] \in Athletes \cup {None}
    BY <1>2 DEF Places
  <2> HIDE DEF taken
  <2>2. \A i \in 1..StarterCount : starters[i] \in Athletes \cup {None}
    BY <2>1
  <2> QED
    BY <1>2, <2>2 DEF Places
<1> HIDE DEF starters
<1>4. kept \in Places
  BY <1>2, KeptIs DEF Places
<1> HIDE DEF kept
<1>5. displaced \in Places
  <2> DEFINE S == {a \in Range(roster) : ~taken(a)}
  <2> HIDE DEF S
  <2>1. Kept(previous.starters, S) \in Places
    BY <1>2, KeptIs DEF Places
  <2> QED
    BY <2>1 DEF S
<1> HIDE DEF displaced
<1>6. order \in Places
  <2>1. Without(kept, Range(starters)) \in Places
    BY <1>4, WithoutIs DEF Places
  <2> QED
    BY <1>5, <2>1, Joined DEF Places
<1> HIDE DEF order
<1>7. rest \in Places
  BY WithoutIs, PlacesOfAthletes
<1> HIDE DEF rest
<1>8. first \in Places
  BY <1>6, KeptIs DEF Places
<1> HIDE DEF first
<1>9. bench \in Places
  <2>1. Without(rest, Range(first)) \in Places
    BY <1>7, WithoutIs DEF Places
  <2> QED
    BY <1>8, <2>1, Joined DEF Places
<1> HIDE DEF bench
<1>10. active \in Places
  <2>1. \A r \in Roles : BenchRequired(bench)[r] \in Int
    BY <1>9, RoleCountsType DEF Places
  <2> QED
    BY <1>2, <1>9, <2>1, ActiveBenchIs DEF Places
<1> HIDE DEF active
<1> QED
  BY <1>1, <1>2, <1>3, <1>9, <1>10 DEF IsLineup

\* The formula places everybody of the pool once on the field or on the bench.
LEMMA PlanIs ==
  ASSUME NEW pool, pool \subseteq Athletes, NEW targets, \A r \in Roles : targets[r] \in Int
  PROVE  /\ Plan(pool, targets).starters \in Seq(Athletes)
         /\ Plan(pool, targets).bench \in Seq(Athletes)
         /\ Range(Plan(pool, targets).starters) \subseteq pool
         /\ Range(Plan(pool, targets).bench) = pool \ Range(Plan(pool, targets).starters)
<1> DEFINE n == Len(RoleOrder)
<1> DEFINE ranked == ByScore(pool \cap Available)
<1> DEFINE seqs == [i \in 1..n |-> First(OfRole(ranked, RoleOrder[i]), targets[RoleOrder[i]])]
<1> DEFINE chosen == FlattenSeq(seqs)
<1> DEFINE rest == ByScore(pool \ Range(chosen))
<1> DEFINE bench == ActiveBench(rest, BenchRequired(rest), BenchActive)
<1>1. Chosen(pool, targets) = chosen
  BY RolesInOrder DEF Chosen
<1>2. Plan(pool, targets).starters = chosen /\ Plan(pool, targets).bench = bench
  BY <1>1 DEF Plan
<1>3. ranked \in Seq(Athletes) /\ Range(ranked) \subseteq pool
  <2>1. pool \cap Available \subseteq Athletes
    OBVIOUS
  <2> QED
    BY <2>1, ByScoreIs
<1> HIDE DEF ranked
<1>4. n \in Nat /\ seqs \in [1..n -> Seq(Athletes)] /\ \A i \in 1..n : Range(seqs[i]) \subseteq pool
  <2>1. ASSUME NEW i \in 1..n
        PROVE  seqs[i] \in Seq(Athletes) /\ Range(seqs[i]) \subseteq pool
    <3>1. targets[RoleOrder[i]] \in Int
      BY RolesInOrder
    <3>2. OfRole(ranked, RoleOrder[i]) \in Seq(Athletes) /\ Range(OfRole(ranked, RoleOrder[i])) \subseteq pool
      BY <1>3, OfRoleIs
    <3> QED
      BY <3>1, <3>2, FirstOf
  <2> QED
    BY <2>1, RolesInOrder
<1> HIDE DEF seqs
<1>5. chosen \in Seq(Athletes) /\ Range(chosen) \subseteq pool
  BY <1>4, Flattened
<1> HIDE DEF chosen
<1>6. rest \in Seq(Athletes) /\ Range(rest) = pool \ Range(chosen)
  <2>1. pool \ Range(chosen) \subseteq Athletes
    OBVIOUS
  <2> QED
    BY <2>1, ByScoreIs
<1> HIDE DEF rest
<1>7. bench \in Seq(Athletes) /\ Range(bench) = Range(rest)
  <2>1. \A r \in Roles : BenchRequired(rest)[r] \in Int
    BY <1>6, RoleCountsType
  <2>2. BenchActive \in Int /\ Range(rest) \subseteq Athletes
    BY <1>6, RulesAssumption
  <2> QED
    BY <1>6, <2>1, <2>2, ActiveBenchIs
<1> HIDE DEF bench
<1> QED
  BY <1>2, <1>5, <1>6, <1>7

\* A sum of scores is a number.
LEMMA WorthType ==
  ASSUME NEW s \in Seq(Athletes)
  PROVE  Worth(s) \in Int
<1> DEFINE step == [p \in (1..Len(s)) \X Int |-> p[2] + Score[s[p[1]]]]
<1> DEFINE body(f) == [i \in 0..Len(s) |-> IF i = 0 THEN 0 ELSE f[i - 1] + Score[s[i]]]
<1>1. Len(s) \in Nat /\ 0 \in Int /\ \A i \in 1..Len(s) : Score[s[i]] \in Int
  BY RulesAssumption
<1>2. /\ step \in [(1..Len(s)) \X Int -> Int]
      /\ \A i \in 1..Len(s), x \in Int : step[<<i, x>>] = x + Score[s[i]]
  BY <1>1
<1> HIDE DEF step
<1>3. PICK f : Recurs(f, Len(s), Int, 0, step)
  BY <1>1, <1>2, Recursion
<1>4. /\ f \in [0..Len(s) -> Int] /\ f[0] = 0
      /\ \A i \in 1..Len(s) : f[i] = f[i - 1] + Score[s[i]]
  <2>1. \A i \in 1..Len(s) : i - 1 \in 0..Len(s)
    BY <1>1
  <2> QED
    BY <1>2, <1>3, <2>1 DEF Recurs
<1>5. f = body(f)
  <2>1. \A i \in 0..Len(s) : f[i] = IF i = 0 THEN 0 ELSE f[i - 1] + Score[s[i]]
    <3>1. \A i \in 0..Len(s) : i = 0 \/ i \in 1..Len(s)
      BY <1>1
    <3> QED
      BY <1>4, <3>1
  <2>2. f = [i \in 0..Len(s) |-> f[i]]
    BY <1>4
  <2> QED
    BY <2>1, <2>2
<1> DEFINE worth == CHOOSE g : g = body(g)
<1>6. worth = body(worth)
  BY <1>5, Zenon
<1>7. Worth(s) = worth[Len(s)]
  BY Zenon DEF Worth
<1> HIDE DEF worth
<1> DEFINE good == {i \in 0..Len(s) : worth[i] \in Int}
<1>8. 0 \in good
  <2>1. 0 \in 0..Len(s) /\ worth[0] = 0
    BY <1>1, <1>6
  <2> QED
    BY <2>1
<1>9. ASSUME NEW i \in 1..Len(s), i - 1 \in good
      PROVE  i \in good
  <2>1. i \in 0..Len(s) /\ i # 0
    BY <1>1
  <2>2. worth[i] = worth[i - 1] + Score[s[i]]
    BY <1>6, <2>1
  <2> QED
    BY <1>1, <1>9, <2>1, <2>2
<1> HIDE DEF good
<1>10. good = 0..Len(s)
  <2>1. good \in SUBSET (0..Len(s))
    BY DEF good
  <2> QED
    BY <1>1, <1>8, <1>9, <2>1, UpTo
<1> QED
  BY <1>1, <1>7, <1>10 DEF good

\* One of finitely many has the greatest value.
LEMMA GreatestOf ==
  ASSUME NEW n \in Nat, NEW S \in SUBSET (1..n), S # {}, NEW value \in [S -> Int]
  PROVE  \E m \in S : \A k \in S : value[k] <= value[m]
<1> DEFINE Has(i) == S \cap (1..i) = {} \/ \E m \in S \cap (1..i) : \A k \in S \cap (1..i) : value[k] <= value[m]
<1> DEFINE good == {i \in 0..n : Has(i)}
<1>1. 0 \in good
  <2>1. 1..0 = {}
    OBVIOUS
  <2> QED
    BY <2>1
<1>2. ASSUME NEW i \in 1..n, i - 1 \in good
      PROVE  i \in good
  <2>1. i \in 0..n /\ i - 1 \in Nat /\ Has(i - 1) /\ 1..i = (1..(i - 1)) \cup {i}
    BY <1>2
  <2>2. CASE i \notin S
    <3>1. S \cap (1..i) = S \cap (1..(i - 1))
      BY <2>1, <2>2
    <3> QED
      BY <2>1, <3>1
  <2>3. CASE i \in S
    <3>1. CASE S \cap (1..(i - 1)) = {}
      <4>1. S \cap (1..i) = {i}
        BY <2>1, <2>3, <3>1
      <4>2. value[i] <= value[i]
        BY <2>3
      <4> QED
        BY <2>1, <4>1, <4>2
    <3>2. CASE S \cap (1..(i - 1)) # {}
      <4>1. PICK m \in S \cap (1..(i - 1)) : \A k \in S \cap (1..(i - 1)) : value[k] <= value[m]
        BY <2>1, <3>2
      <4>2. PICK x \in {i, m} : value[i] <= value[x] /\ value[m] <= value[x]
        <5>1. value[i] \in Int /\ value[m] \in Int
          BY <2>3
        <5> QED
          BY <5>1
      <4>3. x \in S \cap (1..i)
        BY <2>1, <2>3
      <4>4. ASSUME NEW k \in S \cap (1..i)
            PROVE  value[k] <= value[x]
        <5>1. k = i \/ k \in S \cap (1..(i - 1))
          BY <2>1
        <5>2. value[k] \in Int /\ value[m] \in Int /\ value[x] \in Int
          BY <4>3
        <5> QED
          BY <4>1, <4>2, <5>1, <5>2
      <4> QED
        BY <2>1, <4>3, <4>4
    <3> QED
      BY <3>1, <3>2
  <2> QED
    BY <2>2, <2>3
<1>3. n \in good
  <2> HIDE DEF good
  <2>1. good \in SUBSET (0..n)
    BY DEF good
  <2>2. good = 0..n
    BY <1>1, <1>2, <2>1, UpTo
  <2> QED
    BY <2>2
<1>4. Has(n) /\ S \cap (1..n) = S
  BY <1>3
<1> QED
  BY <1>4

\* The best module is one of the catalogue.
LEMMA BestModuleIs ==
  ASSUME NEW plans, DOMAIN plans = DOMAIN Modules,
         \A m \in DOMAIN Modules : plans[m].starters \in Seq(Athletes),
         NEW locked, NEW current \in DOMAIN Modules
  PROVE  BestModule(plans, locked, current) \in DOMAIN Modules
<1> DEFINE n == Len(Modules)
<1> DEFINE complete == {m \in DOMAIN plans : plans[m].complete}
<1> DEFINE value == [m \in complete |-> Worth(Without(plans[m].starters, locked))]
<1> DEFINE best == {m \in complete : \A k \in complete : value[k] <= value[m]}
<1>1. n \in Nat /\ DOMAIN Modules = 1..n
  BY RulesAssumption
<1>2. BestModule(plans, locked, current) = IF complete = {} THEN current ELSE Min(best)
  <2>1. best = {m \in complete : \A k \in complete :
                  Worth(Without(plans[k].starters, locked)) <= Worth(Without(plans[m].starters, locked))}
    BY DEF value
  <2> QED
    BY <2>1 DEF BestModule
<1>3. complete \in SUBSET (1..n) /\ value \in [complete -> Int]
  <2>1. ASSUME NEW m \in complete
        PROVE  Worth(Without(plans[m].starters, locked)) \in Int
    <3>1. Without(plans[m].starters, locked) \in Seq(Athletes)
      BY WithoutIs
    <3> QED
      BY <3>1, WorthType
  <2> QED
    BY <1>1, <2>1
<1> HIDE DEF value
<1>4. ASSUME complete # {}
      PROVE  Min(best) \in DOMAIN Modules
  <2> HIDE DEF complete
  <2>1. \E m \in complete : \A k \in complete : value[k] <= value[m]
    BY <1>1, <1>3, <1>4, GreatestOf
  <2>2. best # {} /\ best \in SUBSET Nat /\ best \subseteq complete
    <3>1. best \subseteq complete /\ complete \in SUBSET Nat
      BY <1>1, <1>3
    <3>2. PICK m \in complete : \A k \in complete : value[k] <= value[m]
      BY <2>1
    <3>3. m \in best
      BY <3>2
    <3> QED
      BY <3>1, <3>3
  <2> HIDE DEF best
  <2>3. \E m \in best : \A k \in best : m <= k
    BY <2>2, SmallestOf
  <2>4. Min(best) \in best
    BY <2>3, Zenon DEF Min
  <2> QED
    BY <1>1, <1>3, <2>2, <2>4
<1> QED
  BY <1>2, <1>4

\* Who does not come in what follows has before him who came before him.
LEMMA JoinedOrder ==
  ASSUME NEW T, NEW s \in Seq(T), NEW t \in Seq(T), NEW a, NEW b, a \notin Range(t)
  PROVE  Before(s \o t, b, a) <=> Before(s, b, a)
<1>1. /\ Len(s) \in Nat /\ Len(t) \in Nat /\ s \o t \in Seq(T) /\ Len(s \o t) = Len(s) + Len(t)
      /\ DOMAIN s = 1..Len(s) /\ DOMAIN (s \o t) = 1..(Len(s) + Len(t))
      /\ \A i \in 1..(Len(s) + Len(t)) : (s \o t)[i] = IF i <= Len(s) THEN s[i] ELSE t[i - Len(s)]
  BY ConcatProperties
<1>2. ASSUME NEW i \in 1..(Len(s) + Len(t)), (s \o t)[i] = a
      PROVE  i \in 1..Len(s) /\ s[i] = a
  <2>1. SUFFICES ASSUME ~(i <= Len(s))
                 PROVE  FALSE
    BY <1>1, <1>2
  <2>2. i - Len(s) \in 1..Len(t) /\ t[i - Len(s)] = a
    BY <1>1, <1>2, <2>1
  <2> QED
    BY <2>2, InRange
<1>3. \A i \in 1..Len(s) : i \in 1..(Len(s) + Len(t)) /\ (s \o t)[i] = s[i]
  BY <1>1
<1>4. ASSUME NEW i \in 1..(Len(s) + Len(t)), NEW j \in 1..(Len(s) + Len(t)), i < j,
             (s \o t)[i] = b, (s \o t)[j] = a
      PROVE  Before(s, b, a)
  <2>1. j \in 1..Len(s) /\ s[j] = a
    BY <1>2, <1>4
  <2>2. i \in 1..Len(s)
    BY <1>1, <1>4, <2>1
  <2> QED
    BY <1>1, <1>3, <1>4, <2>1, <2>2 DEF Before
<1> HIDE DEF Range
<1> QED
  BY <1>1, <1>3, <1>4 DEF Before


LEMMA FilledIs ==
  ASSUME NEW s \in Places
  PROVE  Filled(s) \in Seq(Athletes) /\ Range(Filled(s)) = Range(s) \ {None}
<1> DEFINE S == Range(s) \ {None}
<1>1. s \in Seq(Athletes \cup {None})
  BY DEF Places
<1>2. Kept(s, S) \in Seq(Athletes \cup {None}) /\ Range(Kept(s, S)) = Range(s) \cap S
  <2> HIDE DEF S
  <2> QED
    BY <1>1, KeptIs
<1>3. Range(s) \cap S = S /\ S \subseteq Athletes
  BY <1>1, InRange
<1>4. Kept(s, S) \in Seq(Athletes)
  BY <1>2, <1>3, RetypeSeq
<1> QED
  BY <1>2, <1>3, <1>4 DEF Filled

\* The formula around the locked athletes moves none of them, on the field or
\* on the bench, and lets nobody cross them there.
LEMMA AroundLockedIs ==
  ASSUME NEW roster \in Seq(Athletes), NEW targets \in [Roles -> Nat],
         NEW locked, locked \subseteq Range(roster),
         NEW confirmed, confirmed.starters \in Places, confirmed.bench \in Places,
         NEW m, NEW plan, plan = PlanAroundLocked(roster, targets, locked, confirmed),
         NEW new, new = [module |-> m, starters |-> plan.starters, bench |-> plan.bench]
  PROVE  /\ plan.starters \in Seq(Athletes) /\ plan.bench \in Seq(Athletes)
         /\ Range(plan.starters) \subseteq Range(roster)
         /\ KeepsSlots(confirmed, new, locked) /\ KeepsBenchOrder(confirmed, new, locked)
<1> DEFINE still == {a \in locked : Slot(confirmed, a) = "starter"}
<1> DEFINE pinned == Kept(roster, still)
<1> DEFINE left == [r \in Roles |-> Max({0, targets[r] - RoleCounts(pinned)[r]})]
<1> DEFINE free == Plan(Range(roster) \ locked, left)
<1> DEFINE benched == (locked \ Range(pinned)) \cup Range(free.bench)
<1> DEFINE carried == Kept(confirmed.bench, benched)
<1> DEFINE prefix == First(carried, BenchActive)
<1> DEFINE needed == [r \in Roles |-> Max({0, BenchRequired(ByScore(benched))[r] - RoleCounts(prefix)[r]})]
<1> DEFINE starters == RoleBlocks(pinned \o free.starters)
<1> DEFINE newcomers == ActiveBench(ByScore(benched \ Range(carried)), needed, BenchActive - Len(prefix))
<1>1. plan.starters = starters /\ plan.bench = carried \o newcomers
  BY DEF PlanAroundLocked
<1>2. Range(roster) \subseteq Athletes /\ still \subseteq Range(roster) /\ BenchActive \in Int
  BY InRange, RulesAssumption
<1>3. pinned \in Seq(Athletes) /\ Range(pinned) = still
  <2>1. Kept(roster, still) \in Seq(Athletes) /\ Range(Kept(roster, still)) = Range(roster) \cap still
    <3> HIDE DEF still
    <3> QED
      BY KeptIs
  <2> QED
    BY <1>2, <2>1
<1> HIDE DEF pinned
<1>4. \A r \in Roles : left[r] \in Int
  <2> SUFFICES ASSUME NEW r \in Roles
               PROVE  Max({0, targets[r] - RoleCounts(pinned)[r]}) \in Int
    OBVIOUS
  <2> DEFINE x == targets[r] - RoleCounts(pinned)[r]
  <2>1. x \in Int /\ 0 \in Int
    BY <1>3, RoleCountsType
  <2> HIDE DEF x
  <2>2. Max({0, x}) \in Int
    BY <2>1, LargerOf, Zenon
  <2> QED
    BY <2>2 DEF x
<1> HIDE DEF left
<1>5. /\ free.starters \in Seq(Athletes) /\ free.bench \in Seq(Athletes)
      /\ Range(free.starters) \subseteq Range(roster) \ locked
      /\ Range(free.bench) = (Range(roster) \ locked) \ Range(free.starters)
  <2> DEFINE pool == Range(roster) \ locked
  <2>1. pool \subseteq Athletes
    BY <1>2
  <2> HIDE DEF pool
  <2>2. /\ Plan(pool, left).starters \in Seq(Athletes) /\ Plan(pool, left).bench \in Seq(Athletes)
        /\ Range(Plan(pool, left).starters) \subseteq pool
        /\ Range(Plan(pool, left).bench) = pool \ Range(Plan(pool, left).starters)
    BY <1>4, <2>1, PlanIs
  <2> QED
    BY <2>2 DEF pool
<1> HIDE DEF free
<1>6. starters \in Seq(Athletes) /\ Range(starters) = still \cup Range(free.starters)
  <2> DEFINE s1 == free.starters
  <2>1. s1 \in Seq(Athletes) /\ Range(s1) = Range(free.starters)
    BY <1>5
  <2> HIDE DEF s1
  <2>2. pinned \o s1 \in Seq(Athletes) /\ Range(pinned \o s1) = Range(pinned) \cup Range(s1)
    BY <1>3, <2>1, Joined
  <2> DEFINE s2 == pinned \o s1
  <2>3. s2 \in Seq(Athletes) /\ Range(s2) = Range(pinned) \cup Range(s1) /\ Range(s2) \subseteq Athletes
    BY <2>2, InRange
  <2> HIDE DEF s2
  <2>4. RoleBlocks(s2) \in Seq(Athletes) /\ Range(RoleBlocks(s2)) = Range(s2)
    BY <2>3, RoleBlocksAre
  <2> QED
    BY <1>3, <2>1, <2>3, <2>4 DEF s1, s2
<1> HIDE DEF starters
<1>7. benched \subseteq Athletes /\ None \notin Athletes
  BY <1>2, <1>5, RulesAssumption
<1>8. benched = (locked \ still) \cup ((Range(roster) \ locked) \ Range(free.starters))
  BY <1>3, <1>5
<1> HIDE DEF benched
<1>9. carried \in Seq(Athletes) /\ Range(carried) = Range(confirmed.bench) \cap benched
  <2> DEFINE s == confirmed.bench
  <2>1. s \in Seq(Athletes \cup {None})
    BY DEF Places
  <2> HIDE DEF s
  <2>2. Kept(s, benched) \in Seq(Athletes \cup {None}) /\ Range(Kept(s, benched)) = Range(s) \cap benched
    BY <2>1, KeptIs
  <2>3. Kept(s, benched) \in Seq(Athletes)
    <3>1. Range(Kept(s, benched)) \subseteq Athletes
      BY <1>7, <2>2
    <3> QED
      BY <2>2, <3>1, RetypeSeq
  <2> QED
    BY <2>2, <2>3 DEF s
<1>10. \A a, b \in benched : Before(carried, b, a) <=> Before(confirmed.bench, b, a)
  <2> DEFINE s == confirmed.bench
  <2>1. s \in Seq(Athletes \cup {None})
    BY DEF Places
  <2> HIDE DEF s
  <2>2. \A a, b \in benched : Before(Kept(s, benched), b, a) <=> Before(s, b, a)
    BY <2>1, KeptOrder
  <2> QED
    BY <2>2 DEF s
<1> HIDE DEF carried
<1>11. newcomers \in Seq(Athletes) /\ Range(newcomers) = benched \ Range(carried)
  <2> DEFINE s == ByScore(benched \ Range(carried))
  <2> DEFINE size == BenchActive - Len(prefix)
  <2>1. s \in Seq(Athletes) /\ Range(s) = benched \ Range(carried)
    <3> DEFINE S == benched \ Range(carried)
    <3>1. S \subseteq Athletes
      BY <1>7
    <3> HIDE DEF S
    <3>2. ByScore(S) \in Seq(Athletes) /\ Range(ByScore(S)) = S
      BY <3>1, ByScoreIs
    <3> QED
      BY <3>2 DEF S
  <2>2. prefix \in Seq(Athletes)
    BY <1>2, <1>9, FirstOf
  <2> HIDE DEF prefix
  <2>3. size \in Int
    BY <1>2, <2>2
  <2>4. \A r \in Roles : needed[r] \in Int
    <3> SUFFICES ASSUME NEW r \in Roles
                 PROVE  Max({0, BenchRequired(ByScore(benched))[r] - RoleCounts(prefix)[r]}) \in Int
      OBVIOUS
    <3> DEFINE x == BenchRequired(ByScore(benched))[r] - RoleCounts(prefix)[r]
    <3>1. BenchRequired(ByScore(benched))[r] \in Int /\ RoleCounts(prefix)[r] \in Int
      <4>1. ByScore(benched) \in Seq(Athletes)
        BY <1>7, ByScoreIs
      <4> QED
        BY <2>2, <4>1, RoleCountsType
    <3>2. x \in Int /\ 0 \in Int
      BY <3>1
    <3> HIDE DEF x
    <3>3. Max({0, x}) \in Int
      BY <3>2, LargerOf, Zenon
    <3> QED
      BY <3>3 DEF x
  <2> HIDE DEF s, size, needed
  <2>5. Range(s) \subseteq Athletes
    BY <1>7, <2>1
  <2>6. ActiveBench(s, needed, size) \in Seq(Athletes) /\ Range(ActiveBench(s, needed, size)) = Range(s)
    BY <2>1, <2>3, <2>4, <2>5, ActiveBenchIs
  <2> QED
    BY <2>1, <2>6 DEF s, size
<1> HIDE DEF newcomers
<1>12. /\ new.starters = starters /\ new.bench = carried \o newcomers
       /\ new.bench \in Seq(Athletes) /\ Range(new.bench) = benched
  <2>1. carried \o newcomers \in Seq(Athletes) /\ Range(carried \o newcomers) = Range(carried) \cup Range(newcomers)
    BY <1>9, <1>11, Joined
  <2> QED
    BY <1>1, <1>9, <1>11, <2>1
<1>13. KeepsSlots(confirmed, new, locked)
  <2> SUFFICES ASSUME NEW a \in locked
               PROVE  IF Slot(confirmed, a) = "none" THEN Slot(new, a) # "starter"
                      ELSE Slot(new, a) = Slot(confirmed, a)
    BY DEF KeepsSlots
  <2>1. Slot(confirmed, a) \in {"none", "starter", "bench"}
    BY DEF Slot
  <2>2. a \in Range(new.starters) <=> Slot(confirmed, a) = "starter"
    BY <1>5, <1>6, <1>12
  <2>3. Slot(confirmed, a) # "starter" => a \in Range(new.bench)
    BY <1>8, <1>12
  <2>4. Slot(new, a) = IF a \in Range(new.starters) THEN "starter"
                       ELSE IF a \in Range(new.bench) THEN "bench" ELSE "none"
    BY DEF Slot
  <2> QED
    BY <2>1, <2>2, <2>3, <2>4
<1>14. KeepsBenchOrder(confirmed, new, locked)
  <2> DEFINE was == Range(Filled(confirmed.bench))
  <2> DEFINE is == Range(Filled(new.bench))
  <2>1. was = Range(confirmed.bench) \ {None} /\ is = benched
    <3>1. new.bench \in Places /\ None \notin Range(new.bench)
      BY <1>12, PlacesOfAthletes
    <3>2. is = Range(new.bench) \ {None}
      BY <3>1, FilledIs
    <3>3. was = Range(confirmed.bench) \ {None}
      BY FilledIs
    <3> QED
      BY <1>12, <3>1, <3>2, <3>3
  <2> HIDE DEF was, is
  <2>2. ASSUME NEW a \in locked \cap was \cap is, NEW b \in is
        PROVE  Before(new.bench, b, a) <=> Before(carried, b, a)
    <3>1. a \in Range(carried) /\ a \notin Range(newcomers)
      BY <1>9, <1>11, <2>1, <2>2
    <3>2. Before(carried \o newcomers, b, a) <=> Before(carried, b, a)
      BY <1>9, <1>11, <3>1, JoinedOrder, Zenon
    <3> QED
      BY <1>12, <3>2
  <2>3. ASSUME NEW a \in locked \cap was \cap is, NEW b \in was \cap is
        PROVE  Before(confirmed.bench, b, a) = Before(new.bench, b, a)
    <3>1. Before(confirmed.bench, b, a) <=> Before(new.bench, b, a)
      BY <1>10, <2>1, <2>2, <2>3
    <3>2. Before(confirmed.bench, b, a) \in BOOLEAN /\ Before(new.bench, b, a) \in BOOLEAN
      BY DEF Before
    <3> QED
      BY <3>1, <3>2
  <2>4. ASSUME NEW a \in locked \cap was \cap is, NEW b \in is \ was
        PROVE  ~Before(new.bench, b, a)
    <3>1. b \notin Range(carried)
      BY <1>7, <1>9, <2>1, <2>4
    <3>2. ~Before(carried, b, a)
      BY <1>9, <3>1 DEF Before, Range
    <3> QED
      BY <2>2, <2>4, <3>2
  <2>5. KeepsBenchOrder(confirmed, new, locked) <=>
          /\ \A a \in locked \cap was \cap is, b \in was \cap is :
               Before(confirmed.bench, b, a) = Before(new.bench, b, a)
          /\ \A a \in locked \cap was \cap is, b \in is \ was : ~Before(new.bench, b, a)
    BY DEF KeepsBenchOrder, was, is
  <2> QED
    BY <2>3, <2>4, <2>5
<1> QED
  BY <1>1, <1>2, <1>5, <1>6, <1>12, <1>13, <1>14


-----------------------------------------------------------------------------
(* The lock of a match *)

LEMMA SmallestOfTwo ==
  ASSUME NEW x \in Nat, NEW y \in Nat, NEW S, S \subseteq {x, y}, S # {}
  PROVE  Min(S) \in S
<1> DEFINE m == IF x \notin S THEN y ELSE IF y \notin S THEN x ELSE IF x <= y THEN x ELSE y
<1>1. m \in S /\ \A n \in S : m <= n
  <2>1. x \in S \/ y \in S
    OBVIOUS
  <2>2. m \in S
    BY <2>1
  <2>3. ASSUME NEW n \in S
        PROVE  m <= n
    BY <2>1, <2>3
  <2> QED
    BY <2>2, <2>3
<1> HIDE DEF m
<1> QED
  BY <1>1, Zenon DEF Min

LEMMA ReconcileType ==
  ASSUME NEW l \in Links, NEW match \in Matches, NEW at \in Nat
  PROVE  ReconcileLock(l, match, at) \in Links
<1> DEFINE elapsed == {t \in {l.observed} : Elapsed(t, at)}
                      \cup {t \in {match.kickoff} : match.status \notin Inactive /\ at >= t}
<1>1. l.observed \in Nat /\ match.kickoff \in Nat /\ l.latch \in Nat \cup {None}
  BY DEF Links, Matches
<1>2. elapsed \subseteq {l.observed, match.kickoff}
  OBVIOUS
<1>3. elapsed # {} => Min(elapsed) \in Nat
  BY <1>1, <1>2, SmallestOfTwo
<1> HIDE DEF elapsed
<1>4. ReconcileLock(l, match, at) =
        [observed |-> match.kickoff,
         latch |-> IF l.latch = None
                   THEN IF elapsed # {} THEN Min(elapsed)
                        ELSE IF match.status \in Started THEN match.kickoff ELSE None
                   ELSE l.latch]
  BY DEF ReconcileLock, elapsed
<1> QED
  BY <1>1, <1>3, <1>4 DEF Links

\* Who reads the matches later latches no instant before the one at which the
\* match could not lock.
LEMMA ReconcileKeepsUntouched ==
  ASSUME NEW l \in Links, NEW match \in Matches, NEW at \in Nat, NEW later \in Nat,
         Untouched(l, match, at)
  PROVE  Untouched(ReconcileLock(l, match, later), match, at)
<1> DEFINE elapsed == {t \in {l.observed} : Elapsed(t, later)}
                      \cup {t \in {match.kickoff} : match.status \notin Inactive /\ later >= t}
<1>1. l.observed \in Nat /\ match.kickoff \in Nat /\ l.latch \in Nat \cup {None}
  BY DEF Links, Matches
<1>2. elapsed \subseteq {l.observed, match.kickoff}
  OBVIOUS
<1>3. elapsed # {} => Min(elapsed) \in {l.observed, match.kickoff}
  BY <1>1, <1>2, SmallestOfTwo
<1> HIDE DEF elapsed
<1>4. ReconcileLock(l, match, later) =
        [observed |-> match.kickoff,
         latch |-> IF l.latch = None
                   THEN IF elapsed # {} THEN Min(elapsed)
                        ELSE IF match.status \in Started THEN match.kickoff ELSE None
                   ELSE l.latch]
  BY DEF ReconcileLock, elapsed
<1> QED
  BY <1>1, <1>3, <1>4 DEF Untouched

\* Who is not locked after the match was reconciled has a match that cannot
\* have locked before.
LEMMA UnlockedIsUntouched ==
  ASSUME NEW l \in Links, NEW match \in Matches, NEW at \in Nat,
         match.status = "PST" => match.kickoff = l.observed,
         ~KickoffLocked(match, ReconcileLock(l, match, at).latch # None, at)
  PROVE  Untouched(l, match, at) /\ Untouched(ReconcileLock(l, match, at), match, at)
<1> DEFINE elapsed == {t \in {l.observed} : Elapsed(t, at)}
                      \cup {t \in {match.kickoff} : match.status \notin Inactive /\ at >= t}
<1>1. /\ l.observed \in Nat /\ match.kickoff \in Nat /\ l.latch \in Nat \cup {None}
      /\ match.status \in {"NS", "LIVE", "FT", "PST"} /\ Margin \in Nat /\ None \notin Nat
  BY LineupsAssumption DEF Links, Matches
<1>2. elapsed # {} => Min(elapsed) \in Nat
  <2>1. elapsed \subseteq {l.observed, match.kickoff}
    OBVIOUS
  <2> QED
    BY <1>1, <2>1, SmallestOfTwo
<1>3. elapsed = {} => at < l.observed
  BY <1>1 DEF Elapsed
<1> HIDE DEF elapsed
<1>4. ReconcileLock(l, match, at).latch =
        IF l.latch = None
        THEN IF elapsed # {} THEN Min(elapsed)
             ELSE IF match.status \in Started THEN match.kickoff ELSE None
        ELSE l.latch
  BY DEF ReconcileLock, elapsed
<1>5. ReconcileLock(l, match, at).latch = None
  BY DEF KickoffLocked
<1>6. l.latch = None /\ elapsed = {}
  BY <1>1, <1>2, <1>4, <1>5
<1>7. at < match.kickoff
  BY <1>1, <1>3, <1>6 DEF KickoffLocked, Inactive
<1>8. Untouched(l, match, at)
  BY <1>3, <1>6, <1>7 DEF Untouched
<1> QED
  BY <1>8, ReconcileKeepsUntouched

-----------------------------------------------------------------------------
(* What the handlers write *)

LEMMA RosterType ==
  ASSUME LineupsTypeOK
  PROVE  Roster \in Seq(Athletes) /\ Range(Roster) \subseteq Athletes
<1>1. Rosters[rosterNo] \in Seq(Athletes)
  BY LineupsAssumption DEF LineupsTypeOK
<1> QED
  BY <1>1, InRange DEF Roster

LEMMA ReconcileLinksType ==
  ASSUME LineupsTypeOK
  PROVE  ReconcileLinks(now) \in [Fixtures -> Links]
<1>1. now \in Nat /\ \A f \in Fixtures : link[f] \in Links /\ fixture[f] \in Matches
  BY DEF LineupsTypeOK
<1>2. \A f \in Fixtures : ReconcileLock(link[f], fixture[f], now) \in Links
  BY <1>1, ReconcileType
<1> QED
  BY <1>2 DEF ReconcileLinks

LEMMA ConfirmedIs ==
  ASSUME LineupsTypeOK
  PROVE  Confirmed.starters \in Places /\ Confirmed.bench \in Places
<1>1. <<>> \in Places
  BY DEF Places
<1> QED
  BY <1>1 DEF LineupsTypeOK, IsSubmission, IsLineup, Confirmed, NoLineup

LEMMA LockedNowIs ==
  LockedNow = {a \in Range(Roster) :
                 KickoffLocked(fixture[FixtureOf[a]], ReconcileLinks(now)[FixtureOf[a]].latch # None, now)}
BY DEF LockedNow, LockedAthletes

\* What a draft that a handler accepts is like.
Lawful(lineup, source) ==
  /\ IsLineup(lineup) /\ Starters(lineup) \subseteq Range(Roster)
  /\ KeepsSlots(Confirmed, lineup, LockedNow)
  /\ source = "best" => KeepsBenchOrder(Confirmed, lineup, LockedNow)

LEMMA SavedDraftIs ==
  ASSUME LineupsTypeOK, NEW d \in Drafts, SaveDraft(d)
  PROVE  \E accepted : Drafting(d, "manual", accepted) /\ (accepted => Lawful(d, "manual"))
<1> DEFINE accepted == /\ ValidDraft(d, Range(Roster)) /\ KeepsSlots(Confirmed, d, LockedNow)
                       /\ KeepsBenchOrder(Confirmed, d, LockedNow)
<1>1. Drafting(d, "manual", accepted)
  BY DEF SaveDraft
<1>2. IsLineup(d)
  BY LineupsAssumption
<1>3. accepted => Starters(d) \subseteq Range(Roster)
  BY DEF ValidDraft, LineupAthletes, Starters
<1>4. accepted => Lawful(d, "manual")
  BY <1>2, <1>3 DEF Lawful
<1> QED
  BY <1>1, <1>4

\* A copy takes its starters from the roster.
LEMMA CopiedStarters ==
  ASSUME NEW previous, NEW roster, NEW locked, NEW confirmed
  PROVE  Starters(CopiedLineup(previous, roster, locked, confirmed)) \subseteq Range(roster)
<1> DEFINE taken(a) == a \in Range(roster) /\ (a \in locked => Slot(confirmed, a) = "starter")
<1> DEFINE starters == [i \in 1..StarterCount |->
                          IF i \in DOMAIN previous.starters /\ taken(previous.starters[i])
                          THEN previous.starters[i] ELSE None]
<1>1. CopiedLineup(previous, roster, locked, confirmed).starters = starters
  BY DEF CopiedLineup
<1>2. \A i \in 1..StarterCount : starters[i] \in Range(roster) \cup {None}
  BY Zenon
<1>3. DOMAIN starters = 1..StarterCount
  OBVIOUS
<1> HIDE DEF starters
<1> QED
  BY <1>1, <1>2, <1>3 DEF Starters, Range

LEMMA CopiedDraftIs ==
  ASSUME LineupsTypeOK, CopyPrevious
  PROVE  \E lineup, accepted : Drafting(lineup, "copied", accepted) /\ (accepted => Lawful(lineup, "copied"))
<1> DEFINE copy == CopiedLineup(Previous, Roster, LockedNow, Confirmed)
<1> DEFINE accepted == /\ Starters(copy) # {} /\ KeepsSlots(Confirmed, copy, LockedNow)
                       /\ KeepsBenchOrder(Confirmed, copy, LockedNow)
<1>1. Previous # None /\ Drafting(copy, "copied", accepted)
  BY DEF CopyPrevious
<1>2. IsLineup(copy) /\ Starters(copy) \subseteq Range(Roster)
  BY <1>1, LineupsAssumption, RosterType, CopiedIs, CopiedStarters
<1> HIDE DEF copy
<1>3. accepted => Lawful(copy, "copied")
  BY <1>2 DEF Lawful
<1> QED
  BY <1>1, <1>3

\* In any module the formula places the roster and moves nobody who is locked.
LEMMA BestPlanIs ==
  ASSUME LineupsTypeOK, NEW m \in DOMAIN Modules,
         NEW plan, plan = BestPlan(m, LockedNow),
         NEW lineup, lineup = [module |-> m, starters |-> plan.starters, bench |-> plan.bench]
  PROVE  plan.starters \in Seq(Athletes) /\ Lawful(lineup, "best")
<1> DEFINE locked == LockedNow
<1>1. /\ Roster \in Seq(Athletes) /\ Range(Roster) \subseteq Athletes /\ locked \subseteq Range(Roster)
      /\ Modules[m] \in [Roles -> Nat]
  BY RosterType, LockedNowIs, RulesAssumption
<1>2. /\ plan.starters \in Seq(Athletes) /\ plan.bench \in Seq(Athletes)
      /\ Range(plan.starters) \subseteq Range(Roster)
      /\ KeepsSlots(Confirmed, lineup, locked) /\ KeepsBenchOrder(Confirmed, lineup, locked)
  <2>1. CASE locked = {}
    <3> DEFINE pool == Range(Roster)
    <3> DEFINE targets == Modules[m]
    <3>1. pool \subseteq Athletes /\ \A r \in Roles : targets[r] \in Int
      BY <1>1
    <3>2. plan = Plan(pool, targets)
      BY <2>1 DEF BestPlan
    <3> HIDE DEF pool, targets
    <3>3. /\ plan.starters \in Seq(Athletes) /\ plan.bench \in Seq(Athletes)
          /\ Range(plan.starters) \subseteq pool
      BY <3>1, <3>2, PlanIs
    <3>4. KeepsSlots(Confirmed, lineup, {}) /\ KeepsBenchOrder(Confirmed, lineup, {})
      BY DEF KeepsSlots, KeepsBenchOrder
    <3> QED
      BY <2>1, <3>3, <3>4 DEF pool
  <2>2. CASE locked # {}
    <3> DEFINE targets == Modules[m]
    <3> DEFINE confirmed == Confirmed
    <3> DEFINE roster == Roster
    <3>1. plan = PlanAroundLocked(roster, targets, locked, confirmed)
      BY <2>2 DEF BestPlan
    <3>2. /\ roster \in Seq(Athletes) /\ targets \in [Roles -> Nat] /\ locked \subseteq Range(roster)
          /\ confirmed.starters \in Places /\ confirmed.bench \in Places
      BY <1>1, ConfirmedIs
    <3> HIDE DEF targets, confirmed, roster, locked
    <3>3. /\ plan.starters \in Seq(Athletes) /\ plan.bench \in Seq(Athletes)
          /\ Range(plan.starters) \subseteq Range(roster)
          /\ KeepsSlots(confirmed, lineup, locked) /\ KeepsBenchOrder(confirmed, lineup, locked)
      BY <3>1, <3>2, AroundLockedIs
    <3> QED
      BY <3>3 DEF confirmed, roster
  <2> QED
    BY <2>1, <2>2
<1>3. plan.starters \in Places /\ plan.bench \in Places
  BY <1>2, PlacesOfAthletes
<1>4. IsLineup(lineup)
  BY <1>3 DEF IsLineup
<1>5. Starters(lineup) \subseteq Range(Roster)
  BY <1>2 DEF Starters
<1> QED
  BY <1>2, <1>4, <1>5 DEF Lawful

LEMMA BestDraftIs ==
  ASSUME LineupsTypeOK, NEW best \in BOOLEAN, ApplyBest(best)
  PROVE  \E lineup, accepted : Drafting(lineup, "best", accepted) /\ (accepted => Lawful(lineup, "best"))
<1> DEFINE locked == LockedNow
<1> DEFINE current == IF submission # None THEN submission.lineup.module
                      ELSE IF draft # None THEN draft.lineup.module ELSE 1
<1> DEFINE plans == [m \in DOMAIN Modules |-> BestPlan(m, locked)]
<1> DEFINE chosen == IF best THEN BestModule(plans, locked, current) ELSE current
<1> DEFINE plan == BestPlan(chosen, locked)
<1> DEFINE lineup == [module |-> chosen, starters |-> plan.starters, bench |-> plan.bench]
<1>1. Drafting(lineup, "best", plan.complete)
  BY DEF ApplyBest
<1>2. current \in DOMAIN Modules
  <2>1. 1 \in DOMAIN Modules
    BY RulesAssumption
  <2> QED
    BY <2>1 DEF LineupsTypeOK, IsSubmission, IsLineup
<1> HIDE DEF current
<1>3. DOMAIN plans = DOMAIN Modules /\ \A m \in DOMAIN Modules : plans[m].starters \in Seq(Athletes)
  <2>1. ASSUME NEW m \in DOMAIN Modules
        PROVE  BestPlan(m, locked).starters \in Seq(Athletes)
    BY BestPlanIs
  <2>2. DOMAIN plans = DOMAIN Modules /\ \A m \in DOMAIN Modules : plans[m] = BestPlan(m, locked)
    OBVIOUS
  <2> HIDE DEF plans
  <2> QED
    BY <2>1, <2>2
<1> HIDE DEF plans
<1>4. chosen \in DOMAIN Modules
  <2>1. BestModule(plans, locked, current) \in DOMAIN Modules
    BY <1>2, <1>3, BestModuleIs
  <2> QED
    BY <1>2, <2>1
<1> HIDE DEF chosen
<1>5. Lawful(lineup, "best")
  BY <1>4, BestPlanIs
<1> QED
  BY <1>1, <1>5

\* A step of the handlers of drafts.
DraftStep == CopyPrevious \/ (\E d \in Drafts : SaveDraft(d)) \/ \E best \in BOOLEAN : ApplyBest(best)

LEMMA DraftsAre ==
  ASSUME LineupsTypeOK, DraftStep
  PROVE  \E lineup, source, accepted :
           Drafting(lineup, source, accepted) /\ (accepted => Lawful(lineup, source))
<1>1. CASE CopyPrevious
  BY <1>1, CopiedDraftIs
<1>2. CASE \E d \in Drafts : SaveDraft(d)
  BY <1>2, SavedDraftIs
<1>3. CASE \E best \in BOOLEAN : ApplyBest(best)
  BY <1>3, BestDraftIs
<1> QED
  BY <1>1, <1>2, <1>3 DEF DraftStep

-----------------------------------------------------------------------------
(* What a step leaves alone *)

\* Every action in one list, for the proofs that go through them.
LEMMA LineupsSteps ==
  ASSUME LineupsNext
  PROVE  \/ Tick \/ ReadLineup \/ FinishSave \/ Calculate \/ ChangeRoster \/ GenerateAi \/ DraftStep
         \/ \E f \in Fixtures : KickOff(f) \/ FinalWhistle(f) \/ Postpone(f) \/ Reschedule(f)
         \/ \E by \in Actors, p \in Proposals : BeginSave(by, p)
BY DEF LineupsNext, DraftStep

-----------------------------------------------------------------------------
(* The invariants hold initially and in every step *)

LEMMA LocksInitially ==
  ASSUME LineupsInit
  PROVE  LocksInv
<1>1. LineupsTypeOK
  <2>1. 1 \in 1..Len(Rosters)
    BY LineupsAssumption
  <2>2. /\ fixture \in [Fixtures -> Matches] /\ link \in [Fixtures -> Links]
        /\ now = 0 /\ rosterNo = 1 /\ moved = FALSE /\ ai \in BOOLEAN
        /\ submission = None /\ draft = None /\ request = None
    BY LineupsAssumption DEF LineupsInit, Links, Matches
  <2> QED
    BY <2>1, <2>2 DEF LineupsTypeOK
<1>2. AsPublished
  BY DEF LineupsInit, AsPublished
<1>3. ManagersAreHuman /\ SaveIsFresh /\ DraftIsFresh
  BY DEF LineupsInit, ManagersAreHuman, SaveIsFresh, DraftIsFresh
<1> QED
  BY <1>1, <1>2, <1>3 DEF LocksInv

\* The matches, their clock and the roster.
WorldType ==
  /\ now \in Nat /\ rosterNo \in 1..Len(Rosters) /\ moved \in BOOLEAN /\ ai \in BOOLEAN
  /\ fixture \in [Fixtures -> Matches]

LEMMA WorldTypeKept ==
  ASSUME LineupsTypeOK, LineupsNext
  PROVE  WorldType' /\ now <= now'
<1>1. /\ now \in Nat /\ rosterNo \in 1..Len(Rosters) /\ moved \in BOOLEAN /\ ai \in BOOLEAN
      /\ fixture \in [Fixtures -> Matches] /\ Len(Rosters) \in Nat
  BY LineupsAssumption DEF LineupsTypeOK
<1>2. ASSUME UNCHANGED world
      PROVE  WorldType' /\ now <= now'
  BY <1>1, <1>2 DEF world, WorldType
<1>3. CASE Tick
  BY <1>1, <1>3 DEF Tick, WorldType
<1>4. CASE ReadLineup \/ FinishSave \/ Calculate \/ GenerateAi
  BY <1>2, <1>4 DEF ReadLineup, FinishSave, Calculate, GenerateAi
<1>5. CASE ChangeRoster
  BY <1>1, <1>5 DEF ChangeRoster, WorldType
<1>6. CASE DraftStep
  <2>1. \E lineup, source, accepted : Drafting(lineup, source, accepted)
    BY <1>6, DraftsAre
  <2> QED
    BY <1>2, <2>1 DEF Drafting
<1>7. ASSUME NEW f \in Fixtures, KickOff(f) \/ FinalWhistle(f) \/ Postpone(f) \/ Reschedule(f)
      PROVE  WorldType' /\ now <= now'
  <2>1. PICK row : /\ row \in Matches /\ fixture' = [fixture EXCEPT ![f] = row]
                   /\ moved' \in BOOLEAN /\ UNCHANGED <<now, rosterNo, ai>>
    <3>1. \A t \in Kickoffs : t \in Nat
      BY LineupsAssumption
    <3>2. fixture[f] \in Matches
      BY <1>1
    <3>3. CASE KickOff(f)
      <4>1. [fixture[f] EXCEPT !.status = "LIVE"] \in Matches
        BY <3>2 DEF Matches
      <4> QED
        BY <1>1, <3>3, <4>1 DEF KickOff, Provider
    <3>4. CASE FinalWhistle(f)
      <4>1. [fixture[f] EXCEPT !.status = "FT"] \in Matches
        BY <3>2 DEF Matches
      <4> QED
        BY <1>1, <3>4, <4>1 DEF FinalWhistle, Provider
    <3>5. CASE Postpone(f)
      <4>1. [fixture[f] EXCEPT !.status = "PST"] \in Matches
        BY <3>2 DEF Matches
      <4> QED
        BY <3>5, <4>1 DEF Postpone, Provider
    <3>6. CASE Reschedule(f)
      <4>1. PICK t \in Kickoffs : Provider(f, [fixture[f] EXCEPT !.status = "NS", !.kickoff = t])
        BY <3>6 DEF Reschedule
      <4>2. [fixture[f] EXCEPT !.status = "NS", !.kickoff = t] \in Matches
        BY <3>1, <3>2 DEF Matches
      <4> QED
        BY <3>6, <4>1, <4>2 DEF Reschedule, Provider
    <3> QED
      BY <1>7, <3>3, <3>4, <3>5, <3>6
  <2> QED
    BY <1>1, <2>1 DEF WorldType
<1>8. CASE \E by \in Actors, p \in Proposals : BeginSave(by, p)
  BY <1>2, <1>8 DEF BeginSave
<1> QED
  BY <1>3, <1>4, <1>5, <1>6, <1>7, <1>8, LineupsSteps

\* What is written to the links is the state that somebody reconciled.
LEMMA LinksKept ==
  ASSUME LineupsTypeOK, LineupsNext
  PROVE  \/ link' = link
         \/ link' = ReconcileLinks(now) /\ UNCHANGED <<request, fixture>>
         \/ /\ FinishSave /\ request # None /\ request' = None /\ UNCHANGED fixture
            /\ link' = [f \in Fixtures |-> Merged(link[f], request.loaded[f], request.links[f])]
<1>1. CASE ReadLineup
  BY <1>1 DEF ReadLineup, world
<1>2. CASE FinishSave
  BY <1>2 DEF FinishSave, world
<1>3. CASE DraftStep
  <2>1. \E lineup, source, accepted : Drafting(lineup, source, accepted)
    BY <1>3, DraftsAre
  <2> QED
    BY <2>1 DEF Drafting, world
<1>4. CASE Tick \/ ChangeRoster
  BY <1>4 DEF Tick, ChangeRoster, lineupTables
<1>5. CASE Calculate \/ GenerateAi
  BY <1>5 DEF Calculate, GenerateAi
<1>6. CASE \E f \in Fixtures : KickOff(f) \/ FinalWhistle(f) \/ Postpone(f) \/ Reschedule(f)
  BY <1>6 DEF KickOff, FinalWhistle, Postpone, Reschedule, Provider, lineupTables
<1>7. CASE \E by \in Actors, p \in Proposals : BeginSave(by, p)
  BY <1>7 DEF BeginSave
<1> QED
  BY <1>1, <1>2, <1>3, <1>4, <1>5, <1>6, <1>7, LineupsSteps

LEMMA LinksTypeKept ==
  ASSUME LineupsTypeOK, LineupsNext
  PROVE  link' \in [Fixtures -> Links]
<1>1. link \in [Fixtures -> Links] /\ ReconcileLinks(now) \in [Fixtures -> Links]
  BY ReconcileLinksType DEF LineupsTypeOK
<1>2. ASSUME request # None, link' = [f \in Fixtures |-> Merged(link[f], request.loaded[f], request.links[f])]
      PROVE  link' \in [Fixtures -> Links]
  <2>1. ASSUME NEW f \in Fixtures
        PROVE  Merged(link[f], request.loaded[f], request.links[f]) \in Links
    <3>1. link[f] \in Links /\ request.links[f] \in Links
      BY <1>1, <1>2 DEF LineupsTypeOK, IsRequest
    <3> QED
      BY <3>1 DEF Merged, Links
  <2> QED
    BY <1>2, <2>1
<1> QED
  BY <1>1, <1>2, LinksKept

\* Somebody begins a save, or the one under way goes on, or none is.
LEMMA RequestKept ==
  ASSUME LineupsTypeOK, LineupsNext, request' # None
  PROVE  \/ request' = request
         \/ \E by \in Actors, p \in Proposals : BeginSave(by, p)
<1>1. CASE ReadLineup \/ Calculate \/ GenerateAi
  BY <1>1 DEF ReadLineup, Calculate, GenerateAi
<1>2. CASE FinishSave
  BY <1>2 DEF FinishSave
<1>3. CASE DraftStep
  <2>1. \E lineup, source, accepted : Drafting(lineup, source, accepted)
    BY <1>3, DraftsAre
  <2> QED
    BY <2>1 DEF Drafting
<1>4. CASE Tick \/ ChangeRoster
  BY <1>4 DEF Tick, ChangeRoster, lineupTables
<1>5. CASE \E f \in Fixtures : KickOff(f) \/ FinalWhistle(f) \/ Postpone(f) \/ Reschedule(f)
  BY <1>5 DEF KickOff, FinalWhistle, Postpone, Reschedule, Provider, lineupTables
<1> QED
  BY <1>1, <1>2, <1>3, <1>4, <1>5, LineupsSteps

\* Who acts for a team.
LEMMA ActorsAre ==
  ASSUME NEW by \in Actors
  PROVE  by \in {"manager", "operator"} /\ (ai => by = "operator")
BY DEF Actors

LEMMA RequestTypeKept ==
  ASSUME LineupsTypeOK, LineupsNext, request' # None
  PROVE  IsRequest(request)'
<1>1. CASE request' = request
  <2>1. IsRequest(request) /\ now \in Nat /\ now' \in Nat /\ now <= now'
    BY <1>1, WorldTypeKept DEF LineupsTypeOK, WorldType
  <2>2. request.at \in Nat /\ request.at <= now
    BY <2>1 DEF IsRequest
  <2> QED
    BY <1>1, <2>1, <2>2 DEF IsRequest
<1>2. ASSUME NEW by \in Actors, NEW p \in Proposals, BeginSave(by, p)
      PROVE  IsRequest(request)'
  <2>1. /\ request' = [at |-> now, by |-> by, lineup |-> p, roster |-> Range(Roster),
                       locked |-> LockedAthletes(by, fixture, ReconcileLinks(now), now),
                       loaded |-> link, links |-> ReconcileLinks(now)]
        /\ now' = now
    BY <1>2 DEF BeginSave, world
  <2>2. IsLineup(p) /\ by \in {"manager", "operator"}
    BY LineupsAssumption, ActorsAre
  <2>3. link \in [Fixtures -> Links] /\ ReconcileLinks(now) \in [Fixtures -> Links] /\ now \in Nat
    BY ReconcileLinksType DEF LineupsTypeOK
  <2> QED
    BY <2>1, <2>2, <2>3 DEF IsRequest, IsLineup
<1> QED
  BY <1>1, <1>2, RequestKept

\* A draft is written by its handlers, and removed by a save.
LEMMA DraftKept ==
  ASSUME LineupsTypeOK, LineupsNext, draft' # None, draft' # draft
  PROVE  \E lineup, source, accepted :
           Drafting(lineup, source, accepted) /\ accepted /\ Lawful(lineup, source)
<1>1. CASE ReadLineup \/ Calculate \/ GenerateAi
  BY <1>1 DEF ReadLineup, Calculate, GenerateAi
<1>2. CASE FinishSave
  BY <1>2 DEF FinishSave
<1>3. CASE DraftStep
  <2>1. PICK lineup, source, accepted :
          Drafting(lineup, source, accepted) /\ (accepted => Lawful(lineup, source))
    BY <1>3, DraftsAre
  <2>2. accepted
    BY <2>1 DEF Drafting
  <2> QED
    BY <2>1, <2>2
<1>4. CASE Tick \/ ChangeRoster
  BY <1>4 DEF Tick, ChangeRoster, lineupTables
<1>5. CASE \E f \in Fixtures : KickOff(f) \/ FinalWhistle(f) \/ Postpone(f) \/ Reschedule(f)
  BY <1>5 DEF KickOff, FinalWhistle, Postpone, Reschedule, Provider, lineupTables
<1>6. CASE \E by \in Actors, p \in Proposals : BeginSave(by, p)
  BY <1>6 DEF BeginSave
<1> QED
  BY <1>1, <1>2, <1>3, <1>4, <1>5, <1>6, LineupsSteps

-----------------------------------------------------------------------------
(* What is submitted *)

\* A legal line-up gives every athlete one place.
LEMMA LegalIsFielded ==
  ASSUME NEW lineup, IsLineup(lineup), NEW roster, ValidLineup(lineup, roster)
  PROVE  Fielded(lineup)
<1> DEFINE s == lineup.starters
<1> DEFINE b == lineup.bench
<1>1. s \in Seq(Athletes \cup {None}) /\ b \in Seq(Athletes \cup {None})
  BY DEF IsLineup, Places
<1>2. /\ None \notin Range(s) /\ None \notin Range(b)
      /\ Cardinality(LineupAthletes(lineup)) = Len(Filled(s)) + Len(Filled(b))
      /\ LineupAthletes(lineup) = (Range(s) \cup Range(b)) \ {None}
  BY DEF ValidLineup, Distinct, LineupAthletes
<1> HIDE DEF s, b
<1>3. ASSUME NEW t \in Seq(Athletes \cup {None}), None \notin Range(t)
      PROVE  t \in Seq(Athletes) /\ Len(Filled(t)) = Len(t)
  <2>1. Range(t) \subseteq Athletes
    BY <1>3, InRange
  <2>2. t \in Seq(Athletes)
    BY <1>3, <2>1, RetypeSeq
  <2> DEFINE S == Range(t) \ {None}
  <2>3. Len(Kept(t, S)) = Cardinality({i \in 1..Len(t) : t[i] \in S})
    <3> HIDE DEF S
    <3> QED
      BY <1>3, KeptIs
  <2>4. {i \in 1..Len(t) : t[i] \in S} = 1..Len(t)
    BY <1>3, InRange
  <2>5. Cardinality(1..Len(t)) = Len(t)
    <3>1. Len(t) \in Nat
      BY <1>3
    <3> QED
      BY <3>1, Counting
  <2> QED
    BY <2>2, <2>3, <2>4, <2>5 DEF Filled
<1>4. /\ s \in Seq(Athletes) /\ b \in Seq(Athletes)
      /\ Cardinality(Range(s) \cup Range(b)) = Len(s) + Len(b)
  <2>1. /\ s \in Seq(Athletes) /\ b \in Seq(Athletes)
        /\ Len(Filled(s)) = Len(s) /\ Len(Filled(b)) = Len(b)
    BY <1>1, <1>2, <1>3
  <2>2. LineupAthletes(lineup) = Range(s) \cup Range(b)
    BY <1>2
  <2> QED
    BY <1>2, <2>1, <2>2
<1> DEFINE all == s \o b
<1> DEFINE n == Len(s) + Len(b)
<1>5. /\ Len(s) \in Nat /\ Len(b) \in Nat /\ n \in Nat /\ all \in Seq(Athletes) /\ Len(all) = n
      /\ \A i \in 1..n : all[i] = IF i <= Len(s) THEN s[i] ELSE b[i - Len(s)]
      /\ Range(all) = Range(s) \cup Range(b)
  BY <1>4, ConcatProperties, RangeConcatenation
<1> HIDE DEF all
<1>6. \A i, j \in 1..n : all[i] = all[j] => i = j
  <2>1. all \in Surjection(1..n, Range(all))
    <3>1. all \in [1..n -> Range(all)]
      BY <1>5, InRange
    <3> QED
      BY <1>5, <3>1, InRange DEF Surjection
  <2>2. IsFiniteSet(1..n) /\ Cardinality(1..n) = n
    BY <1>5, Counting
  <2>3. Cardinality(Range(all)) = Cardinality(1..n)
    BY <1>4, <1>5, <2>2
  <2>4. all \in Injection(1..n, Range(all))
    BY <2>1, <2>2, <2>3, FS_Surjection
  <2> QED
    BY <2>4 DEF Injection, IsInjective
<1>7. DOMAIN s = 1..Len(s) /\ DOMAIN b = 1..Len(b)
  BY <1>4
<1>8. \A i \in 1..Len(s) : i \in 1..n /\ all[i] = s[i]
  BY <1>5
<1>9. \A i \in 1..Len(b) : Len(s) + i \in 1..n /\ all[Len(s) + i] = b[i]
  BY <1>5
<1> HIDE DEF n
<1>10. Injective(s)
  BY <1>6, <1>7, <1>8 DEF Injective
<1>11. Injective(b)
  <2> SUFFICES ASSUME NEW i \in 1..Len(b), NEW j \in 1..Len(b), b[i] = b[j]
               PROVE  i = j
    BY <1>7 DEF Injective
  <2>1. Len(s) + i = Len(s) + j
    BY <1>6, <1>9
  <2> QED
    BY <1>5, <2>1
<1>12. Range(s) \cap Range(b) = {}
  <2> SUFFICES ASSUME NEW i \in 1..Len(s), NEW j \in 1..Len(b), s[i] = b[j]
               PROVE  FALSE
    BY <1>4, InRange
  <2>1. i = Len(s) + j
    BY <1>6, <1>8, <1>9
  <2> QED
    BY <1>5, <2>1
<1> QED
  BY <1>4, <1>10, <1>11, <1>12 DEF Fielded, s, b

LEMMA WithoutHolesIs ==
  ASSUME NEW lineup, IsLineup(lineup)
  PROVE  IsLineup(WithoutHoles(lineup)) /\ Starters(WithoutHoles(lineup)) = Starters(lineup)
<1> DEFINE s == lineup.starters
<1> DEFINE b == lineup.bench
<1>1. /\ s \in Places /\ b \in Places /\ lineup.module \in DOMAIN Modules
      /\ lineup = [module |-> lineup.module, starters |-> s, bench |-> b]
  BY DEF IsLineup
<1>2. WithoutHoles(lineup) = [lineup EXCEPT !.starters = Filled(s), !.bench = Filled(b)]
  BY DEF WithoutHoles
<1> HIDE DEF s, b
<1>6. WithoutHoles(lineup) = [module |-> lineup.module, starters |-> Filled(s), bench |-> Filled(b)]
  BY <1>1, <1>2
<1>3. /\ Filled(s) \in Places /\ Filled(b) \in Places
      /\ Range(Filled(s)) = Range(s) \ {None}
  BY <1>1, FilledIs, PlacesOfAthletes
<1>4. IsLineup(WithoutHoles(lineup))
  BY <1>1, <1>3, <1>6 DEF IsLineup
<1>5. Starters(WithoutHoles(lineup)) = Range(s) \ {None}
  BY <1>3, <1>6 DEF Starters
<1> QED
  BY <1>4, <1>5 DEF Starters, s

LEMMA FallbackIs ==
  ASSUME LineupsTypeOK
  PROVE  /\ IsSubmission(Fallback) /\ Fielded(Fallback.lineup) /\ Fallback.by = "system"
         /\ Fallback.source = "draft" =>
              draft # None /\ Starters(Fallback.lineup) = Starters(draft.lineup)
<1> DEFINE submit(lineup, source) == [lineup |-> lineup, at |-> now, by |-> "system", revision |-> 1,
                                      moves |-> 0, source |-> source, ai |-> FALSE]
<1> DEFINE drafted == WithoutHoles(draft.lineup)
<1> DEFINE copy == CopiedLineup(Previous, Roster, {}, NoLineup)
<1> DEFINE nothing == [NoLineup EXCEPT !.module = 1]
<1> DEFINE confirms == draft # None /\ ValidLineup(drafted, Range(Roster))
<1> DEFINE copies == Previous # None /\ ValidLineup(copy, Range(Roster))
<1>1. Fallback = IF confirms THEN submit(drafted, "draft")
                 ELSE IF copies THEN submit(copy, "previous_round") ELSE submit(nothing, "zero_fallback")
  BY DEF Fallback
<1>2. now \in Nat
  BY DEF LineupsTypeOK
<1>3. ASSUME NEW lineup, NEW source, IsLineup(lineup), Fielded(lineup)
      PROVE  IsSubmission(submit(lineup, source)) /\ submit(lineup, source).by = "system"
  BY <1>2, <1>3 DEF IsSubmission
<1>4. ASSUME confirms
      PROVE  IsLineup(drafted) /\ Fielded(drafted) /\ Starters(drafted) = Starters(draft.lineup)
  <2>1. IsLineup(draft.lineup)
    BY <1>4 DEF LineupsTypeOK
  <2> QED
    BY <1>4, <2>1, WithoutHolesIs, LegalIsFielded
<1>5. ASSUME copies
      PROVE  IsLineup(copy) /\ Fielded(copy)
  <2>1. IsLineup(copy)
    BY <1>5, LineupsAssumption, RosterType, CopiedIs
  <2> QED
    BY <1>5, <2>1, LegalIsFielded
<1>6. IsLineup(nothing) /\ Fielded(nothing)
  <2>1. nothing = [module |-> 1, starters |-> <<>>, bench |-> <<>>] /\ 1 \in DOMAIN Modules
    <3>1. 1 \in DOMAIN Modules
      BY RulesAssumption
    <3> QED
      BY <3>1 DEF NoLineup
  <2>2. <<>> \in Places /\ <<>> \in Seq(Athletes) /\ DOMAIN <<>> = {} /\ Range(<<>>) = {}
    BY DEF Places, Range
  <2> HIDE DEF nothing
  <2> QED
    BY <2>1, <2>2 DEF IsLineup, Fielded, Injective
<1> HIDE DEF drafted, copy, nothing
<1>7. CASE confirms
  BY <1>1, <1>3, <1>4, <1>7
<1>8. CASE ~confirms /\ copies
  BY <1>1, <1>3, <1>5, <1>8
<1>9. CASE ~confirms /\ ~copies
  BY <1>1, <1>3, <1>6, <1>9
<1> QED
  BY <1>7, <1>8, <1>9

\* A submission is written by a save, by the AI and by the calculation.
LEMMA SubmissionKept ==
  ASSUME LineupsTypeOK, LineupsNext
  PROVE  submission' = submission \/ FinishSave \/ Calculate \/ GenerateAi
<1>1. CASE ReadLineup
  BY <1>1 DEF ReadLineup
<1>2. CASE DraftStep
  <2>1. \E lineup, source, accepted : Drafting(lineup, source, accepted)
    BY <1>2, DraftsAre
  <2> QED
    BY <2>1 DEF Drafting
<1>3. CASE Tick \/ ChangeRoster
  BY <1>3 DEF Tick, ChangeRoster, lineupTables
<1>4. CASE \E f \in Fixtures : KickOff(f) \/ FinalWhistle(f) \/ Postpone(f) \/ Reschedule(f)
  BY <1>4 DEF KickOff, FinalWhistle, Postpone, Reschedule, Provider, lineupTables
<1>5. CASE \E by \in Actors, p \in Proposals : BeginSave(by, p)
  BY <1>5 DEF BeginSave
<1> QED
  BY <1>1, <1>2, <1>3, <1>4, <1>5, LineupsSteps

\* What a save accepted writes.
LEMMA SaveWrites ==
  ASSUME LineupsTypeOK, FinishSave, submission' # submission
  PROVE  /\ request # None /\ ValidLineup(request.lineup, request.roster)
         /\ KeepsSlots(Confirmed, request.lineup, request.locked)
         /\ submission'.lineup = request.lineup /\ submission'.at = request.at
         /\ submission'.by = request.by
         /\ submission = None => submission'.source = "manual"
         /\ IsSubmission(submission)'
<1> DEFINE r == request
<1> DEFINE consumes == Changed(r.lineup) /\ r.locked # {}
<1>1. /\ request # None /\ Acceptable(r, consumes)
      /\ submission' = IF submission = None
                       THEN [lineup |-> r.lineup, at |-> r.at, by |-> r.by, revision |-> 1,
                             moves |-> 0, source |-> "manual", ai |-> FALSE]
                       ELSE [submission EXCEPT !.lineup = r.lineup, !.at = r.at, !.by = r.by,
                               !.revision = @ + 1, !.moves = IF consumes THEN @ + 1 ELSE @]
  BY DEF FinishSave
<1>2. IsRequest(r)
  BY <1>1 DEF LineupsTypeOK
<1>3. IsLineup(r.lineup) /\ r.at \in Nat
  BY <1>2 DEF IsRequest
<1>4. ValidLineup(r.lineup, r.roster) /\ KeepsSlots(Confirmed, r.lineup, r.locked)
  BY <1>1 DEF Acceptable
<1> HIDE DEF consumes
<1>5. CASE submission = None
  <2>1. submission' = [lineup |-> r.lineup, at |-> r.at, by |-> r.by, revision |-> 1,
                       moves |-> 0, source |-> "manual", ai |-> FALSE]
    BY <1>1, <1>5
  <2>2. IsSubmission(submission)'
    BY <1>3, <2>1 DEF IsSubmission
  <2> QED
    BY <1>1, <1>4, <2>1, <2>2
<1>6. CASE submission # None
  <2>1. IsSubmission(submission)
    BY <1>6 DEF LineupsTypeOK
  <2>2. submission' = [lineup |-> r.lineup, at |-> r.at, by |-> r.by, revision |-> submission.revision + 1,
                       moves |-> IF consumes THEN submission.moves + 1 ELSE submission.moves,
                       source |-> submission.source, ai |-> submission.ai]
    BY <1>1, <1>6, <2>1 DEF IsSubmission
  <2> QED
    BY <1>1, <1>3, <1>4, <1>6, <2>2 DEF IsSubmission
<1> QED
  BY <1>5, <1>6

\* What the AI writes.
LEMMA AiWrites ==
  ASSUME LineupsTypeOK, GenerateAi
  PROVE  /\ ai /\ ValidLineup(submission'.lineup, Range(Roster))
         /\ submission'.by = IF submission = None THEN "ai" ELSE submission.by
         /\ submission = None => submission'.source = "manual"
         /\ IsSubmission(submission)'
<1> DEFINE plan == Plan(Range(Roster), Modules[1])
<1> DEFINE lineup == [module |-> 1, starters |-> plan.starters, bench |-> plan.bench]
<1>1. /\ ai /\ ValidLineup(lineup, Range(Roster))
      /\ submission' =
           IF submission = None
           THEN [lineup |-> lineup, at |-> now, by |-> "ai", revision |-> 1, moves |-> 0,
                 source |-> "manual", ai |-> TRUE]
           ELSE [submission EXCEPT !.lineup = lineup, !.at = now, !.revision = @ + 1]
  BY DEF GenerateAi
<1>2. IsLineup(lineup)
  <2> DEFINE pool == Range(Roster)
  <2> DEFINE targets == Modules[1]
  <2>1. 1 \in DOMAIN Modules /\ pool \subseteq Athletes /\ \A r \in Roles : targets[r] \in Int
    BY RulesAssumption, RosterType
  <2> HIDE DEF pool, targets
  <2>2. Plan(pool, targets).starters \in Seq(Athletes) /\ Plan(pool, targets).bench \in Seq(Athletes)
    BY <2>1, PlanIs
  <2>3. plan.starters \in Places /\ plan.bench \in Places
    BY <2>2, PlacesOfAthletes DEF pool, targets
  <2> QED
    BY <2>1, <2>3 DEF IsLineup
<1> HIDE DEF lineup
<1>3. now \in Nat
  BY DEF LineupsTypeOK
<1>4. CASE submission = None
  <2>1. submission' = [lineup |-> lineup, at |-> now, by |-> "ai", revision |-> 1, moves |-> 0,
                       source |-> "manual", ai |-> TRUE]
    BY <1>1, <1>4
  <2> QED
    BY <1>1, <1>2, <1>3, <1>4, <2>1 DEF IsSubmission
<1>5. CASE submission # None
  <2>1. IsSubmission(submission)
    BY <1>5 DEF LineupsTypeOK
  <2>2. submission' = [lineup |-> lineup, at |-> now, by |-> submission.by,
                       revision |-> submission.revision + 1,
                       moves |-> submission.moves, source |-> submission.source, ai |-> submission.ai]
    BY <1>1, <1>5, <2>1 DEF IsSubmission
  <2> QED
    BY <1>1, <1>2, <1>3, <1>5, <2>2 DEF IsSubmission
<1> QED
  BY <1>4, <1>5

LEMMA SubmissionTypeKept ==
  ASSUME LineupsTypeOK, LineupsNext, submission' # submission
  PROVE  IsSubmission(submission)' /\ Fielded(submission'.lineup)
<1>1. CASE FinishSave
  <2>1. IsLineup(submission'.lineup) /\ ValidLineup(submission'.lineup, request.roster)
        /\ IsSubmission(submission)'
    BY <1>1, SaveWrites DEF IsSubmission
  <2> QED
    BY <2>1, LegalIsFielded
<1>2. CASE Calculate
  BY <1>2, FallbackIs DEF Calculate, IsSubmission, IsLineup, Fielded
<1>3. CASE GenerateAi
  <2>1. IsLineup(submission'.lineup) /\ ValidLineup(submission'.lineup, Range(Roster))
        /\ IsSubmission(submission)'
    BY <1>3, AiWrites DEF IsSubmission
  <2> QED
    BY <2>1, LegalIsFielded
<1> QED
  BY <1>1, <1>2, <1>3, SubmissionKept

LEMMA LineupsTypeKept ==
  ASSUME LineupsTypeOK, LineupsNext
  PROVE  LineupsTypeOK'
<1>1. WorldType' /\ now <= now' /\ link' \in [Fixtures -> Links]
  BY WorldTypeKept, LinksTypeKept
<1>2. submission' # None => IsSubmission(submission)'
  BY SubmissionTypeKept DEF LineupsTypeOK, IsSubmission, IsLineup
<1>3. request' # None => IsRequest(request)'
  BY RequestTypeKept
<1>4. ASSUME draft' # None
      PROVE  IsLineup(draft'.lineup) /\ draft'.at \in Nat /\ draft'.at <= now'
  <2>1. CASE draft' = draft
    <3>1. /\ IsLineup(draft.lineup) /\ draft.at \in Nat /\ draft.at <= now
          /\ now \in Nat /\ now' \in Nat /\ now <= now'
      BY <1>1, <1>4, <2>1 DEF LineupsTypeOK, WorldType
    <3> QED
      BY <2>1, <3>1
  <2>2. CASE draft' # draft
    <3>1. PICK lineup, source, accepted :
            Drafting(lineup, source, accepted) /\ accepted /\ Lawful(lineup, source)
      BY <1>4, <2>2, DraftKept
    <3>2. draft' = [lineup |-> lineup, at |-> now, source |-> source] /\ now' = now /\ now \in Nat
      BY <3>1 DEF Drafting, world, LineupsTypeOK
    <3>3. IsLineup(lineup)
      BY <3>1 DEF Lawful
    <3> QED
      BY <3>2, <3>3
  <2> QED
    BY <2>1, <2>2
<1> QED
  BY <1>1, <1>2, <1>3, <1>4 DEF LineupsTypeOK, WorldType

\* Whether a team is the AI's does not change.
LEMMA AiKept ==
  ASSUME LineupsTypeOK, LineupsNext
  PROVE  ai' = ai
<1>1. CASE ReadLineup \/ FinishSave \/ Calculate \/ GenerateAi
  BY <1>1 DEF ReadLineup, FinishSave, Calculate, GenerateAi, world
<1>2. CASE DraftStep
  <2>1. \E lineup, source, accepted : Drafting(lineup, source, accepted)
    BY <1>2, DraftsAre
  <2> QED
    BY <2>1 DEF Drafting, world
<1>3. CASE Tick \/ ChangeRoster
  BY <1>3 DEF Tick, ChangeRoster
<1>4. CASE \E f \in Fixtures : KickOff(f) \/ FinalWhistle(f) \/ Postpone(f) \/ Reschedule(f)
  BY <1>4 DEF KickOff, FinalWhistle, Postpone, Reschedule, Provider
<1>5. CASE \E by \in Actors, p \in Proposals : BeginSave(by, p)
  BY <1>5 DEF BeginSave, world
<1> QED
  BY <1>1, <1>2, <1>3, <1>4, <1>5, LineupsSteps

LEMMA ManagersKept ==
  ASSUME LineupsTypeOK, ManagersAreHuman, LineupsNext
  PROVE  ManagersAreHuman'
<1> SUFFICES ASSUME ai
             PROVE  /\ request' # None => request'.by # "manager"
                    /\ submission' # None => submission'.by # "manager"
                    /\ draft' = None
  BY AiKept DEF ManagersAreHuman
<1>1. ASSUME request' # None
      PROVE  request'.by # "manager"
  <2>1. CASE request' = request
    BY <1>1, <2>1 DEF ManagersAreHuman
  <2>2. CASE \E by \in Actors, p \in Proposals : BeginSave(by, p)
    BY <2>2, ActorsAre DEF BeginSave
  <2> QED
    BY <1>1, <2>1, <2>2, RequestKept
<1>2. ASSUME submission' # None, submission' # submission
      PROVE  submission'.by # "manager"
  <2>1. CASE FinishSave
    BY <1>2, <2>1, SaveWrites DEF ManagersAreHuman
  <2>2. CASE Calculate
    BY <2>2, FallbackIs DEF Calculate
  <2>3. CASE GenerateAi
    BY <2>3, AiWrites DEF ManagersAreHuman
  <2> QED
    BY <1>2, <2>1, <2>2, <2>3, SubmissionKept
<1>3. draft' = None
  <2>1. draft' # None => draft' = draft
    BY DraftKept DEF Drafting
  <2> QED
    BY <2>1 DEF ManagersAreHuman
<1> QED
  BY <1>1, <1>2, <1>3 DEF ManagersAreHuman

\* A step moves no match but one that it makes no longer postponed.
LEMMA MatchesKept ==
  ASSUME LineupsTypeOK, LineupsNext, NEW f \in Fixtures
  PROVE  /\ moved => moved'
         /\ \/ /\ fixture'[f].kickoff = fixture[f].kickoff
               /\ fixture'[f].status = "PST" => fixture[f].status = "PST" \/ ~moved
            \/ moved' /\ fixture'[f].status # "PST" /\ now < fixture'[f].kickoff
<1>1. fixture \in [Fixtures -> Matches] /\ now \in Nat
  BY DEF LineupsTypeOK
<1>2. CASE ReadLineup \/ FinishSave \/ Calculate \/ GenerateAi
  <2>1. UNCHANGED world
    BY <1>2 DEF ReadLineup, FinishSave, Calculate, GenerateAi
  <2> QED
    BY <2>1 DEF world
<1>3. CASE DraftStep
  <2>1. \E lineup, source, accepted : Drafting(lineup, source, accepted)
    BY <1>3, DraftsAre
  <2> QED
    BY <2>1 DEF Drafting, world
<1>4. CASE Tick \/ ChangeRoster
  BY <1>4 DEF Tick, ChangeRoster
<1>5. CASE \E by \in Actors, p \in Proposals : BeginSave(by, p)
  BY <1>5 DEF BeginSave, world
<1>6. ASSUME NEW g \in Fixtures, KickOff(g) \/ FinalWhistle(g)
      PROVE  moved' = moved /\ fixture'[f].kickoff = fixture[f].kickoff
             /\ (fixture'[f].status = "PST" => fixture[f].status = "PST")
  BY <1>1, <1>6 DEF KickOff, FinalWhistle, Provider, Matches
<1>7. ASSUME NEW g \in Fixtures, Postpone(g)
      PROVE  moved' = TRUE /\ ~moved /\ fixture'[f].kickoff = fixture[f].kickoff
  BY <1>1, <1>7 DEF Postpone, Provider, Matches
<1>8. ASSUME NEW g \in Fixtures, Reschedule(g)
      PROVE  /\ moved' = TRUE
             /\ \/ f # g /\ fixture'[f] = fixture[f]
                \/ f = g /\ fixture'[f].status = "NS" /\ now < fixture'[f].kickoff
  <2>1. PICK t \in Kickoffs : t > now /\ Provider(g, [fixture[g] EXCEPT !.status = "NS", !.kickoff = t])
    BY <1>8 DEF Reschedule
  <2>2. t \in Nat /\ moved' = TRUE
    BY <1>8, LineupsAssumption DEF Reschedule
  <2>3. fixture' = [fixture EXCEPT ![g] = [fixture[g] EXCEPT !.status = "NS", !.kickoff = t]]
    BY <2>1 DEF Provider
  <2> QED
    BY <1>1, <2>1, <2>2, <2>3 DEF Matches
<1>9. moved \in BOOLEAN
  BY DEF LineupsTypeOK
<1> QED
  BY <1>2, <1>3, <1>4, <1>5, <1>6, <1>7, <1>8, <1>9, LineupsSteps

LEMMA PublishedKept ==
  ASSUME LineupsTypeOK, AsPublished, LineupsNext
  PROVE  AsPublished'
<1> SUFFICES ASSUME NEW f \in Fixtures, fixture'[f].status = "PST" \/ ~moved'
             PROVE  /\ fixture'[f].kickoff = FirstKickoff[f] /\ link'[f].observed = FirstKickoff[f]
                    /\ request' # None => request'.links[f].observed = FirstKickoff[f]
  BY DEF AsPublished
<1>1. /\ fixture'[f].kickoff = fixture[f].kickoff
      /\ fixture[f].status = "PST" \/ ~moved
  BY MatchesKept
<1>2. /\ fixture[f].kickoff = FirstKickoff[f] /\ link[f].observed = FirstKickoff[f]
      /\ request # None => request.links[f].observed = FirstKickoff[f]
  BY <1>1 DEF AsPublished
<1>3. ReconcileLinks(now)[f].observed = FirstKickoff[f]
  BY <1>2 DEF ReconcileLinks, ReconcileLock
<1>4. link'[f].observed = FirstKickoff[f]
  <2>1. request # None => Merged(link[f], request.loaded[f], request.links[f]).observed = FirstKickoff[f]
    BY <1>2 DEF Merged
  <2> QED
    BY <1>2, <1>3, <2>1, LinksKept
<1>5. request' # None => request'.links[f].observed = FirstKickoff[f]
  BY <1>2, <1>3, RequestKept DEF BeginSave
<1> QED
  BY <1>1, <1>2, <1>4, <1>5

\* Nothing that happens later makes an instant late for a match that could not
\* lock at that instant.
LEMMA FreshKept ==
  ASSUME LineupsTypeOK, LineupsNext, NEW f \in Fixtures, NEW at \in Nat, at <= now, Fresh(f, at)
  PROVE  Fresh(f, at)'
<1>1. /\ link[f] \in Links /\ fixture[f] \in Matches /\ now \in Nat
      /\ fixture'[f] \in Matches
  BY WorldTypeKept DEF LineupsTypeOK, WorldType
<1>2. Untouched(link[f], fixture[f], at) /\ (request # None => Untouched(request.links[f], fixture[f], at))
  BY DEF Fresh
<1>3. at < fixture'[f].kickoff
  <2>1. at < fixture[f].kickoff /\ fixture'[f].kickoff \in Nat
    BY <1>1, <1>2 DEF Untouched, Matches
  <2> QED
    BY <1>1, <2>1, MatchesKept
<1>4. Untouched(ReconcileLinks(now)[f], fixture[f], at)
  BY <1>1, <1>2, ReconcileKeepsUntouched DEF ReconcileLinks
<1>5. Untouched(link'[f], fixture'[f], at)
  <2>1. request # None => Untouched(Merged(link[f], request.loaded[f], request.links[f]), fixture'[f], at)
    BY <1>2, <1>3 DEF Merged, Untouched
  <2>2. Untouched(link[f], fixture'[f], at) /\ Untouched(ReconcileLinks(now)[f], fixture'[f], at)
    BY <1>2, <1>3, <1>4 DEF Untouched
  <2> QED
    BY <2>1, <2>2, LinksKept
<1>6. request' # None => Untouched(request'.links[f], fixture'[f], at)
  <2>1. CASE request' = request
    BY <1>2, <1>3, <2>1 DEF Untouched
  <2>2. CASE \E by \in Actors, p \in Proposals : BeginSave(by, p)
    BY <1>3, <1>4, <2>2 DEF BeginSave, Untouched
  <2> QED
    BY <2>1, <2>2, RequestKept
<1> QED
  BY <1>5, <1>6 DEF Fresh

\* Who is not locked now has a match that cannot have locked.
LEMMA UnlockedNow ==
  ASSUME LineupsTypeOK, AsPublished, NEW a \in Range(Roster),
         ~KickoffLocked(fixture[FixtureOf[a]], ReconcileLinks(now)[FixtureOf[a]].latch # None, now)
  PROVE  /\ FixtureOf[a] \in Fixtures
         /\ Untouched(link[FixtureOf[a]], fixture[FixtureOf[a]], now)
         /\ Untouched(ReconcileLinks(now)[FixtureOf[a]], fixture[FixtureOf[a]], now)
<1> DEFINE f == FixtureOf[a]
<1>1. f \in Fixtures
  BY RosterType, LineupsAssumption
<1> HIDE DEF f
<1>2. /\ link[f] \in Links /\ fixture[f] \in Matches /\ now \in Nat
      /\ fixture[f].status = "PST" => fixture[f].kickoff = link[f].observed
      /\ ReconcileLinks(now)[f] = ReconcileLock(link[f], fixture[f], now)
  BY <1>1 DEF LineupsTypeOK, AsPublished, ReconcileLinks
<1>3. ~KickoffLocked(fixture[f], ReconcileLock(link[f], fixture[f], now).latch # None, now)
  BY <1>2 DEF f
<1>4. /\ Untouched(link[f], fixture[f], now)
      /\ Untouched(ReconcileLock(link[f], fixture[f], now), fixture[f], now)
  BY <1>2, <1>3, UnlockedIsUntouched
<1> QED
  BY <1>1, <1>2, <1>4 DEF f

LEMMA RosterKept ==
  ASSUME LineupsTypeOK, LineupsNext, request # None
  PROVE  rosterNo' = rosterNo
<1>1. CASE ReadLineup \/ FinishSave \/ Calculate \/ GenerateAi
  BY <1>1 DEF ReadLineup, FinishSave, Calculate, GenerateAi, world
<1>2. CASE DraftStep
  <2>1. \E lineup, source, accepted : Drafting(lineup, source, accepted)
    BY <1>2, DraftsAre
  <2> QED
    BY <2>1 DEF Drafting, world
<1>3. CASE Tick \/ ChangeRoster
  BY <1>3 DEF Tick, ChangeRoster
<1>4. CASE \E f \in Fixtures : KickOff(f) \/ FinalWhistle(f) \/ Postpone(f) \/ Reschedule(f)
  BY <1>4 DEF KickOff, FinalWhistle, Postpone, Reschedule, Provider
<1>5. CASE \E by \in Actors, p \in Proposals : BeginSave(by, p)
  BY <1>5 DEF BeginSave, world
<1> QED
  BY <1>1, <1>2, <1>3, <1>4, <1>5, LineupsSteps

LEMMA SaveIsFreshKept ==
  ASSUME LocksInv, LineupsNext
  PROVE  SaveIsFresh'
<1> SUFFICES ASSUME request' # None, request'.by = "manager", NEW a \in Range(Roster') \ request'.locked
             PROVE  Fresh(FixtureOf[a], request.at)'
  BY DEF SaveIsFresh
<1>0. LineupsTypeOK /\ AsPublished /\ SaveIsFresh
  BY DEF LocksInv
<1>1. CASE request' = request
  <2>1. Roster' = Roster
    BY <1>0, <1>1, RosterKept DEF Roster
  <2>2. a \in Range(Roster) \ request.locked /\ request # None /\ request.by = "manager"
    BY <1>1, <2>1
  <2>3. Fresh(FixtureOf[a], request.at) /\ FixtureOf[a] \in Fixtures
    BY <1>0, <2>2, RosterType, LineupsAssumption DEF SaveIsFresh
  <2>4. request.at \in Nat /\ request.at <= now
    BY <1>0, <2>2 DEF LineupsTypeOK, IsRequest
  <2>5. \A x \in Nat : x <= now /\ Fresh(FixtureOf[a], x) => Fresh(FixtureOf[a], x)'
    BY <1>0, <2>3, FreshKept
  <2> QED
    BY <1>1, <2>3, <2>4, <2>5 DEF Fresh
<1>2. ASSUME NEW by \in Actors, NEW p \in Proposals, BeginSave(by, p)
      PROVE  Fresh(FixtureOf[a], request.at)'
  <2> DEFINE f == FixtureOf[a]
  <2>1. /\ request' = [at |-> now, by |-> by, lineup |-> p, roster |-> Range(Roster),
                       locked |-> LockedAthletes(by, fixture, ReconcileLinks(now), now),
                       loaded |-> link, links |-> ReconcileLinks(now)]
        /\ fixture' = fixture /\ link' = link /\ Roster' = Roster
    BY <1>2 DEF BeginSave, world, Roster
  <2>2. by = "manager"
    BY <2>1
  <2>3. a \in Range(Roster) /\ ~KickoffLocked(fixture[f], ReconcileLinks(now)[f].latch # None, now)
    BY <2>1, <2>2 DEF LockedAthletes
  <2>4. Untouched(link[f], fixture[f], now) /\ Untouched(ReconcileLinks(now)[f], fixture[f], now)
    BY <1>0, <2>3, UnlockedNow
  <2>5. request'.at = now /\ request'.links = ReconcileLinks(now)
    BY <2>1
  <2> QED
    BY <2>1, <2>4, <2>5 DEF Fresh
<1> QED
  BY <1>0, <1>1, <1>2, RequestKept

LEMMA DraftIsFreshKept ==
  ASSUME LocksInv, LineupsNext
  PROVE  DraftIsFresh'
<1> SUFFICES ASSUME draft' # None, submission' = None, NEW a \in Starters(draft'.lineup)
             PROVE  Fresh(FixtureOf[a], draft.at)'
  BY DEF DraftIsFresh
<1>0. LineupsTypeOK /\ AsPublished /\ DraftIsFresh
  BY DEF LocksInv
<1>1. submission = None
  <2>1. CASE submission' = submission
    BY <2>1
  <2>2. CASE Calculate
    BY <2>2 DEF Calculate
  <2>3. CASE FinishSave /\ submission' # submission
    BY <2>3 DEF FinishSave
  <2>4. CASE GenerateAi
    BY <2>4, ManagersKept, AiKept DEF GenerateAi, LocksInv, ManagersAreHuman
  <2> QED
    BY <1>0, <2>1, <2>2, <2>3, <2>4, SubmissionKept
<1>2. CASE draft' = draft
  <2>1. draft # None /\ a \in Starters(draft.lineup)
    BY <1>2
  <2>2. Fresh(FixtureOf[a], draft.at) /\ draft.at \in Nat /\ draft.at <= now /\ IsLineup(draft.lineup)
    BY <1>0, <1>1, <2>1 DEF DraftIsFresh, LineupsTypeOK
  <2>3. FixtureOf[a] \in Fixtures
    <3>1. draft.lineup.starters \in Seq(Athletes \cup {None})
      BY <2>2 DEF IsLineup, Places
    <3>2. a \in Athletes
      BY <2>1, <3>1, InRange DEF Starters
    <3> QED
      BY <3>2, LineupsAssumption
  <2>4. \A x \in Nat : x <= now /\ Fresh(FixtureOf[a], x) => Fresh(FixtureOf[a], x)'
    BY <1>0, <2>3, FreshKept
  <2> QED
    BY <1>2, <2>2, <2>4 DEF Fresh
<1>3. CASE draft' # draft
  <2>1. PICK lineup, source, accepted :
          Drafting(lineup, source, accepted) /\ accepted /\ Lawful(lineup, source)
    BY <1>0, <1>3, DraftKept
  <2>2. /\ draft' = [lineup |-> lineup, at |-> now, source |-> source]
        /\ link' = ReconcileLinks(now) /\ fixture' = fixture /\ request' = request /\ request = None
    BY <2>1 DEF Drafting, world
  <2>3. a \in Starters(lineup) /\ a \in Range(Roster) /\ KeepsSlots(Confirmed, lineup, LockedNow)
    BY <2>1, <2>2 DEF Lawful
  <2>4. a \notin LockedNow
    <3>1. Slot(Confirmed, a) = "none"
      BY <1>1 DEF Confirmed, NoLineup, Slot, Range
    <3>2. Slot(lineup, a) = "starter"
      BY <2>3 DEF Slot, Starters
    <3> QED
      BY <2>3, <3>1, <3>2 DEF KeepsSlots
  <2>5. ~KickoffLocked(fixture[FixtureOf[a]], ReconcileLinks(now)[FixtureOf[a]].latch # None, now)
    BY <2>3, <2>4, LockedNowIs
  <2>6. Untouched(ReconcileLinks(now)[FixtureOf[a]], fixture[FixtureOf[a]], now)
    BY <1>0, <2>3, <2>5, UnlockedNow
  <2> QED
    BY <2>2, <2>6 DEF Fresh
<1> QED
  BY <1>2, <1>3

LEMMA LocksKept ==
  ASSUME LocksInv, [LineupsNext]_lineupsVars
  PROVE  LocksInv'
<1>1. ASSUME LineupsNext
      PROVE  LocksInv'
  <2>1. LineupsTypeOK /\ ManagersAreHuman /\ AsPublished
    BY DEF LocksInv
  <2> QED
    BY <1>1, <2>1, LineupsTypeKept, ManagersKept, PublishedKept, SaveIsFreshKept, DraftIsFreshKept
    DEF LocksInv
<1>2. ASSUME UNCHANGED lineupsVars
      PROVE  LocksInv'
  <2>1. LineupsTypeOK /\ ManagersAreHuman /\ AsPublished /\ SaveIsFresh /\ DraftIsFresh
    BY DEF LocksInv
  <2>2. LineupsTypeOK'
    BY <1>2, <2>1 DEF lineupsVars, LineupsTypeOK, IsSubmission, IsRequest
  <2>3. ManagersAreHuman' /\ AsPublished'
    BY <1>2, <2>1 DEF lineupsVars, ManagersAreHuman, AsPublished
  <2>4. SaveIsFresh'
    BY <1>2, <2>1 DEF lineupsVars, SaveIsFresh, Fresh, Roster
  <2>5. DraftIsFresh'
    BY <1>2, <2>1 DEF lineupsVars, DraftIsFresh, Fresh
  <2> QED
    BY <2>2, <2>3, <2>4, <2>5 DEF LocksInv
<1> QED
  BY <1>1, <1>2

-----------------------------------------------------------------------------
(* The lock of the line-ups *)

\* The invariant of the locks: whoever writes the kickoffs and the latches,
\* and in whatever order, what a save under way and a draft rely on stays true
\* (the types of the tables are part of it).
THEOREM LineupsLocksHold == LineupsSpec => []LocksInv
<1>1. LineupsInit => LocksInv
  BY LocksInitially
<1>2. LocksInv /\ [LineupsNext]_lineupsVars => LocksInv'
  BY LocksKept
<1> QED
  BY <1>1, <1>2, PTL DEF LineupsSpec

\* The change that a save commits.
LEMMA SaveBeforeLock ==
  ASSUME LocksInv, FinishSave, submission' # submission, submission'.by = "manager",
         NEW a \in Range(Roster), Slot(Confirmed, a) # Slot(submission'.lineup, a),
         a \in Starters(Confirmed) \cup Starters(submission'.lineup)
  PROVE  /\ submission'.at < link[FixtureOf[a]].observed
         /\ ~Elapsed(link'[FixtureOf[a]].latch, submission'.at)
<1>0. LineupsTypeOK /\ SaveIsFresh
  BY DEF LocksInv
<1>1. /\ request # None /\ KeepsSlots(Confirmed, request.lineup, request.locked)
      /\ submission'.lineup = request.lineup /\ submission'.at = request.at /\ request.by = "manager"
  BY <1>0, SaveWrites
<1>2. a \notin request.locked
  <2> SUFFICES ASSUME a \in request.locked
               PROVE  FALSE
    OBVIOUS
  <2>1. IF Slot(Confirmed, a) = "none" THEN Slot(request.lineup, a) # "starter"
        ELSE Slot(request.lineup, a) = Slot(Confirmed, a)
    BY <1>1 DEF KeepsSlots
  <2>2. Slot(Confirmed, a) = "none" /\ Slot(request.lineup, a) # "starter"
    BY <1>1, <2>1
  <2> QED
    BY <1>1, <2>2 DEF Slot, Starters
<1> DEFINE f == FixtureOf[a]
<1>3. f \in Fixtures
  BY <1>0, RosterType, LineupsAssumption
<1>4. Untouched(link[f], fixture[f], request.at) /\ Untouched(request.links[f], fixture[f], request.at)
  BY <1>0, <1>1, <1>2 DEF SaveIsFresh, Fresh
<1> HIDE DEF f
<1>5. link'[f] = Merged(link[f], request.loaded[f], request.links[f])
  BY <1>3 DEF FinishSave
<1>6. link'[f].latch # None => request.at < link'[f].latch
  BY <1>4, <1>5 DEF Merged, Untouched
<1>7. request.at \in Nat /\ link[f] \in Links /\ link'[f] \in Links
  <2>1. link[f] \in Links /\ request.links[f] \in Links /\ request.at \in Nat
    BY <1>0, <1>1, <1>3 DEF LineupsTypeOK, IsRequest
  <2> QED
    BY <1>5, <2>1 DEF Merged, Links
<1>8. ~Elapsed(link'[f].latch, request.at)
  BY <1>6, <1>7, LineupsAssumption DEF Elapsed, Links
<1> QED
  BY <1>1, <1>4, <1>8 DEF f, Untouched

\* A manager changes the place of an athlete only with a save that was sent
\* before the match could lock, whatever the provider, the page of the line-up
\* and other saves write meanwhile.
THEOREM LineupsSubmittedBeforeLock == LineupsSpec => SubmittedBeforeLock
<1> DEFINE Moves(a) ==
      /\ submission' # submission /\ submission'.by = "manager"
      /\ Slot(Confirmed, a) # Slot(submission'.lineup, a)
      /\ a \in Starters(Confirmed) \cup Starters(submission'.lineup)
<1> DEFINE InTime(a) ==
      /\ submission'.at < link[FixtureOf[a]].observed
      /\ ~Elapsed(link'[FixtureOf[a]].latch, submission'.at)
<1>1. ASSUME LocksInv, LineupsNext, NEW a \in Range(Roster), Moves(a)
      PROVE  InTime(a)
  <2>0. LineupsTypeOK /\ ManagersAreHuman
    BY <1>1 DEF LocksInv
  <2>1. ~Calculate
    BY <1>1, <2>0, FallbackIs DEF Calculate
  <2>2. ~GenerateAi
    BY <1>1, <2>0, AiWrites DEF ManagersAreHuman
  <2>3. FinishSave
    BY <1>1, <2>0, <2>1, <2>2, SubmissionKept
  <2> QED
    BY <1>1, <2>3, SaveBeforeLock
<1>2. LocksInv /\ [LineupsNext]_lineupsVars
        => [\A a \in Range(Roster) : Moves(a) => InTime(a)]_lineupsVars
  BY <1>1
<1>3. LineupsSpec => [][\A a \in Range(Roster) : Moves(a) => InTime(a)]_lineupsVars
  <2> HIDE DEF Moves, InTime
  <2> QED
    BY <1>2, LineupsLocksHold, PTL DEF LineupsSpec
<1> QED
  BY <1>3 DEF SubmittedBeforeLock

\* A fallback that confirms a draft fields nobody whose match had latched its
\* lock when the draft was saved, although it looks at no lock.
THEOREM LineupsDraftBeforeLock == LineupsSpec => DraftBeforeLock
<1> DEFINE Confirms == submission = None /\ submission' # None /\ submission'.source = "draft"
<1> DEFINE InTime == \A a \in Starters(submission'.lineup) : ~Elapsed(link[FixtureOf[a]].latch, draft.at)
<1>1. ASSUME LocksInv, LineupsNext, Confirms
      PROVE  InTime
  <2>0. LineupsTypeOK /\ DraftIsFresh
    BY <1>1 DEF LocksInv
  <2>1. ~FinishSave
    BY <1>1, <2>0, SaveWrites
  <2>2. ~GenerateAi
    BY <1>1, <2>0, AiWrites
  <2>3. submission' = Fallback
    BY <1>1, <2>0, <2>1, <2>2, SubmissionKept DEF Calculate
  <2>4. draft # None /\ Starters(submission'.lineup) = Starters(draft.lineup)
    BY <1>1, <2>0, <2>3, FallbackIs
  <2>5. ASSUME NEW a \in Starters(draft.lineup)
        PROVE  ~Elapsed(link[FixtureOf[a]].latch, draft.at)
    <3>1. Untouched(link[FixtureOf[a]], fixture[FixtureOf[a]], draft.at)
      BY <1>1, <2>0, <2>4, <2>5 DEF DraftIsFresh, Fresh
    <3>2. draft.at \in Nat /\ IsLineup(draft.lineup)
      BY <2>0, <2>4 DEF LineupsTypeOK
    <3>3. FixtureOf[a] \in Fixtures
      <4>1. draft.lineup.starters \in Seq(Athletes \cup {None})
        BY <3>2 DEF IsLineup, Places
      <4>2. a \in Athletes
        BY <2>5, <4>1, InRange DEF Starters
      <4> QED
        BY <4>2, LineupsAssumption
    <3>4. link[FixtureOf[a]] \in Links
      BY <2>0, <3>3 DEF LineupsTypeOK
    <3> QED
      BY <3>1, <3>2, <3>4, LineupsAssumption DEF Untouched, Elapsed, Links
  <2> QED
    BY <2>4, <2>5
<1>2. LocksInv /\ [LineupsNext]_lineupsVars => [Confirms => InTime]_lineupsVars
  BY <1>1
<1>3. LineupsSpec => [][Confirms => InTime]_lineupsVars
  <2> HIDE DEF Confirms, InTime
  <2> QED
    BY <1>2, LineupsLocksHold, PTL DEF LineupsSpec
<1> QED
  BY <1>3 DEF DraftBeforeLock

\* The best line-up moves nobody who is locked and nobody across him on the
\* bench, for every catalogue of modules, roster, score and line-up sent before.
THEOREM LineupsBestRespectsLocks == LineupsSpec => BestRespectsLocks
<1> DEFINE Best == draft' # draft /\ draft' # None /\ draft'.source = "best" /\ draft'.at = now
<1> DEFINE Keeps == LET locked == LockedNow
                    IN KeepsSlots(Confirmed, draft'.lineup, locked) /\ KeepsBenchOrder(Confirmed, draft'.lineup, locked)
<1>1. ASSUME LocksInv, LineupsNext, Best
      PROVE  Keeps
  <2>0. LineupsTypeOK
    BY <1>1 DEF LocksInv
  <2>1. PICK lineup, source, accepted :
          Drafting(lineup, source, accepted) /\ accepted /\ Lawful(lineup, source)
    BY <1>1, <2>0, DraftKept
  <2>2. draft' = [lineup |-> lineup, at |-> now, source |-> source]
    BY <2>1 DEF Drafting
  <2>3. source = "best" /\ draft'.lineup = lineup
    BY <1>1, <2>2
  <2> QED
    BY <2>1, <2>3 DEF Lawful
<1>2. LocksInv /\ [LineupsNext]_lineupsVars => [Best => Keeps]_lineupsVars
  BY <1>1
<1>3. LineupsSpec => [][Best => Keeps]_lineupsVars
  <2> HIDE DEF Best, Keeps
  <2> QED
    BY <1>2, LineupsLocksHold, PTL DEF LineupsSpec
<1> QED
  BY <1>3 DEF BestRespectsLocks

-----------------------------------------------------------------------------
(* Automatic substitutions *)

\* The places of a set of numbers up to k, and those that are among its first.
UpToPlace(S, k) == {j \in S : j <= k}
FirstPlaces(S, v, k) == {j \in S : j <= k /\ Cardinality(UpToPlace(S, j)) <= v}

LEMMA PlacesFinite ==
  ASSUME NEW m \in Nat, NEW S \in SUBSET (1..m), NEW v, NEW k
  PROVE  /\ IsFiniteSet(UpToPlace(S, k)) /\ Cardinality(UpToPlace(S, k)) \in Nat
         /\ IsFiniteSet(FirstPlaces(S, v, k)) /\ Cardinality(FirstPlaces(S, v, k)) \in Nat
<1>1. UpToPlace(S, k) \subseteq 1..m /\ FirstPlaces(S, v, k) \subseteq 1..m
  BY DEF UpToPlace, FirstPlaces
<1> QED
  BY <1>1, Counting, FS_Subset, FS_CardinalityType

\* While there are few of them, all are among the first.
LEMMA FirstOfFew ==
  ASSUME NEW m \in Nat, NEW S \in SUBSET (1..m), NEW v \in Nat, NEW k \in 0..m,
         Cardinality(UpToPlace(S, k)) <= v
  PROVE  FirstPlaces(S, v, k) = UpToPlace(S, k)
<1>1. ASSUME NEW j \in S, j <= k
      PROVE  Cardinality(UpToPlace(S, j)) <= v
  <2>1. UpToPlace(S, j) \subseteq UpToPlace(S, k)
    <3>1. k \in Int /\ \A i \in S : i \in Int
      OBVIOUS
    <3>2. \A i \in S : i <= j => i <= k
      BY <1>1, <3>1
    <3> QED
      BY <3>2 DEF UpToPlace
  <2>2. /\ IsFiniteSet(UpToPlace(S, k)) /\ Cardinality(UpToPlace(S, k)) \in Nat
        /\ Cardinality(UpToPlace(S, j)) \in Nat
    BY PlacesFinite
  <2>3. Cardinality(UpToPlace(S, j)) <= Cardinality(UpToPlace(S, k))
    BY <2>1, <2>2, FS_Subset
  <2> QED
    BY <2>2, <2>3
<1> QED
  BY <1>1 DEF FirstPlaces, UpToPlace

\* Once there are enough of them, the first are enough.
LEMMA FirstOfMany ==
  ASSUME NEW m \in Nat, NEW S \in SUBSET (1..m), NEW v \in Nat, NEW k \in 0..m,
         Cardinality(UpToPlace(S, k)) >= v
  PROVE  Cardinality(FirstPlaces(S, v, k)) >= v
<1> DEFINE Enough(i) == Cardinality(UpToPlace(S, i)) >= v => Cardinality(FirstPlaces(S, v, i)) >= v
<1> DEFINE good == {i \in 0..m : Enough(i)}
<1>1. 0 \in good
  <2>1. UpToPlace(S, 0) = {}
    <3>1. \A j \in S : j \in 1..m
      OBVIOUS
    <3>2. \A j \in S : ~(j <= 0)
      BY <3>1
    <3> QED
      BY <3>2 DEF UpToPlace
  <2>2. Cardinality(UpToPlace(S, 0)) = 0
    BY <2>1, FS_EmptySet
  <2>3. Cardinality(FirstPlaces(S, v, 0)) \in Nat
    BY PlacesFinite
  <2> QED
    BY <2>2, <2>3
<1>2. ASSUME NEW i \in 1..m, i - 1 \in good
      PROVE  i \in good
  <2>1. i \in 0..m /\ i - 1 \in 0..m /\ Enough(i - 1)
    BY <1>2
  <2>2. SUFFICES ASSUME Cardinality(UpToPlace(S, i)) >= v
                 PROVE  Cardinality(FirstPlaces(S, v, i)) >= v
    BY <2>1
  <2> DEFINE c == Cardinality(UpToPlace(S, i - 1))
  <2> DEFINE d == Cardinality(UpToPlace(S, i))
  <2>3. c \in Nat /\ d \in Nat /\ d <= c + 1
    <3>1. UpToPlace(S, i) \subseteq UpToPlace(S, i - 1) \cup {i}
      <4>1. \A j \in S : j \in Int
        OBVIOUS
      <4>2. \A j \in S : j <= i => j <= i - 1 \/ j = i
        BY <4>1
      <4> QED
        BY <4>2 DEF UpToPlace
    <3>2. IsFiniteSet(UpToPlace(S, i - 1)) /\ c \in Nat /\ d \in Nat
      BY PlacesFinite
    <3>3. /\ IsFiniteSet(UpToPlace(S, i - 1) \cup {i})
          /\ Cardinality(UpToPlace(S, i - 1) \cup {i}) = IF i \in UpToPlace(S, i - 1) THEN c ELSE c + 1
      BY <3>2, FS_AddElement
    <3>4. d <= Cardinality(UpToPlace(S, i - 1) \cup {i})
      BY <3>1, <3>3, FS_Subset
    <3> QED
      BY <3>2, <3>3, <3>4
  <2>4. CASE c >= v
    <3>1. FirstPlaces(S, v, i - 1) \subseteq FirstPlaces(S, v, i)
      <4>1. \A j \in S : j \in Int
        OBVIOUS
      <4>2. \A j \in S : j <= i - 1 => j <= i
        BY <4>1
      <4> QED
        BY <4>2 DEF FirstPlaces
    <3>2. Cardinality(FirstPlaces(S, v, i - 1)) <= Cardinality(FirstPlaces(S, v, i))
      BY <3>1, PlacesFinite, FS_Subset
    <3>3. Cardinality(FirstPlaces(S, v, i - 1)) \in Nat /\ Cardinality(FirstPlaces(S, v, i)) \in Nat
      BY PlacesFinite
    <3> QED
      BY <2>1, <2>4, <3>2, <3>3
  <2>5. CASE ~(c >= v)
    <3>1. d = v
      BY <2>2, <2>3, <2>5
    <3>2. FirstPlaces(S, v, i) = UpToPlace(S, i)
      BY <2>1, <2>3, <3>1, FirstOfFew
    <3> QED
      BY <2>3, <3>1, <3>2
  <2> QED
    BY <2>4, <2>5
<1>3. good = 0..m
  <2> HIDE DEF good
  <2>1. good \in SUBSET (0..m)
    BY DEF good
  <2> QED
    BY <1>1, <1>2, <2>1, UpTo
<1> QED
  BY <1>3

\* Who waits for a substitute, who of the bench is in the queue of a role, and
\* who of it is called while there are substitutions.
Vacant(lineup, played, r) ==
  {i \in DOMAIN lineup.starters : Role[lineup.starters[i]] = r /\ lineup.starters[i] \notin played}
Queued(lineup, played, r) ==
  {j \in DOMAIN lineup.bench : lineup.bench[j] \in played /\ Role[lineup.bench[j]] = r}
Called(lineup, played) ==
  {j \in DOMAIN lineup.bench :
     /\ lineup.bench[j] \in played
     /\ Cardinality(UpToPlace(Queued(lineup, played, Role[lineup.bench[j]]), j))
          <= Cardinality(Vacant(lineup, played, Role[lineup.bench[j]]))}
Entering(lineup, played, k) == FirstPlaces(Called(lineup, played), MaxSubstitutions, k)

\* Each of the bench who has entered has the place of a starter of his role
\* without a vote; nothing else has changed.
Settled(lineup, played, k, line, pos) ==
  /\ pos \in [Entering(lineup, played, k) -> DOMAIN lineup.starters]
  /\ \A j, l \in Entering(lineup, played, k) : pos[j] = pos[l] => j = l
  /\ \A j \in Entering(lineup, played, k) :
       /\ line[pos[j]] = lineup.bench[j]
       /\ lineup.starters[pos[j]] \notin played
       /\ Role[lineup.starters[pos[j]]] = Role[lineup.bench[j]]
  /\ \A i \in DOMAIN lineup.starters :
       (\A j \in Entering(lineup, played, k) : pos[j] # i) => line[i] = lineup.starters[i]

Entered(lineup, played, k, line) ==
  /\ line \in [DOMAIN lineup.starters -> Athletes]
  /\ \E pos : Settled(lineup, played, k, line, pos)

LEMMA SubstitutionSets ==
  ASSUME NEW lineup, Fielded(lineup), NEW played
  PROVE  /\ Len(lineup.starters) \in Nat /\ DOMAIN lineup.starters = 1..Len(lineup.starters)
         /\ Len(lineup.bench) \in Nat /\ DOMAIN lineup.bench = 1..Len(lineup.bench)
         /\ Called(lineup, played) \in SUBSET (1..Len(lineup.bench))
         /\ MaxSubstitutions \in Nat
         /\ \A r : /\ Queued(lineup, played, r) \in SUBSET (1..Len(lineup.bench))
                   /\ IsFiniteSet(Vacant(lineup, played, r)) /\ Cardinality(Vacant(lineup, played, r)) \in Nat
<1>1. /\ Len(lineup.starters) \in Nat /\ DOMAIN lineup.starters = 1..Len(lineup.starters)
      /\ Len(lineup.bench) \in Nat /\ DOMAIN lineup.bench = 1..Len(lineup.bench)
  <2>1. lineup.starters \in Seq(Athletes) /\ lineup.bench \in Seq(Athletes)
    BY DEF Fielded
  <2> QED
    BY <2>1
<1>2. ASSUME NEW r
      PROVE  IsFiniteSet(Vacant(lineup, played, r)) /\ Cardinality(Vacant(lineup, played, r)) \in Nat
  <2>1. Vacant(lineup, played, r) \subseteq 1..Len(lineup.starters)
    BY <1>1 DEF Vacant
  <2> QED
    BY <1>1, <2>1, Counting, FS_Subset, FS_CardinalityType
<1>3. \A r : Queued(lineup, played, r) \in SUBSET (1..Len(lineup.bench))
  BY <1>1 DEF Queued
<1>4. Called(lineup, played) \in SUBSET (1..Len(lineup.bench)) /\ MaxSubstitutions \in Nat
  BY <1>1, RulesAssumption DEF Called
<1> QED
  BY <1>1, <1>2, <1>3, <1>4

\* One more of a set.
LEMMA UpToNext ==
  ASSUME NEW m \in Nat, NEW S \in SUBSET (1..m), NEW k \in 1..m, k \in S
  PROVE  Cardinality(UpToPlace(S, k)) = Cardinality(UpToPlace(S, k - 1)) + 1
<1>1. UpToPlace(S, k) = UpToPlace(S, k - 1) \cup {k} /\ k \notin UpToPlace(S, k - 1)
  <2>1. \A j \in S : j \in Int
    OBVIOUS
  <2>2. \A j \in S : j <= k <=> j <= k - 1 \/ j = k
    BY <2>1
  <2>3. ~(k <= k - 1)
    OBVIOUS
  <2> QED
    BY <2>2, <2>3 DEF UpToPlace
<1>2. IsFiniteSet(UpToPlace(S, k - 1))
  BY PlacesFinite
<1> QED
  BY <1>1, <1>2, FS_AddElement

LEMMA EnteringNext ==
  ASSUME NEW lineup, Fielded(lineup), NEW played, NEW k \in 1..Len(lineup.bench)
  PROVE  /\ Cardinality(Entering(lineup, played, k - 1)) < MaxSubstitutions /\ k \in Called(lineup, played)
              => Entering(lineup, played, k) = Entering(lineup, played, k - 1) \cup {k}
         /\ ~(Cardinality(Entering(lineup, played, k - 1)) < MaxSubstitutions /\ k \in Called(lineup, played))
              => Entering(lineup, played, k) = Entering(lineup, played, k - 1)
<1> DEFINE m == Len(lineup.bench)
<1> DEFINE S == Called(lineup, played)
<1> DEFINE v == MaxSubstitutions
<1> DEFINE c == Cardinality(UpToPlace(S, k - 1))
<1> DEFINE e == Cardinality(FirstPlaces(S, v, k - 1))
<1>1. m \in Nat /\ S \in SUBSET (1..m) /\ v \in Nat /\ k \in 1..m /\ k - 1 \in 0..m
  BY SubstitutionSets
<1>2. /\ Entering(lineup, played, k) = FirstPlaces(S, v, k)
      /\ Entering(lineup, played, k - 1) = FirstPlaces(S, v, k - 1)
  BY DEF Entering
<1> HIDE DEF m, S, v
<1>3. /\ c \in Nat /\ e \in Nat /\ IsFiniteSet(UpToPlace(S, k - 1))
  BY <1>1, PlacesFinite
<1>4. c >= v <=> e >= v
  <2>1. c >= v => e >= v
    BY <1>1, FirstOfMany
  <2>2. e <= c
    <3>1. FirstPlaces(S, v, k - 1) \subseteq UpToPlace(S, k - 1)
      BY DEF FirstPlaces, UpToPlace
    <3> QED
      BY <1>3, <3>1, FS_Subset
  <2> QED
    BY <1>1, <1>3, <2>1, <2>2
<1>5. k \in S => Cardinality(UpToPlace(S, k)) = c + 1
  BY <1>1, UpToNext
<1>6. k \in FirstPlaces(S, v, k) <=> k \in S /\ e < v
  <2>1. k <= k
    BY <1>1
  <2>2. k \in FirstPlaces(S, v, k) <=> k \in S /\ Cardinality(UpToPlace(S, k)) <= v
    BY <2>1 DEF FirstPlaces
  <2> HIDE DEF c, e
  <2> QED
    BY <1>1, <1>3, <1>4, <1>5, <2>2
<1>7. FirstPlaces(S, v, k) \ {k} = FirstPlaces(S, v, k - 1)
  <2>1. \A j \in S : j \in Int
    BY <1>1
  <2>2. \A j \in S : j <= k - 1 <=> j <= k /\ j # k
    BY <1>1, <2>1
  <2> QED
    BY <2>2 DEF FirstPlaces
<1> HIDE DEF e
<1>8. e = Cardinality(Entering(lineup, played, k - 1))
  BY <1>2 DEF e
<1> QED
  BY <1>1, <1>2, <1>6, <1>7, <1>8 DEF S, v

\* A substitution is used for each of the bench who has entered.
LEMMA UsedIs ==
  ASSUME NEW lineup, Fielded(lineup), NEW played, NEW k \in 0..Len(lineup.bench),
         NEW line \in [DOMAIN lineup.starters -> Athletes],
         NEW pos, Settled(lineup, played, k, line, pos)
  PROVE  Used(lineup.starters, line) = Cardinality(Entering(lineup, played, k))
<1> DEFINE E == Entering(lineup, played, k)
<1> DEFINE changed == {i \in DOMAIN lineup.starters : line[i] # lineup.starters[i]}
<1>1. IsFiniteSet(E)
  BY SubstitutionSets, PlacesFinite DEF Entering
<1>2. \A j \in E : lineup.bench[j] \in played
  BY DEF Entering, FirstPlaces, Called
<1>3. \A j \in E : pos[j] \in changed
  BY <1>2 DEF Settled
<1>4. \A i \in changed : \E j \in E : pos[j] = i
  BY DEF Settled
<1>5. pos \in [E -> changed] /\ \A j, l \in E : pos[j] = pos[l] => j = l
  BY <1>3 DEF Settled
<1> HIDE DEF E, changed
<1>6. pos \in Surjection(E, changed) /\ pos \in Injection(E, changed)
  BY <1>4, <1>5 DEF Surjection, Injection, IsInjective
<1>7. Cardinality(changed) = Cardinality(E)
  BY <1>1, <1>6, FS_Surjection
<1> QED
  BY <1>7 DEF Used, E, changed

\* While there are substitutions, somebody of his role waits for one of the
\* bench with a vote exactly when he is called.
LEMMA TurnComes ==
  ASSUME NEW lineup, Fielded(lineup), NEW played, NEW k \in 1..Len(lineup.bench),
         lineup.bench[k] \in played,
         NEW line \in [DOMAIN lineup.starters -> Athletes],
         NEW pos, Settled(lineup, played, k - 1, line, pos),
         Cardinality(Entering(lineup, played, k - 1)) < MaxSubstitutions
  PROVE  Waiting(line, lineup.bench[k], played) # {} <=> k \in Called(lineup, played)
<1> DEFINE s == lineup.starters
<1> DEFINE b == lineup.bench
<1> DEFINE m == Len(b)
<1> DEFINE r == Role[b[k]]
<1> DEFINE E == Entering(lineup, played, k - 1)
<1> DEFINE mine == {j \in E : Role[b[j]] = r}
<1> DEFINE held == {pos[j] : j \in mine}
<1> DEFINE vacant == Vacant(lineup, played, r)
<1> DEFINE queue == Queued(lineup, played, r)
<1> DEFINE v == Cardinality(vacant)
<1> DEFINE waiting == Waiting(line, b[k], played)
<1>1. /\ m \in Nat /\ DOMAIN b = 1..m /\ queue \in SUBSET (1..m) /\ Called(lineup, played) \in SUBSET (1..m)
      /\ IsFiniteSet(vacant) /\ v \in Nat /\ MaxSubstitutions \in Nat /\ k - 1 \in 0..m /\ k \in 1..m
  BY SubstitutionSets
<1>2. /\ pos \in [E -> DOMAIN s] /\ \A j, l \in E : pos[j] = pos[l] => j = l
      /\ \A j \in E : /\ line[pos[j]] = b[j] /\ s[pos[j]] \notin played
                      /\ Role[s[pos[j]]] = Role[b[j]]
      /\ \A i \in DOMAIN s : (\A j \in E : pos[j] # i) => line[i] = s[i]
  BY DEF Settled
<1>3. \A j \in E : b[j] \in played
  BY DEF Entering, FirstPlaces, Called
<1>4. /\ vacant = {i \in DOMAIN s : Role[s[i]] = r /\ s[i] \notin played}
      /\ waiting = {i \in DOMAIN s : Role[line[i]] = r /\ line[i] \notin played}
  BY DEF Vacant, Waiting
<1>5. UpToPlace(Called(lineup, played), k - 1) = E
  <2> DEFINE S == Called(lineup, played)
  <2> DEFINE c == Cardinality(UpToPlace(S, k - 1))
  <2>1. E = FirstPlaces(S, MaxSubstitutions, k - 1)
    BY DEF Entering
  <2> HIDE DEF S, E
  <2>2. c \in Nat /\ Cardinality(E) \in Nat
    BY <1>1, <2>1, PlacesFinite DEF S
  <2>3. c >= MaxSubstitutions => Cardinality(E) >= MaxSubstitutions
    BY <1>1, <2>1, FirstOfMany DEF S
  <2>4. c <= MaxSubstitutions
    BY <1>1, <2>2, <2>3 DEF E
  <2> QED
    BY <1>1, <2>1, <2>4, FirstOfFew DEF S
<1>6. mine = FirstPlaces(queue, v, k - 1)
  <2>1. ASSUME NEW j \in 1..m, j <= k - 1
        PROVE  j \in mine <=> j \in queue /\ Cardinality(UpToPlace(queue, j)) <= v
    <3>1. j \in E <=> j \in Called(lineup, played)
      BY <1>1, <1>5, <2>1 DEF UpToPlace
    <3>2. j \in Called(lineup, played) <=>
            /\ b[j] \in played
            /\ Cardinality(UpToPlace(Queued(lineup, played, Role[b[j]]), j))
                 <= Cardinality(Vacant(lineup, played, Role[b[j]]))
      BY <1>1 DEF Called
    <3>3. j \in queue <=> b[j] \in played /\ Role[b[j]] = r
      BY <1>1 DEF Queued
    <3> QED
      BY <3>1, <3>2, <3>3
  <2>2. \A j \in mine : j \in 1..m /\ j <= k - 1
    BY <1>1, <1>5 DEF UpToPlace
  <2> HIDE DEF mine, queue, v
  <2> QED
    BY <1>1, <2>1, <2>2 DEF FirstPlaces
<1> HIDE DEF E, vacant, waiting
<1>7. waiting = vacant \ held
  <2>1. ASSUME NEW i \in waiting
        PROVE  i \in vacant \ held
    <3>1. \A j \in E : pos[j] # i
      BY <1>2, <1>3, <1>4, <2>1
    <3> QED
      BY <1>2, <1>4, <2>1, <3>1
  <2>2. ASSUME NEW i \in vacant \ held
        PROVE  i \in waiting
    <3>1. \A j \in E : pos[j] # i
      BY <1>2, <1>4, <2>2
    <3> QED
      BY <1>2, <1>4, <2>2, <3>1
  <2> QED
    BY <2>1, <2>2
<1>8. held \subseteq vacant /\ IsFiniteSet(mine) /\ Cardinality(held) = Cardinality(mine)
  <2>1. held \subseteq vacant
    BY <1>2, <1>4
  <2>2. IsFiniteSet(mine)
    <3> HIDE DEF mine, queue, v
    <3> QED
      BY <1>1, <1>6, PlacesFinite
  <2> DEFINE f == [j \in mine |-> pos[j]]
  <2>3. /\ f \in [mine -> held] /\ \A i \in held : \E j \in mine : f[j] = i
        /\ \A j, l \in mine : f[j] = f[l] => j = l
    BY <1>2
  <2> HIDE DEF f, mine, held
  <2>4. f \in Surjection(mine, held) /\ f \in Injection(mine, held)
    BY <2>3 DEF Surjection, Injection, IsInjective
  <2>5. Cardinality(held) = Cardinality(mine)
    BY <2>2, <2>4, FS_Surjection
  <2> QED
    BY <2>1, <2>2, <2>5
<1>9. Cardinality(mine) \in Nat
  BY <1>8, FS_CardinalityType
<1> HIDE DEF held, mine
<1>10. waiting # {} <=> Cardinality(mine) < v
  <2>1. Cardinality(held) <= v /\ (Cardinality(held) = v => held = vacant)
    BY <1>1, <1>8, FS_Subset
  <2>2. waiting = {} => Cardinality(mine) = v
    <3>1. waiting = {} => held = vacant
      BY <1>7, <1>8
    <3> QED
      BY <1>8, <3>1
  <2>3. waiting # {} => Cardinality(mine) # v
    BY <1>7, <1>8, <2>1
  <2> HIDE DEF v
  <2> QED
    BY <1>1, <1>8, <1>9, <2>1, <2>2, <2>3
<1> DEFINE q == Cardinality(UpToPlace(queue, k - 1))
<1>11. Cardinality(mine) < v <=> q < v
  <2> HIDE DEF queue, v
  <2>1. q \in Nat
    BY <1>1, PlacesFinite
  <2>2. q <= v => mine = UpToPlace(queue, k - 1)
    BY <1>1, <1>6, FirstOfFew
  <2>3. q >= v => Cardinality(mine) >= v
    BY <1>1, <1>6, FirstOfMany
  <2> QED
    BY <1>1, <1>9, <2>1, <2>2, <2>3
<1>12. k \in Called(lineup, played) <=> q < v
  <2>1. k \in queue
    BY <1>1 DEF Queued
  <2>2. k \in Called(lineup, played) <=> Cardinality(UpToPlace(queue, k)) <= v
    BY <1>1 DEF Called, vacant
  <2> HIDE DEF queue, v
  <2>3. Cardinality(UpToPlace(queue, k)) = q + 1 /\ q \in Nat
    BY <1>1, <2>1, UpToNext, PlacesFinite
  <2> QED
    BY <1>1, <2>2, <2>3
<1> QED
  BY <1>10, <1>11, <1>12 DEF waiting

\* A step along the bench.
LEMMA EnterNext ==
  ASSUME NEW lineup, Fielded(lineup), NEW played, NEW k \in 1..Len(lineup.bench),
         NEW line, Entered(lineup, played, k - 1, line)
  PROVE  Entered(lineup, played, k, Enter(lineup.starters, line, lineup.bench[k], played))
<1> DEFINE s == lineup.starters
<1> DEFINE b == lineup.bench
<1> DEFINE before == Entering(lineup, played, k - 1)
<1> DEFINE after == Entering(lineup, played, k)
<1> DEFINE out == Waiting(line, b[k], played)
<1>1. /\ line \in [DOMAIN s -> Athletes] /\ k - 1 \in 0..Len(b) /\ k \in DOMAIN b /\ b[k] \in Athletes
      /\ MaxSubstitutions \in Nat /\ Cardinality(before) \in Nat
      /\ Called(lineup, played) \in SUBSET (1..Len(b)) /\ DOMAIN s = 1..Len(s)
  <2>1. /\ DOMAIN b = 1..Len(b) /\ Len(b) \in Nat /\ MaxSubstitutions \in Nat
        /\ Called(lineup, played) \in SUBSET (1..Len(b)) /\ DOMAIN s = 1..Len(s)
    BY SubstitutionSets
  <2>2. Cardinality(before) \in Nat
    BY <2>1, PlacesFinite DEF Entering
  <2>3. b[k] \in Athletes
    BY <2>1 DEF Fielded
  <2> QED
    BY <2>1, <2>2, <2>3 DEF Entered
<1>2. PICK pos : Settled(lineup, played, k - 1, line, pos)
  BY DEF Entered
<1>3. Used(s, line) = Cardinality(before)
  BY <1>1, <1>2, UsedIs
<1>4. /\ Cardinality(before) < MaxSubstitutions /\ k \in Called(lineup, played) => after = before \cup {k}
      /\ ~(Cardinality(before) < MaxSubstitutions /\ k \in Called(lineup, played)) => after = before
  BY EnteringNext
<1>5. k \in Called(lineup, played) => b[k] \in played
  BY DEF Called
<1>6. b[k] \in played /\ Cardinality(before) < MaxSubstitutions => (out # {} <=> k \in Called(lineup, played))
  BY <1>1, <1>2, TurnComes
<1>7. CASE Used(s, line) >= MaxSubstitutions \/ b[k] \notin played \/ out = {}
  <2>1. Enter(s, line, b[k], played) = line
    BY <1>7 DEF Enter
  <2>2. after = before
    BY <1>1, <1>3, <1>4, <1>5, <1>6, <1>7
  <2>3. Settled(lineup, played, k, line, pos)
    BY <1>2, <2>2 DEF Settled
  <2> QED
    BY <1>1, <2>1, <2>3 DEF Entered
<1>8. CASE ~(Used(s, line) >= MaxSubstitutions \/ b[k] \notin played \/ out = {})
  <2> DEFINE p == Min(out)
  <2> DEFINE new == [line EXCEPT ![p] = b[k]]
  <2> DEFINE pos2 == [j \in after |-> IF j = k THEN p ELSE pos[j]]
  <2>1. Enter(s, line, b[k], played) = new
    BY <1>8 DEF Enter
  <2>2. after = before \cup {k}
    BY <1>1, <1>3, <1>4, <1>6, <1>8
  <2>3. k \notin before
    BY <1>1 DEF Entering, FirstPlaces
  <2>4. p \in out
    <3>1. out \subseteq Nat /\ out # {}
      BY <1>1, <1>8 DEF Waiting
    <3> HIDE DEF out
    <3>2. \E n \in out : \A l \in out : n <= l
      BY <3>1, SmallestOf
    <3> QED
      BY <3>2, Zenon DEF Min
  <2>5. p \in DOMAIN s /\ Role[line[p]] = Role[b[k]] /\ line[p] \notin played
    <3> HIDE DEF p
    <3> QED
      BY <1>1, <2>4 DEF Waiting
  <2> HIDE DEF p
  <2>6. /\ pos \in [before -> DOMAIN s] /\ \A j, l \in before : pos[j] = pos[l] => j = l
        /\ \A j \in before : /\ line[pos[j]] = b[j] /\ s[pos[j]] \notin played
                             /\ Role[s[pos[j]]] = Role[b[j]]
        /\ \A i \in DOMAIN s : (\A j \in before : pos[j] # i) => line[i] = s[i]
    BY <1>2 DEF Settled
  <2>7. \A j \in before : b[j] \in played
    BY DEF Entering, FirstPlaces, Called
  <2>8. \A j \in before : pos[j] # p
    BY <2>5, <2>6, <2>7
  <2>9. line[p] = s[p]
    BY <2>5, <2>6, <2>8
  <2> HIDE DEF before, after
  <2>10. /\ new \in [DOMAIN s -> Athletes] /\ new[p] = b[k]
         /\ \A i \in DOMAIN s : i # p => new[i] = line[i]
    BY <1>1, <2>5
  <2>11. /\ pos2 \in [after -> DOMAIN s] /\ pos2[k] = p /\ k \in after
         /\ \A j \in before : j \in after /\ pos2[j] = pos[j]
    BY <2>2, <2>3, <2>5, <2>6
  <2> HIDE DEF new, pos2
  <2>12. \A j, l \in after : pos2[j] = pos2[l] => j = l
    BY <2>2, <2>6, <2>8, <2>11
  <2>13. ASSUME NEW j \in after
         PROVE  new[pos2[j]] = b[j] /\ s[pos2[j]] \notin played /\ Role[s[pos2[j]]] = Role[b[j]]
    <3>1. CASE j = k
      BY <2>5, <2>9, <2>10, <2>11, <3>1
    <3>2. CASE j \in before
      BY <2>6, <2>8, <2>10, <2>11, <3>2
    <3> QED
      BY <2>2, <3>1, <3>2
  <2>14. ASSUME NEW i \in DOMAIN s, \A j \in after : pos2[j] # i
         PROVE  new[i] = s[i]
    <3>1. i # p /\ \A j \in before : pos[j] # i
      BY <2>11, <2>14
    <3> QED
      BY <2>6, <2>10, <3>1
  <2>15. Settled(lineup, played, k, new, pos2)
    BY <2>11, <2>12, <2>13, <2>14 DEF Settled, after
  <2> QED
    BY <2>1, <2>10, <2>15 DEF Entered
<1> QED
  BY <1>7, <1>8

LEMMA EnterType ==
  ASSUME NEW n, NEW starters, NEW line \in [n -> Athletes], NEW a \in Athletes, NEW played
  PROVE  Enter(starters, line, a, played) \in [n -> Athletes]
BY DEF Enter

\* The walk along the bench settles everybody who enters.
LEMMA SubstituteIs ==
  ASSUME NEW lineup, Fielded(lineup), NEW played
  PROVE  Entered(lineup, played, Len(lineup.bench), Substitute(lineup, played))
<1> DEFINE s == lineup.starters
<1> DEFINE b == lineup.bench
<1> DEFINE m == Len(b)
<1> DEFINE S == [DOMAIN s -> Athletes]
<1> DEFINE step == [p \in (1..m) \X S |-> Enter(s, p[2], b[p[1]], played)]
<1> DEFINE body(f) == [k \in 0..m |-> IF k = 0 THEN s ELSE Enter(s, f[k - 1], b[k], played)]
<1>1. m \in Nat /\ s \in S /\ \A k \in 1..m : b[k] \in Athletes
  BY SubstitutionSets DEF Fielded
<1>2. /\ step \in [(1..m) \X S -> S]
      /\ \A k \in 1..m, line \in S : step[<<k, line>>] = Enter(s, line, b[k], played)
  <2>1. \A k \in 1..m, line \in S : Enter(s, line, b[k], played) \in S
    BY <1>1, EnterType
  <2> HIDE DEF S, s, b, m
  <2>2. \A p \in (1..m) \X S : Enter(s, p[2], b[p[1]], played) \in S
    BY <2>1
  <2> QED
    BY <2>2
<1> HIDE DEF step, S
<1>3. PICK f : Recurs(f, m, S, s, step)
  BY <1>1, <1>2, Recursion
<1>4. /\ f \in [0..m -> S] /\ f[0] = s
      /\ \A k \in 1..m : f[k] = Enter(s, f[k - 1], b[k], played)
  <2>1. \A k \in 1..m : k - 1 \in 0..m
    BY <1>1
  <2>2. \A k \in 1..m : f[k] = step[<<k, f[k - 1]>>] /\ f[k - 1] \in S
    BY <1>3, <2>1 DEF Recurs
  <2> QED
    BY <1>2, <1>3, <2>2 DEF Recurs
<1>5. f = body(f)
  <2>1. \A k \in 0..m : f[k] = IF k = 0 THEN s ELSE Enter(s, f[k - 1], b[k], played)
    <3>1. \A k \in 0..m : k = 0 \/ k \in 1..m
      BY <1>1
    <3>2. ASSUME NEW k \in 1..m
          PROVE  k # 0
      OBVIOUS
    <3> QED
      BY <1>4, <3>1, <3>2
  <2>2. f = [k \in 0..m |-> f[k]]
    BY <1>4
  <2> QED
    BY <2>1, <2>2
<1> DEFINE line == CHOOSE g : g = body(g)
<1>6. line = body(line)
  BY <1>5, Zenon
<1>7. Substitute(lineup, played) = line[m]
  BY Zenon DEF Substitute
<1> HIDE DEF line
<1>8. line[0] = s /\ \A k \in 1..m : line[k] = Enter(s, line[k - 1], b[k], played)
  <2>1. \A k \in 0..m : line[k] = IF k = 0 THEN s ELSE Enter(s, line[k - 1], b[k], played)
    BY <1>6
  <2>2. 0 \in 0..m /\ \A k \in 1..m : k \in 0..m /\ k # 0
    BY <1>1
  <2> QED
    BY <2>1, <2>2
<1> DEFINE good == {k \in 0..m : Entered(lineup, played, k, line[k])}
<1>9. 0 \in good
  <2>1. Entering(lineup, played, 0) = {}
    <3>1. \A j \in Called(lineup, played) : ~(j <= 0)
      <4>1. \A j \in Called(lineup, played) : j \in 1..m
        BY SubstitutionSets
      <4> QED
        BY <4>1
    <3> QED
      BY <3>1 DEF Entering, FirstPlaces
  <2> DEFINE none == [j \in {} |-> j]
  <2>2. none \in [{} -> DOMAIN s]
    OBVIOUS
  <2> HIDE DEF none
  <2>3. Settled(lineup, played, 0, s, none)
    BY <2>1, <2>2 DEF Settled
  <2>4. Entered(lineup, played, 0, s)
    BY <1>1, <2>3 DEF Entered, S
  <2> QED
    BY <1>1, <1>8, <2>4
<1>10. ASSUME NEW k \in 1..m, k - 1 \in good
       PROVE  k \in good
  <2>1. Entered(lineup, played, k - 1, line[k - 1]) /\ k \in 0..m
    BY <1>1, <1>10
  <2>2. Entered(lineup, played, k, Enter(s, line[k - 1], b[k], played))
    BY <2>1, EnterNext
  <2> QED
    BY <1>8, <2>1, <2>2
<1> HIDE DEF good
<1>11. m \in good
  <2>1. good \in SUBSET (0..m)
    BY DEF good
  <2>2. good = 0..m
    BY <1>1, <1>9, <1>10, <2>1, UpTo
  <2> QED
    BY <1>1, <2>2
<1> QED
  BY <1>7, <1>11 DEF good

\* Those whom the rules name are those who enter in the end.
LEMMA EntitledIs ==
  ASSUME NEW lineup, Fielded(lineup), NEW played
  PROVE  Entitled(lineup, played) = {lineup.bench[j] : j \in Entering(lineup, played, Len(lineup.bench))}
<1> DEFINE s == lineup.starters
<1> DEFINE b == lineup.bench
<1> DEFINE m == Len(b)
<1> DEFINE voteless(r) == Cardinality({a \in Starters(lineup) \ played : Role[a] = r})
<1> DEFINE queue(i) == Cardinality({j \in 1..i : b[j] \in played /\ Role[b[j]] = Role[b[i]]})
<1> DEFINE called == {i \in DOMAIN b : b[i] \in played /\ queue(i) <= voteless(Role[b[i]])}
<1>1. Entitled(lineup, played) =
        {b[i] : i \in {j \in called : Cardinality({k \in called : k <= j}) <= MaxSubstitutions}}
  BY DEF Entitled
<1>2. /\ m \in Nat /\ DOMAIN b = 1..m /\ DOMAIN s = 1..Len(s) /\ Len(s) \in Nat
      /\ s \in Seq(Athletes) /\ Injective(s) /\ Called(lineup, played) \in SUBSET (1..m)
  BY SubstitutionSets DEF Fielded
<1>3. ASSUME NEW r
      PROVE  voteless(r) = Cardinality(Vacant(lineup, played, r))
  <2> DEFINE who == {a \in Starters(lineup) \ played : Role[a] = r}
  <2> DEFINE vacant == Vacant(lineup, played, r)
  <2> DEFINE f == [i \in vacant |-> s[i]]
  <2>1. IsFiniteSet(vacant)
    BY SubstitutionSets
  <2>2. Starters(lineup) = Range(s)
    BY <1>2, PlacesOfAthletes DEF Starters
  <2>3. \A i \in vacant : i \in 1..Len(s) /\ s[i] \in who
    <3>1. \A i \in vacant : i \in 1..Len(s) /\ s[i] \notin played /\ Role[s[i]] = r
      BY <1>2 DEF Vacant
    <3>2. \A i \in 1..Len(s) : s[i] \in Range(s)
      BY <1>2, InRange
    <3> QED
      BY <2>2, <3>1, <3>2
  <2>4. \A a \in who : \E i \in vacant : s[i] = a
    <3> SUFFICES ASSUME NEW a \in who
                 PROVE  \E i \in vacant : s[i] = a
      OBVIOUS
    <3>1. PICK i \in 1..Len(s) : s[i] = a
      BY <1>2, <2>2, InRange
    <3> QED
      BY <1>2, <3>1 DEF Vacant
  <2>5. \A i, j \in vacant : s[i] = s[j] => i = j
    BY <1>2, <2>3 DEF Injective
  <2> HIDE DEF vacant, who
  <2>6. f \in [vacant -> who] /\ f \in Surjection(vacant, who) /\ f \in Injection(vacant, who)
    <3>1. f \in [vacant -> who] /\ \A i \in vacant : f[i] = s[i]
      BY <2>3
    <3> HIDE DEF f
    <3> QED
      BY <2>4, <2>5, <3>1 DEF Surjection, Injection, IsInjective
  <2> HIDE DEF f
  <2>7. Cardinality(who) = Cardinality(vacant)
    BY <2>1, <2>6, FS_Surjection
  <2> QED
    BY <2>7 DEF who, vacant
<1>4. ASSUME NEW i \in 1..m
      PROVE  queue(i) = Cardinality(UpToPlace(Queued(lineup, played, Role[b[i]]), i))
  <2>1. \A j \in Int : j \in 1..i <=> j \in 1..m /\ j <= i
    BY <1>2
  <2>2. {j \in 1..i : b[j] \in played /\ Role[b[j]] = Role[b[i]]}
          = UpToPlace(Queued(lineup, played, Role[b[i]]), i)
    BY <1>2, <2>1 DEF UpToPlace, Queued
  <2> QED
    BY <2>2
<1> HIDE DEF voteless, queue
<1>5. called = Called(lineup, played)
  BY <1>2, <1>3, <1>4 DEF Called
<1> HIDE DEF called
<1>6. {j \in called : Cardinality({k \in called : k <= j}) <= MaxSubstitutions} = Entering(lineup, played, m)
  <2>1. \A j \in called : j <= m
    BY <1>2, <1>5
  <2>2. \A j \in called : UpToPlace(called, j) = {k \in called : k <= j}
    BY DEF UpToPlace
  <2> QED
    BY <1>5, <2>1, <2>2 DEF Entering, FirstPlaces
<1> QED
  BY <1>1, <1>6

\* What a settled line is to the line-up.
LEMMA SettledIsSound ==
  ASSUME NEW lineup, Fielded(lineup), NEW played, NEW line, Entered(lineup, played, Len(lineup.bench), line)
  PROVE  /\ Range(line) \ Starters(lineup) = Entitled(lineup, played)
         /\ (Starters(lineup) \ Range(line)) \cap played = {}
         /\ Cardinality(Range(line)) = Len(line)
         /\ RoleCounts(line) = RoleCounts(lineup.starters)
<1> DEFINE s == lineup.starters
<1> DEFINE b == lineup.bench
<1> DEFINE E == Entering(lineup, played, Len(b))
<1> DEFINE n == Len(s)
<1>1. /\ n \in Nat /\ DOMAIN s = 1..n /\ DOMAIN b = 1..Len(b) /\ E \subseteq DOMAIN b
      /\ s \in Seq(Athletes) /\ b \in Seq(Athletes) /\ Injective(s) /\ Injective(b)
      /\ Range(s) \cap Range(b) = {}
  BY SubstitutionSets DEF Fielded, Entering, FirstPlaces
<1>2. line \in [1..n -> Athletes]
  BY <1>1 DEF Entered
<1>3. PICK pos : /\ pos \in [E -> 1..n] /\ \A j, l \in E : pos[j] = pos[l] => j = l
                 /\ \A j \in E : /\ line[pos[j]] = b[j] /\ s[pos[j]] \notin played
                                 /\ Role[s[pos[j]]] = Role[b[j]]
                 /\ \A i \in 1..n : (\A j \in E : pos[j] # i) => line[i] = s[i]
  <2>1. PICK pos : Settled(lineup, played, Len(b), line, pos)
    BY DEF Entered
  <2> QED
    BY <1>1, <2>1 DEF Settled
<1>4. Starters(lineup) = Range(s)
  BY <1>1, PlacesOfAthletes DEF Starters
<1>5. line \in Seq(Athletes) /\ Len(line) = n /\ DOMAIN line = 1..n
  BY <1>1, <1>2
<1>6. Entitled(lineup, played) = {b[j] : j \in E}
  BY EntitledIs
<1> HIDE DEF E
<1>7. \A i \in 1..n : line[i] = s[i] \/ \E j \in E : pos[j] = i /\ line[i] = b[j]
  BY <1>3
<1>8. \A i \in 1..n : s[i] \in Range(s) /\ line[i] \in Range(line)
  BY <1>1, <1>5, InRange
<1>9. \A j \in E : b[j] \in Range(b) /\ b[j] \notin Range(s)
  <2>1. \A j \in E : b[j] \in Range(b)
    BY <1>1, InRange
  <2> QED
    BY <1>1, <2>1
<1>10. Range(line) \ Starters(lineup) = Entitled(lineup, played)
  <2>1. ASSUME NEW a \in Range(line) \ Range(s)
        PROVE  \E j \in E : b[j] = a
    <3>1. PICK i \in 1..n : line[i] = a
      BY <1>5, InRange
    <3> QED
      BY <1>7, <1>8, <2>1, <3>1
  <2>2. ASSUME NEW j \in E
        PROVE  b[j] \in Range(line) \ Range(s)
    <3>1. pos[j] \in 1..n /\ line[pos[j]] = b[j]
      BY <1>3
    <3> QED
      BY <1>8, <1>9, <3>1
  <2> QED
    BY <1>4, <1>6, <2>1, <2>2
<1>11. (Starters(lineup) \ Range(line)) \cap played = {}
  <2> SUFFICES ASSUME NEW a \in Range(s) \ Range(line)
               PROVE  a \notin played
    BY <1>4
  <2>1. PICK i \in 1..n : s[i] = a
    BY <1>1, InRange
  <2>2. line[i] # s[i]
    BY <1>8, <2>1
  <2>3. PICK j \in E : pos[j] = i
    BY <1>7, <2>2
  <2> QED
    BY <1>3, <2>1, <2>3
<1>12. \A i, l \in 1..n : line[i] = line[l] => i = l
  <2> SUFFICES ASSUME NEW i \in 1..n, NEW l \in 1..n, line[i] = line[l]
               PROVE  i = l
    OBVIOUS
  <2>1. CASE line[i] = s[i] /\ line[l] = s[l]
    BY <1>1, <2>1 DEF Injective
  <2>2. CASE line[i] = s[i] /\ \E j \in E : pos[j] = l /\ line[l] = b[j]
    BY <1>8, <1>9, <2>2
  <2>3. CASE line[l] = s[l] /\ \E j \in E : pos[j] = i /\ line[i] = b[j]
    BY <1>8, <1>9, <2>3
  <2>4. ASSUME NEW j \in E, NEW k \in E, pos[j] = i, line[i] = b[j], pos[k] = l, line[l] = b[k]
        PROVE  i = l
    <3>1. j = k
      BY <1>1, <2>4 DEF Injective
    <3> QED
      BY <2>4, <3>1
  <2> QED
    BY <1>7, <2>1, <2>2, <2>3, <2>4
<1>13. Cardinality(Range(line)) = Len(line)
  <2>1. line \in [1..n -> Range(line)]
    BY <1>2, <1>8
  <2>2. line \in Surjection(1..n, Range(line))
    BY <1>5, <2>1, InRange DEF Surjection
  <2>3. line \in Injection(1..n, Range(line))
    BY <1>12, <2>1 DEF Injection, IsInjective
  <2>4. IsFiniteSet(1..n) /\ Cardinality(1..n) = n
    BY <1>1, Counting
  <2> QED
    BY <1>5, <2>2, <2>3, <2>4, FS_Surjection
<1>14. RoleCounts(line) = RoleCounts(s)
  <2>1. \A i \in 1..n : Role[line[i]] = Role[s[i]]
    BY <1>3, <1>7
  <2>2. \A r \in Roles : {i \in DOMAIN line : Role[line[i]] = r} = {i \in DOMAIN s : Role[s[i]] = r}
    BY <1>1, <1>5, <2>1
  <2> QED
    BY <2>2 DEF RoleCounts
<1> QED
  BY <1>10, <1>11, <1>13, <1>14

\* The invariant of the substitutions: what is submitted fields everybody once.
THEOREM LineupsFieldEverybodyOnce == LineupsSpec => []SubmissionIsFielded
<1>1. LineupsInit => SubmissionIsFielded
  BY DEF LineupsInit, SubmissionIsFielded
<1>2. LocksInv /\ SubmissionIsFielded /\ [LineupsNext]_lineupsVars => SubmissionIsFielded'
  <2>1. ASSUME LocksInv, SubmissionIsFielded, LineupsNext
        PROVE  SubmissionIsFielded'
    <3>1. CASE submission' = submission
      BY <2>1, <3>1 DEF SubmissionIsFielded, Fielded, Injective
    <3>2. CASE submission' # submission
      BY <2>1, <3>2, SubmissionTypeKept DEF LocksInv, SubmissionIsFielded, Fielded, Injective
    <3> QED
      BY <3>1, <3>2
  <2>2. ASSUME SubmissionIsFielded, UNCHANGED lineupsVars
        PROVE  SubmissionIsFielded'
    BY <2>2 DEF lineupsVars, SubmissionIsFielded, Fielded, Injective
  <2> QED
    BY <2>1, <2>2
<1> QED
  BY <1>1, <1>2, LineupsLocksHold, PTL DEF LineupsSpec

\* The walk along the bench sends in exactly those whom the rules name, role by
\* role and up to the limit, and keeps the module: for every line-up that is
\* sent, drafted or copied, every bench, every limit and every set of votes.
THEOREM LineupsSubstitutionsSound == LineupsSpec => []SubstitutionsSound
<1>1. SubmissionIsFielded => SubstitutionsSound
  <2> SUFFICES ASSUME SubmissionIsFielded, submission # None, NEW voted \in Voted
               PROVE  LET played == Played(voted)
                          result == Substitute(Confirmed, played)
                          out == Starters(Confirmed) \ Range(result)
                      IN /\ Range(result) \ Starters(Confirmed) = Entitled(Confirmed, played)
                         /\ out \cap played = {}
                         /\ Cardinality(Range(result)) = Len(result)
                         /\ RoleCounts(result) = RoleCounts(Confirmed.starters)
    BY DEF SubstitutionsSound
  <2> DEFINE lineup == Confirmed
  <2> DEFINE played == Played(voted)
  <2>1. Fielded(lineup)
    BY DEF SubmissionIsFielded, Confirmed
  <2> HIDE DEF lineup, played
  <2>2. Entered(lineup, played, Len(lineup.bench), Substitute(lineup, played))
    BY <2>1, SubstituteIs
  <2> DEFINE result == Substitute(lineup, played)
  <2>3. /\ Range(result) \ Starters(lineup) = Entitled(lineup, played)
        /\ (Starters(lineup) \ Range(result)) \cap played = {}
        /\ Cardinality(Range(result)) = Len(result)
        /\ RoleCounts(result) = RoleCounts(lineup.starters)
    BY <2>1, <2>2, SettledIsSound
  <2> QED
    BY <2>3 DEF lineup, played
<1> QED
  BY <1>1, LineupsFieldEverybodyOnce, PTL

-----------------------------------------------------------------------------
(* Notifications *)

Statuses == {"none", "scheduled", "sent", "cancelled"}

Transactions ==
  [taken : SUBSET Sources, failed : SUBSET Broadcasts, todo : SUBSET Keys, written : SUBSET Keys]

NotificationsTypeOK ==
  /\ status \in [Broadcasts -> Statuses]
  /\ rows \subseteq Keys /\ pushes \in [Keys -> Nat]
  /\ open \in [Workers -> Transactions]

(* A transaction works on broadcasts nobody else holds and that are not    *)
(* sent yet, and writes keys of theirs that no one else has written.       *)
Exclusive ==
  \A w \in Workers :
    /\ \A b \in open[w].taken \cap Broadcasts : status[b] \in {"none", "scheduled"}
    /\ \A k \in open[w].todo \cup open[w].written : k[1] \in open[w].taken
    /\ open[w].written \cap rows = {}
    /\ \A v \in Workers \ {w} : /\ open[w].taken \cap open[v].taken \cap Broadcasts = {}
                                 /\ open[w].written \cap open[v].written = {}

\* Whom a delivery has not reached yet is still to do, unless it raised.
Covered ==
  \A w \in Workers : \A b \in (open[w].taken \cap Broadcasts) \ open[w].failed :
    {b} \X (Users \ Muted) \subseteq open[w].todo \cup open[w].written \cup rows

\* A key nobody has written has not been pushed.
PushedWithRow ==
  \A k \in Keys :
    \/ pushes[k] = 0
    \/ pushes[k] = 1 /\ (k \in rows \/ \E w \in Workers : k \in open[w].written)

DeliveryInv == NotificationsTypeOK /\ Exclusive /\ Covered /\ SentReachesAll /\ PushedWithRow

-----------------------------------------------------------------------------
(* Transactions *)

LEMMA IdleType == Idle \in Transactions
BY DEF Idle, Transactions

\* A transaction begins on broadcasts that nobody holds, with all their keys.
LEMMA BeginKeeps ==
  ASSUME DeliveryInv, NEW w \in Workers, NEW sources \in SUBSET Sources, NEW keys \in SUBSET Keys,
         Begin(w, sources, keys), status' = status,
         \A b \in sources \cap Broadcasts : status[b] \in {"none", "scheduled"} /\ ~Locked(b),
         \A k \in keys : k[1] \in sources,
         \A b \in sources \cap Broadcasts : {b} \X Users \subseteq keys
  PROVE  DeliveryInv'
<1> DEFINE t == [Idle EXCEPT !.taken = sources, !.todo = keys]
<1>1. /\ t \in Transactions /\ t.taken = sources /\ t.todo = keys /\ t.failed = {} /\ t.written = {}
  BY DEF Idle, Transactions
<1> HIDE DEF t
<1>2. open' = [open EXCEPT ![w] = t] /\ rows' = rows /\ pushes' = pushes
  BY DEF Begin, t
<1>3. /\ open'[w] = t /\ \A v \in Workers \ {w} : open'[v] = open[v]
      /\ open' \in [Workers -> Transactions]
  BY <1>1, <1>2 DEF DeliveryInv, NotificationsTypeOK
<1>4. ~Busy(w) /\ open[w].todo = {} /\ open[w].written = {}
  BY DEF Begin, Busy, DeliveryInv, Exclusive
<1>5. NotificationsTypeOK'
  BY <1>2, <1>3 DEF DeliveryInv, NotificationsTypeOK
<1>6. Exclusive'
  <2>1. \A v \in Workers \ {w} : t.taken \cap open[v].taken \cap Broadcasts = {}
    BY <1>1 DEF Locked
  <2> QED BY <1>1, <1>2, <1>3, <2>1 DEF DeliveryInv, Exclusive
<1>7. Covered'
  BY <1>1, <1>2, <1>3 DEF DeliveryInv, Covered
<1>8. SentReachesAll'
  BY <1>2 DEF DeliveryInv, SentReachesAll
<1>9. PushedWithRow'
  BY <1>2, <1>3, <1>4 DEF DeliveryInv, PushedWithRow
<1> QED BY <1>5, <1>6, <1>7, <1>8, <1>9 DEF DeliveryInv

\* A transaction that is rolled back leaves no trace.
LEMMA RollbackKeeps ==
  ASSUME DeliveryInv, NEW w \in Workers, Rollback(w)
  PROVE  DeliveryInv'
<1>1. /\ open'[w] = Idle /\ \A v \in Workers \ {w} : open'[v] = open[v]
      /\ open' \in [Workers -> Transactions] /\ rows' = rows /\ status' = status
  BY IdleType DEF Rollback, DeliveryInv, NotificationsTypeOK
<1>2. Idle.taken = {} /\ Idle.failed = {} /\ Idle.todo = {} /\ Idle.written = {}
  BY DEF Idle
<1>3. NotificationsTypeOK'
  BY <1>1 DEF Rollback, DeliveryInv, NotificationsTypeOK
<1>4. Exclusive'
  BY <1>1, <1>2 DEF DeliveryInv, Exclusive
<1>5. Covered'
  BY <1>1, <1>2 DEF DeliveryInv, Covered
<1>6. SentReachesAll'
  BY <1>1 DEF DeliveryInv, SentReachesAll
<1>7. PushedWithRow'
  BY <1>1, <1>2 DEF DeliveryInv, PushedWithRow, Rollback
<1> QED BY <1>3, <1>4, <1>5, <1>6, <1>7 DEF DeliveryInv

\* A user is notified, is muted or was notified before.
LEMMA NotifyKeeps ==
  ASSUME DeliveryInv, NEW w \in Workers, NEW k \in Keys, Notify(w, k)
  PROVE  DeliveryInv'
<1> DEFINE new == k \notin Known(w) /\ k[2] \notin Muted
           t == [open[w] EXCEPT !.todo = @ \ {k}, !.written = IF new THEN @ \cup {k} ELSE @]
<1>0. open[w] \in Transactions /\ k \in open[w].todo /\ rows' = rows /\ status' = status
  BY DEF Notify, DeliveryInv, NotificationsTypeOK
<1>1. /\ t \in Transactions /\ t.taken = open[w].taken /\ t.failed = open[w].failed
      /\ t.todo = open[w].todo \ {k} /\ t.written = IF new THEN open[w].written \cup {k} ELSE open[w].written
  BY <1>0 DEF Transactions
<1>2. open' = [open EXCEPT ![w] = t]
      /\ pushes' = [pushes EXCEPT ![k] = IF new /\ k[2] \in Pushable THEN @ + 1 ELSE @]
  BY DEF Notify
<1>3. new => k \notin rows /\ \A v \in Workers : k \notin open[v].written
  BY DEF Notify, Known
<1>4. ~new => k \in rows \/ k \in open[w].written \/ k[2] \in Muted
  BY DEF Known
<1> HIDE DEF new, t
<1>5. /\ open'[w] = t /\ \A v \in Workers \ {w} : open'[v] = open[v]
      /\ open' \in [Workers -> Transactions]
  BY <1>1, <1>2 DEF DeliveryInv, NotificationsTypeOK
<1>6. NotificationsTypeOK'
  <2>1. pushes' \in [Keys -> Nat]
    BY <1>2 DEF DeliveryInv, NotificationsTypeOK
  <2> QED BY <1>0, <1>5, <2>1 DEF DeliveryInv, NotificationsTypeOK
<1>7. Exclusive'
  BY <1>0, <1>1, <1>3, <1>5 DEF DeliveryInv, Exclusive
<1>8. Covered'
  <2> SUFFICES ASSUME NEW v \in Workers, NEW b \in (open'[v].taken \cap Broadcasts) \ open'[v].failed,
                      NEW u \in Users \ Muted
               PROVE  <<b, u>> \in open'[v].todo \cup open'[v].written \cup rows'
    BY DEF Covered
  <2>1. <<b, u>> \in open[v].todo \cup open[v].written \cup rows
    BY <1>1, <1>5 DEF DeliveryInv, Covered
  <2>2. CASE v = w /\ <<b, u>> = k
    BY <1>0, <1>1, <1>4, <1>5, <2>2
  <2>3. CASE ~(v = w /\ <<b, u>> = k)
    BY <1>0, <1>1, <1>5, <2>1, <2>3
  <2> QED BY <2>2, <2>3
<1>9. SentReachesAll'
  BY <1>0 DEF DeliveryInv, SentReachesAll
<1>10. PushedWithRow'
  <2> SUFFICES ASSUME NEW l \in Keys
               PROVE  \/ pushes'[l] = 0
                      \/ pushes'[l] = 1 /\ (l \in rows' \/ \E v \in Workers : l \in open'[v].written)
    BY DEF PushedWithRow
  <2>1. CASE l = k /\ new
    <3>1. pushes[k] = 0
      BY <1>3, <2>1 DEF DeliveryInv, PushedWithRow
    <3>2. pushes'[k] \in {0, 1}
      BY <1>2, <3>1 DEF DeliveryInv, NotificationsTypeOK
    <3> QED BY <1>1, <1>5, <2>1, <3>2
  <2>2. CASE ~(l = k /\ new)
    <3>1. pushes'[l] = pushes[l]
      BY <1>2, <2>2 DEF DeliveryInv, NotificationsTypeOK
    <3>2. \A v \in Workers : open[v].written \subseteq open'[v].written
      BY <1>1, <1>5
    <3> QED BY <1>0, <3>1, <3>2 DEF DeliveryInv, PushedWithRow
  <2> QED BY <2>1, <2>2
<1> QED BY <1>6, <1>7, <1>8, <1>9, <1>10 DEF DeliveryInv

\* A commit settles the broadcasts it took: those that did not raise have
\* reached everybody.
LEMMA CommitKeeps ==
  ASSUME DeliveryInv, NEW w \in Workers, Commit(w)
  PROVE  DeliveryInv'
<1>1. /\ open'[w] = Idle /\ \A v \in Workers \ {w} : open'[v] = open[v]
      /\ open' \in [Workers -> Transactions]
      /\ rows' = rows \cup open[w].written /\ pushes' = pushes /\ open[w].todo = {}
  BY IdleType DEF Commit, DeliveryInv, NotificationsTypeOK
<1>2. Idle.taken = {} /\ Idle.failed = {} /\ Idle.todo = {} /\ Idle.written = {}
  BY DEF Idle
<1>3. \A b \in Broadcasts :
        status'[b] = IF b \in open[w].taken THEN (IF b \in open[w].failed THEN "scheduled" ELSE "sent")
                     ELSE status[b]
  BY DEF Commit, Outcome
<1>4. NotificationsTypeOK'
  <2>1. open[w].written \subseteq Keys
    BY DEF DeliveryInv, NotificationsTypeOK, Transactions
  <2>2. status' \in [Broadcasts -> Statuses]
    BY DEF Commit, Outcome, Statuses, DeliveryInv, NotificationsTypeOK
  <2> QED BY <1>1, <2>1, <2>2 DEF DeliveryInv, NotificationsTypeOK
<1>5. Exclusive'
  <2>1. \A v \in Workers \ {w} : \A b \in open[v].taken \cap Broadcasts : b \notin open[w].taken
    BY DEF DeliveryInv, Exclusive
  <2> QED BY <1>1, <1>2, <1>3, <2>1 DEF DeliveryInv, Exclusive
<1>6. Covered'
  BY <1>1, <1>2 DEF DeliveryInv, Covered
<1>7. SentReachesAll'
  <2> SUFFICES ASSUME NEW b \in Broadcasts, status'[b] = "sent"
               PROVE  {b} \X (Users \ Muted) \subseteq rows'
    BY DEF SentReachesAll
  <2>1. CASE b \in open[w].taken
    BY <1>1, <1>3, <2>1 DEF DeliveryInv, Covered
  <2>2. CASE b \notin open[w].taken
    BY <1>1, <1>3, <2>2 DEF DeliveryInv, SentReachesAll
  <2> QED BY <2>1, <2>2
<1>8. PushedWithRow'
  BY <1>1 DEF DeliveryInv, PushedWithRow
<1> QED BY <1>4, <1>5, <1>6, <1>7, <1>8 DEF DeliveryInv

\* A delivery that raises gives its broadcast up.
LEMMA RaiseKeeps ==
  ASSUME DeliveryInv, NEW w \in Workers, NEW b \in Broadcasts, DeliveryRaises(w, b)
  PROVE  DeliveryInv'
<1>1. CASE status[b] = "none"
  BY <1>1, RollbackKeeps DEF DeliveryRaises
<1>2. CASE status[b] # "none"
  <2> DEFINE t == [open[w] EXCEPT !.todo = @ \ ({b} \X Users), !.failed = @ \cup {b}]
  <2>0. open[w] \in Transactions
    BY DEF DeliveryInv, NotificationsTypeOK
  <2>1. /\ t \in Transactions /\ t.taken = open[w].taken /\ t.failed = open[w].failed \cup {b}
        /\ t.todo = open[w].todo \ ({b} \X Users) /\ t.written = open[w].written
    BY <2>0 DEF Transactions
  <2>2. open' = [open EXCEPT ![w] = t] /\ UNCHANGED <<status, rows, pushes>>
    BY <1>2 DEF DeliveryRaises
  <2> HIDE DEF t
  <2>3. /\ open'[w] = t /\ \A v \in Workers \ {w} : open'[v] = open[v]
        /\ open' \in [Workers -> Transactions]
    BY <2>1, <2>2 DEF DeliveryInv, NotificationsTypeOK
  <2>4. NotificationsTypeOK'
    BY <2>2, <2>3 DEF DeliveryInv, NotificationsTypeOK
  <2>5. Exclusive'
    BY <2>1, <2>2, <2>3 DEF DeliveryInv, Exclusive
  <2>6. Covered'
    BY <2>1, <2>2, <2>3 DEF DeliveryInv, Covered
  <2>7. SentReachesAll' /\ PushedWithRow'
    BY <2>1, <2>2, <2>3 DEF DeliveryInv, SentReachesAll, PushedWithRow
  <2> QED BY <2>4, <2>5, <2>6, <2>7 DEF DeliveryInv
<1> QED BY <1>1, <1>2

\* An operator schedules or cancels a broadcast that nobody is delivering.
LEMMA StatusKeeps ==
  ASSUME DeliveryInv, NEW b \in Broadcasts, NEW s \in {"scheduled", "cancelled"}, ~Locked(b),
         status' = [status EXCEPT ![b] = s], UNCHANGED <<rows, pushes, open>>
  PROVE  DeliveryInv'
<1>1. status'[b] = s /\ \A c \in Broadcasts \ {b} : status'[c] = status[c]
  BY DEF DeliveryInv, NotificationsTypeOK
<1>2. NotificationsTypeOK'
  BY DEF DeliveryInv, NotificationsTypeOK, Statuses
<1>3. Exclusive'
  BY <1>1 DEF DeliveryInv, Exclusive, Locked
<1>4. Covered' /\ SentReachesAll' /\ PushedWithRow'
  BY <1>1 DEF DeliveryInv, Covered, SentReachesAll, PushedWithRow
<1> QED BY <1>2, <1>3, <1>4 DEF DeliveryInv

-----------------------------------------------------------------------------
(* The specification *)

LEMMA DeliveryInvInit == NotificationsInit => DeliveryInv
<1> SUFFICES ASSUME NotificationsInit PROVE DeliveryInv
  OBVIOUS
<1>1. \A w \in Workers : open[w] = Idle
  BY DEF NotificationsInit
<1>2. Idle.taken = {} /\ Idle.failed = {} /\ Idle.todo = {} /\ Idle.written = {}
  BY DEF Idle
<1>3. NotificationsTypeOK
  BY IdleType DEF NotificationsInit, NotificationsTypeOK, Statuses
<1>4. Exclusive /\ Covered
  BY <1>1, <1>2 DEF Exclusive, Covered
<1>5. SentReachesAll /\ PushedWithRow
  BY DEF NotificationsInit, SentReachesAll, PushedWithRow
<1> QED BY <1>3, <1>4, <1>5 DEF DeliveryInv

LEMMA DeliveryInvNext == DeliveryInv /\ [NotificationsNext]_notificationsVars => DeliveryInv'
<1> SUFFICES ASSUME DeliveryInv, [NotificationsNext]_notificationsVars PROVE DeliveryInv'
  OBVIOUS
<1>1. ASSUME NEW w \in Workers, Commit(w) PROVE DeliveryInv'
  BY <1>1, CommitKeeps
<1>2. ASSUME NEW w \in Workers, Crash(w) \/ DeadlockEnds(w) PROVE DeliveryInv'
  BY <1>2, RollbackKeeps DEF Crash, DeadlockEnds
<1>3. ASSUME NEW w \in Workers, DispatchDue(w) PROVE DeliveryInv'
  <2> DEFINE taken == {b \in Broadcasts : Due(b)}
  <2>1. taken \subseteq Sources /\ taken \X Users \subseteq Keys
    BY DEF Sources, Keys
  <2>2. \A b \in taken : status[b] = "scheduled" /\ ~Locked(b)
    BY DEF Due
  <2>3. Begin(w, taken, taken \X Users) /\ status' = status
    BY <1>3 DEF DispatchDue
  <2> HIDE DEF taken
  <2>4. \A k \in taken \X Users : k[1] \in taken
    OBVIOUS
  <2>5. \A b \in taken : {b} \X Users \subseteq taken \X Users
    OBVIOUS
  <2> QED BY <2>1, <2>2, <2>3, <2>4, <2>5, BeginKeeps
<1>4. ASSUME NEW w \in Workers, SendReminders(w) PROVE DeliveryInv'
  <2> PICK pending \in SUBSET Users : Begin(w, {Reminder}, {Reminder} \X pending)
    BY <1>4 DEF SendReminders
  <2>1. {Reminder} \subseteq Sources /\ {Reminder} \X pending \subseteq Keys
    BY DEF Sources, Keys
  <2>2. {Reminder} \cap Broadcasts = {}
    BY NotificationsAssumption
  <2>3. \A k \in {Reminder} \X pending : k[1] \in {Reminder}
    OBVIOUS
  <2> QED BY <1>4, <2>1, <2>2, <2>3, BeginKeeps DEF SendReminders
<1>5. ASSUME NEW w \in Workers, NEW k \in Keys, Notify(w, k) PROVE DeliveryInv'
  BY <1>5, NotifyKeeps
<1>6. ASSUME NEW w \in Workers, NEW b \in Broadcasts, CreateBroadcast(w, b) PROVE DeliveryInv'
  <2>1. {b} \subseteq Sources /\ {b} \X Users \subseteq Keys
    BY DEF Sources, Keys
  <2>2. \A k \in {b} \X Users : k[1] \in {b}
    OBVIOUS
  <2> QED BY <1>6, <2>1, <2>2, BeginKeeps DEF CreateBroadcast
<1>7. ASSUME NEW w \in Workers, NEW b \in Broadcasts, DeliveryRaises(w, b) PROVE DeliveryInv'
  BY <1>7, RaiseKeeps
<1>8. ASSUME NEW b \in Broadcasts, ScheduleBroadcast(b) PROVE DeliveryInv'
  BY <1>8, StatusKeeps DEF ScheduleBroadcast
<1>9. ASSUME NEW b \in Broadcasts, CancelWrites(b) PROVE DeliveryInv'
  BY <1>9, StatusKeeps DEF CancelWrites
<1>10. CASE UNCHANGED <<status, rows, pushes, open>>
  BY <1>10 DEF DeliveryInv, NotificationsTypeOK, Exclusive, Covered, SentReachesAll, PushedWithRow
<1>11. ASSUME NEW b \in Broadcasts, TimeComes(b) \/ CancelReads(b) PROVE DeliveryInv'
  BY <1>10, <1>11 DEF TimeComes, CancelReads
<1>12. CASE UNCHANGED notificationsVars
  BY <1>10, <1>12 DEF notificationsVars
<1> QED BY <1>1, <1>2, <1>3, <1>4, <1>5, <1>6, <1>7, <1>8, <1>9, <1>11, <1>12
        DEF NotificationsNext, TaskNext, OperatorNext

\* Whatever crashes, raises or overlaps: a broadcast that is sent has reached
\* its whole audience (deliver, dispatch_due).
THEOREM SentIsComplete == NotificationsSpec => []SentReachesAll
<1>1. DeliveryInv => SentReachesAll
  BY DEF DeliveryInv
<1> QED BY <1>1, DeliveryInvInit, DeliveryInvNext, PTL DEF NotificationsSpec

\* No notification is pushed twice unless the transaction that wrote it was
\* rolled back (create_notification).
THEOREM PushedOnce == NotificationsSpec => []PushedOncePerRow
<1>1. DeliveryInv => PushedOncePerRow
  BY DEF DeliveryInv, PushedWithRow, PushedOncePerRow
<1> QED BY <1>1, DeliveryInvInit, DeliveryInvNext, PTL DEF NotificationsSpec

\* A key is written, pushed or forgotten by a transaction that holds its
\* broadcast, and no transaction holds a cancelled one.
LEMMA QuietStep ==
  ASSUME DeliveryInv, [NotificationsNext]_notificationsVars,
         NEW b \in Broadcasts, status[b] = "cancelled", NEW u \in Users
  PROVE  /\ <<b, u>> \in rows' => <<b, u>> \in rows
         /\ pushes'[<<b, u>>] = pushes[<<b, u>>]
<1> DEFINE k == <<b, u>>
<1>1. k \in Keys /\ \A w \in Workers : k \notin open[w].todo \cup open[w].written
  BY DEF DeliveryInv, Exclusive, Keys, Sources
<1> HIDE DEF k
<1>2. ASSUME NEW w \in Workers, Commit(w) PROVE UNCHANGED pushes /\ (k \in rows' => k \in rows)
  BY <1>1, <1>2 DEF Commit
<1>3. ASSUME NEW w \in Workers, NEW l \in Keys, Notify(w, l) PROVE UNCHANGED rows /\ pushes'[k] = pushes[k]
  BY <1>1, <1>3 DEF Notify, DeliveryInv, NotificationsTypeOK
<1>4. ASSUME NEW w \in Workers, Rollback(w) PROVE UNCHANGED rows /\ pushes'[k] = pushes[k]
  BY <1>1, <1>4 DEF Rollback
<1>5. ASSUME NEW w \in Workers, Crash(w) \/ DeadlockEnds(w) PROVE UNCHANGED rows /\ pushes'[k] = pushes[k]
  BY <1>4, <1>5 DEF Crash, DeadlockEnds
<1>6. ASSUME NEW w \in Workers, NEW c \in Broadcasts, DeliveryRaises(w, c)
      PROVE  UNCHANGED rows /\ pushes'[k] = pushes[k]
  BY <1>4, <1>6 DEF DeliveryRaises
<1>7. ASSUME NEW w \in Workers, \/ DispatchDue(w) \/ SendReminders(w)
                                \/ \E c \in Broadcasts : CreateBroadcast(w, c)
      PROVE  UNCHANGED <<rows, pushes>>
  BY <1>7 DEF DispatchDue, SendReminders, CreateBroadcast, Begin
<1>8. ASSUME OperatorNext \/ UNCHANGED notificationsVars PROVE UNCHANGED <<rows, pushes>>
  BY <1>8 DEF OperatorNext, ScheduleBroadcast, TimeComes, CancelReads, CancelWrites, notificationsVars
<1> QED BY <1>2, <1>3, <1>5, <1>6, <1>7, <1>8 DEF NotificationsNext, TaskNext, k

\* Nobody is notified any more once a cancellation is committed
\* (cancel_scheduled, dispatch_due).
THEOREM CancelledStaysQuiet == NotificationsSpec => CancelledIsQuiet
<1> DEFINE Quiet == \A b \in Broadcasts : status[b] = "cancelled" =>
                      /\ \A u \in Users : <<b, u>> \in rows' => <<b, u>> \in rows
                      /\ \A u \in Users : pushes'[<<b, u>>] = pushes[<<b, u>>]
<1>1. DeliveryInv /\ [NotificationsNext]_notificationsVars => [Quiet]_notificationsVars
  BY QuietStep
<1>2. NotificationsSpec => [][Quiet]_notificationsVars
  BY <1>1, DeliveryInvInit, DeliveryInvNext, PTL DEF NotificationsSpec
<1> QED BY <1>2 DEF CancelledIsQuiet
=============================================================================
