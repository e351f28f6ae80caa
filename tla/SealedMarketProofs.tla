------------------------- MODULE SealedMarketProofs -------------------------
(***************************************************************************)
(* Theorems about SealedMarket for every number of teams, bids, sessions   *)
(* and tiebreaks: the highest bid wins, is charged once and changes the    *)
(* roster as it announced, and the invariants of rosters and credits       *)
(* survive a resolution, also one that rolls back half way.                *)
(***************************************************************************)
EXTENDS SealedMarket, FantasyTeamsProofs

\* A resolution has given the bid an outcome.
Decided(b) == b.status \notin {"submitted", "cancelled"}

\* Every other bid on the athlete that still counts is below b.
Beats(b, all) ==
    \A c \in all : (/\ c # b
                    /\ c.session = b.session /\ c.athlete = b.athlete
                    /\ c.status # "cancelled") => c.amount < b.amount

Highest(all) == \A b \in all : b.status = "won" => Beats(b, all)

\* The bids belong to sessions that exist.
BidTable(all) ==
    /\ IsFiniteSet(all)
    /\ all \subseteq Bids
    /\ \A b \in all : b.session \in DOMAIN sessions

Compositions == [Teams -> {"incomplete", "validated", "invalid"}]

Resolutions == [session : Nat \ {0}, left : SUBSET Bids, ties : SUBSET Bids, bids : SUBSET Bids,
                composition : Compositions, saved : Tables]

RosterOK == TypeOK /\ job = Idle

MarketOK ==
    /\ sessions \in Seq(Sessions)
    /\ BidTable(bids)
    /\ withdrawals \subseteq [session : Nat, team : Teams, athlete : Athletes]
    /\ ~Free => /\ resolving \in Resolutions
                /\ resolving.session \in DOMAIN sessions
                /\ BidTable(resolving.bids)

(* Inductive: outcomes appear only in resolved sessions and in the one     *)
(* that is being resolved; what a rollback would restore is right as well, *)
(* and a winner that waits for its turn beats the others until then.       *)
BidInv ==
    /\ Highest(bids)
    /\ \A b \in bids : Decided(b) => \/ sessions[b.session].status = "resolved"
                                     \/ ~Free /\ b.session = resolving.session
    /\ ~Free => /\ Highest(resolving.bids)
                /\ \A b \in resolving.bids :
                      Decided(b) => sessions[b.session].status = "resolved"
                /\ \A b \in resolving.left \cup resolving.ties :
                      b.session = resolving.session /\ b.status = "submitted"
                /\ \A b \in resolving.left : Beats(b, bids)

MarketInv == MarketOK /\ BidInv

-----------------------------------------------------------------------------
(* Bids and their statuses *)

LEMMA BidType ==
    ASSUME NEW b \in Bids, NEW status \in BidStatuses
    PROVE  /\ b.session \in Nat /\ b.team \in Teams /\ b.athlete \in Athletes
           /\ b.amount \in Nat /\ b.amount \in BidAmounts
           /\ [b EXCEPT !.status = status] \in Bids
           /\ [b EXCEPT !.status = status].status = status
           /\ [b EXCEPT !.status = status].session = b.session
           /\ [b EXCEPT !.status = status].athlete = b.athlete
           /\ [b EXCEPT !.status = status].amount = b.amount
BY SealedAssumption DEF Bids

\* The bids of S get a status, the others keep theirs.
LEMMA StatusTable ==
    ASSUME BidTable(bids), NEW S, NEW status \in BidStatuses
    PROVE  BidTable(SetStatus(S, status))
<1> DEFINE Mark(b) == IF b \in S THEN [b EXCEPT !.status = status] ELSE b
<1>1. SetStatus(S, status) = {Mark(b) : b \in bids}
  BY DEF SetStatus
<1>2. \A b \in bids : Mark(b) \in Bids /\ Mark(b).session = b.session
  BY BidType DEF BidTable
<1> DEFINE all == {Mark(b) : b \in bids}
           mark == [b \in bids |-> Mark(b)]
<1> HIDE DEF Mark
<1>3. mark \in Surjection(bids, all)
  BY DEF Surjection
<1> HIDE DEF mark
<1>4. IsFiniteSet(all)
  BY <1>3, FS_Surjection DEF BidTable
<1> QED
  BY <1>1, <1>2, <1>4 DEF BidTable

\* A bid that beats the others still does when some get a status.
LEMMA StatusKeepsBeats ==
    ASSUME BidTable(bids), NEW S, NEW status \in BidStatuses,
           status = "cancelled" \/ \A c \in S : c.status # "cancelled",
           NEW b \in Bids, Beats(b, bids)
    PROVE  Beats(IF b \in S THEN [b EXCEPT !.status = status] ELSE b, SetStatus(S, status))
<1> DEFINE Mark(c) == IF c \in S THEN [c EXCEPT !.status = status] ELSE c
<1>1. SUFFICES ASSUME NEW c \in bids, Mark(c) # Mark(b), Mark(c).session = Mark(b).session,
                      Mark(c).athlete = Mark(b).athlete, Mark(c).status # "cancelled"
               PROVE  Mark(c).amount < Mark(b).amount
  BY DEF Beats, SetStatus
<1>2. c # b /\ c \in Bids
  BY <1>1 DEF BidTable
<1>3. \A d \in Bids : Mark(d).session = d.session /\ Mark(d).athlete = d.athlete
                      /\ Mark(d).amount = d.amount
  BY BidType
<1>4. c.status # "cancelled"
  BY <1>1, <1>2, BidType
<1> HIDE DEF Mark
<1> QED
  BY <1>1, <1>2, <1>3, <1>4 DEF Beats

LEMMA StatusKeepsHighest ==
    ASSUME BidTable(bids), Highest(bids), NEW S, NEW status \in BidStatuses,
           status = "cancelled" \/ \A c \in S : c.status # "cancelled",
           status = "won" => \A b \in S : Beats(b, bids)
    PROVE  Highest(SetStatus(S, status))
<1> DEFINE Mark(b) == IF b \in S THEN [b EXCEPT !.status = status] ELSE b
<1>1. SUFFICES ASSUME NEW b \in bids, Mark(b).status = "won"
               PROVE  Beats(Mark(b), SetStatus(S, status))
  BY DEF Highest, SetStatus
<1>2. b \in Bids
  BY DEF BidTable
<1>3. Beats(b, bids)
  BY <1>1, <1>2, BidType DEF Highest
<1> QED
  BY <1>2, <1>3, StatusKeepsBeats

\* Which bids have an outcome then.
LEMMA StatusDecided ==
    ASSUME BidTable(bids), NEW S, NEW status \in BidStatuses,
           NEW d \in SetStatus(S, status)
    PROVE  \E b \in bids : /\ d.session = b.session
                           /\ Decided(d) => Decided(b) \/ (b \in S /\ status # "cancelled")
<1> DEFINE Mark(b) == IF b \in S THEN [b EXCEPT !.status = status] ELSE b
<1>1. PICK b \in bids : d = Mark(b)
  BY DEF SetStatus
<1>2. b \in Bids
  BY DEF BidTable
<1> QED
  BY <1>1, <1>2, BidType DEF Decided

-----------------------------------------------------------------------------
(* Sessions *)

\* Sessions are added or change, but keep their kind, and a resolved one
\* stays resolved.
SessionsGrow ==
    /\ sessions' \in Seq(Sessions)
    /\ \A i \in DOMAIN sessions :
          /\ i \in DOMAIN sessions' /\ sessions'[i].kind = sessions[i].kind
          /\ sessions[i].status = "resolved" => sessions'[i].status = "resolved"

LEMMA AppendGrows ==
    ASSUME sessions \in Seq(Sessions), NEW s \in Sessions, sessions' = Append(sessions, s)
    PROVE  SessionsGrow
BY DEF SessionsGrow

LEMMA ExceptGrows ==
    ASSUME sessions \in Seq(Sessions), NEW i \in DOMAIN sessions, NEW s \in Sessions,
           s.kind = sessions[i].kind, sessions[i].status = "resolved" => s.status = "resolved",
           sessions' = [sessions EXCEPT ![i] = s]
    PROVE  SessionsGrow
BY DEF SessionsGrow

LEMMA SameGrows ==
    ASSUME sessions \in Seq(Sessions), UNCHANGED sessions
    PROVE  SessionsGrow
BY DEF SessionsGrow

LEMMA StatusFacts ==
    ASSUME sessions \in Seq(Sessions), NEW i \in DOMAIN sessions
    PROVE  /\ i \in Nat \ {0} /\ sessions[i] \in Sessions
           /\ EffectiveStatus(sessions[i]) = "open" => sessions[i].status \notin {"closed", "resolved"}
           /\ EffectiveStatus(sessions[i]) = "closed" => sessions[i].status # "resolved"
<1>1. i \in Nat \ {0} /\ sessions[i] \in Sessions
  OBVIOUS
<1>2. sessions[i].status \in {"closed", "resolved"}
      => EffectiveStatus(sessions[i]) = sessions[i].status
  BY DEF EffectiveStatus
<1> QED
  BY <1>1, <1>2

\* A step that leaves bids and resolution alone.
LEMMA SessionsOnly ==
    ASSUME MarketInv, SessionsGrow, UNCHANGED <<bids, resolving>>,
           withdrawals' \subseteq [session : Nat, team : Teams, athlete : Athletes]
    PROVE  MarketInv'
<1>1. MarketOK'
  BY DEF MarketInv, MarketOK, BidTable, SessionsGrow, Free
<1>2. BidInv'
  <2>1. BidInv /\ bids' = bids /\ resolving' = resolving /\ (Free' <=> Free)
    BY DEF MarketInv, Free
  <2>2. Highest(bids)' /\ (~Free' => Highest(resolving.bids)')
    BY <2>1 DEF BidInv, Highest, Beats
  <2>3. ASSUME NEW b \in bids, Decided(b)
        PROVE  \/ sessions'[b.session].status = "resolved"
               \/ ~Free' /\ b.session = resolving'.session
    BY <2>1, <2>3 DEF BidInv, MarketInv, MarketOK, BidTable, SessionsGrow
  <2>4. ASSUME ~Free, NEW b \in resolving.bids, Decided(b)
        PROVE  sessions'[b.session].status = "resolved"
    BY <2>4 DEF BidInv, MarketInv, MarketOK, BidTable, SessionsGrow
  <2>5. ~Free => \A b \in resolving.left : Beats(b, bids)'
    BY <2>1 DEF BidInv, Beats
  <2> QED
    BY <2>1, <2>2, <2>3, <2>4, <2>5 DEF BidInv, Decided
<1> QED
  BY <1>1, <1>2 DEF MarketInv

LEMMA SessionStepGrows ==
    ASSUME MarketInv, SessionStep
    PROVE  SessionsGrow
<1>1. sessions \in Seq(Sessions)
  BY DEF MarketInv, MarketOK
<1>2. ASSUME NEW kind \in Kinds, CreateSession(kind)
      PROVE  SessionsGrow
  <2> DEFINE s == [kind |-> kind, status |-> "scheduled", window |-> "before",
                   target |-> NoAthlete, eligible |-> Teams]
  <2>1. s \in Sessions
    BY SealedAssumption DEF Sessions
  <2>2. sessions' = Append(sessions, s)
    BY <1>2 DEF CreateSession
  <2> HIDE DEF s
  <2> QED
    BY <1>1, <2>1, <2>2, AppendGrows
<1>3. ASSUME NEW i \in DOMAIN sessions, CloseSession(i)
      PROVE  SessionsGrow
  <2> DEFINE s == [sessions[i] EXCEPT !.status = "closed"]
  <2>1. s \in Sessions /\ s.kind = sessions[i].kind
    BY <1>1, StatusFacts DEF Sessions
  <2>2. sessions' = [sessions EXCEPT ![i] = s] /\ sessions[i].status # "resolved"
    BY <1>3 DEF CloseSession
  <2> HIDE DEF s
  <2> QED
    BY <1>1, <2>1, <2>2, ExceptGrows
<1>4. ASSUME NEW i \in DOMAIN sessions, PassTime(i)
      PROVE  SessionsGrow
  <2> DEFINE s == [sessions[i] EXCEPT !.window = IF @ = "before" THEN "during" ELSE "after"]
  <2>1. s \in Sessions /\ s.kind = sessions[i].kind
    BY <1>1, StatusFacts DEF Sessions
  <2>2. sessions' = [sessions EXCEPT ![i] = s] /\ sessions[i].status # "resolved"
    BY <1>4 DEF PassTime
  <2> HIDE DEF s
  <2> QED
    BY <1>1, <2>1, <2>2, ExceptGrows
<1> QED
  BY <1>2, <1>3, <1>4 DEF SessionStep

LEMMA SessionSteps ==
    ASSUME MarketInv, SessionStep
    PROVE  MarketInv'
<1>1. UNCHANGED <<bids, withdrawals, resolving>>
  BY DEF SessionStep, CreateSession, CloseSession, PassTime
<1> QED
  BY <1>1, SessionStepGrows, SessionsOnly DEF MarketInv, MarketOK

-----------------------------------------------------------------------------
(* Bids *)

\* A bid joins a session without outcomes.
LEMMA SubmitStep ==
    ASSUME MarketInv, NEW i \in DOMAIN sessions, NEW t \in Teams, NEW a \in Athletes,
           NEW amount \in BidAmounts, NEW release \in Athletes \cup {NoAthlete},
           SubmitBid(i, t, a, amount, release)
    PROVE  MarketInv'
<1> DEFINE new == [session |-> i, team |-> t, athlete |-> a, amount |-> amount,
                   release |-> release, placed |-> Placed(i, t, a), status |-> "submitted"]
<1>1. MarketOK /\ BidInv /\ sessions \in Seq(Sessions) /\ BidTable(bids)
  BY DEF MarketInv, MarketOK
<1>2. Free /\ resolving' = resolving /\ sessions' = sessions /\ withdrawals' = withdrawals
  BY DEF SubmitBid
<1>3. bids' = (bids \ BidOf(i, t, a)) \cup {new}
  BY DEF SubmitBid
<1>4. Placed(i, t, a) \in Nat
  <2>1. CASE BidOf(i, t, a) = {}
    <3>1. {b \in bids : b.session = i} \subseteq bids
      OBVIOUS
    <3>2. Cardinality({b \in bids : b.session = i}) \in Nat
      BY <1>1, <3>1, FS_Subset, FS_CardinalityType DEF BidTable
    <3> QED
      BY <2>1, <3>2 DEF Placed
  <2>2. CASE BidOf(i, t, a) # {}
    <3>1. (CHOOSE b \in BidOf(i, t, a) : TRUE) \in bids
      BY <2>2 DEF BidOf
    <3> QED
      BY <1>1, <2>2, <3>1 DEF Placed, BidTable, Bids
  <2> QED
    BY <2>1, <2>2
<1>5. new \in Bids /\ new.session = i /\ new.status = "submitted"
  BY <1>1, <1>4, StatusFacts DEF Bids, BidStatuses
<1>6. sessions[i].status # "resolved"
  BY <1>1, StatusFacts DEF SubmitBid, OpenForBids
<1> HIDE DEF new
<1>7. BidTable(bids')
  <2>1. IsFiniteSet(bids \ BidOf(i, t, a))
    BY <1>1, FS_Subset DEF BidTable
  <2>2. IsFiniteSet(bids')
    BY <1>3, <2>1, FS_AddElement
  <2> QED
    BY <1>1, <1>3, <1>5, <2>2 DEF BidTable
<1>8. Highest(bids')
  <2>1. SUFFICES ASSUME NEW b \in bids', b.status = "won", NEW c \in bids',
                        c # b, c.session = b.session, c.athlete = b.athlete,
                        c.status # "cancelled"
                 PROVE  c.amount < b.amount
    BY DEF Highest, Beats
  <2>2. b \in bids
    BY <1>3, <1>5, <2>1
  <2>3. sessions[b.session].status = "resolved"
    BY <1>1, <1>2, <2>1, <2>2 DEF BidInv, Decided
  <2>4. c \in bids
    BY <1>3, <1>5, <1>6, <2>1, <2>3
  <2> QED
    BY <1>1, <2>1, <2>2, <2>4 DEF BidInv, Highest, Beats
<1>9. ASSUME NEW b \in bids', Decided(b)
      PROVE  sessions[b.session].status = "resolved"
  <2>1. b \in bids
    BY <1>3, <1>5, <1>9 DEF Decided
  <2> QED
    BY <1>1, <1>2, <1>9, <2>1 DEF BidInv
<1>10. MarketOK'
  BY <1>1, <1>2, <1>7 DEF MarketOK, BidTable, Free
<1>11. BidInv'
  BY <1>2, <1>8, <1>9 DEF BidInv, Free, Highest, Beats, Decided
<1> QED
  BY <1>10, <1>11 DEF MarketInv

LEMMA WithdrawSteps ==
    ASSUME MarketInv
    PROVE  /\ \A i \in DOMAIN sessions, t \in Teams, a \in Athletes :
                  StartWithdraw(i, t, a) => MarketInv'
           /\ \A w \in withdrawals : FinishWithdraw(w) => MarketInv'
<1>1. MarketOK /\ BidInv /\ sessions \in Seq(Sessions) /\ BidTable(bids)
      /\ withdrawals \subseteq [session : Nat, team : Teams, athlete : Athletes]
  BY DEF MarketInv, MarketOK
<1>2. ASSUME NEW i \in DOMAIN sessions, NEW t \in Teams, NEW a \in Athletes,
             StartWithdraw(i, t, a)
      PROVE  MarketInv'
  <2>1. [session |-> i, team |-> t, athlete |-> a] \in [session : Nat, team : Teams, athlete : Athletes]
    BY <1>1
  <2> QED
    BY <1>1, <1>2, <2>1, SameGrows, SessionsOnly DEF StartWithdraw
<1>3. ASSUME NEW w \in withdrawals, FinishWithdraw(w)
      PROVE  MarketInv'
  <2> DEFINE S == BidOf(w.session, w.team, w.athlete)
  <2>1. /\ Free /\ resolving' = resolving /\ sessions' = sessions
        /\ bids' = SetStatus(S, "cancelled")
        /\ withdrawals' \subseteq withdrawals
    BY <1>3 DEF FinishWithdraw, SetStatus
  <2> HIDE DEF S
  <2>2. "cancelled" \in BidStatuses /\ "cancelled" # "won"
    BY DEF BidStatuses
  <2>3. BidTable(bids') /\ Highest(bids')
    BY <1>1, <2>1, <2>2, StatusTable, StatusKeepsHighest DEF BidInv
  <2>4. ASSUME NEW d \in bids', Decided(d)
        PROVE  sessions[d.session].status = "resolved"
    BY <1>1, <2>1, <2>2, <2>4, StatusDecided DEF BidInv
  <2>5. MarketOK'
    BY <1>1, <2>1, <2>3 DEF MarketOK, BidTable, Free
  <2>6. BidInv'
    BY <2>1, <2>3, <2>4 DEF BidInv, Free, Highest, Beats, Decided
  <2> QED
    BY <2>5, <2>6 DEF MarketInv
<1> QED
  BY <1>2, <1>3

-----------------------------------------------------------------------------
(* The resolution *)

\* The losers are marked; the candidates are those that beat all others.
LEMMA BeginStep ==
    ASSUME MarketInv, RosterOK, NEW i \in DOMAIN sessions, BeginResolve(i)
    PROVE  MarketInv'
<1> DEFINE S == {b \in Sealed(i) : ~IsTop(b)}
<1>1. MarketOK /\ BidInv /\ sessions \in Seq(Sessions) /\ BidTable(bids)
  BY DEF MarketInv, MarketOK
<1>2. /\ Free /\ sessions' = sessions /\ withdrawals' = withdrawals
      /\ bids' = SetStatus(S, "lost")
      /\ resolving' = [session |-> i, left |-> Candidates(i), ties |-> TiedBids(i),
                       bids |-> bids, composition |-> composition,
                       saved |-> [slot |-> slot, paid |-> paid, active |-> active,
                                  account |-> account]]
  BY DEF BeginResolve
<1>3. sessions[i].status # "resolved" /\ i \in Nat \ {0}
  BY <1>1, StatusFacts DEF BeginResolve
<1>4. \A b \in S : b \in bids /\ b.session = i /\ b.status = "submitted"
  BY DEF Sealed
<1>5. "lost" \in BidStatuses /\ "lost" # "won"
  BY DEF BidStatuses
<1>6. \A b \in Candidates(i) \cup TiedBids(i) : b \in bids /\ b.session = i /\ b.status = "submitted"
  BY DEF Candidates, TiedBids, Sealed
<1>7. ASSUME NEW b \in Candidates(i)
      PROVE  Beats(b, bids) /\ b \notin S
  <2>1. b \in bids /\ b.session = i /\ b \in Bids
    BY <1>1, <1>6 DEF BidTable
  <2>2. ASSUME NEW c \in bids, c # b, c.session = b.session, c.athlete = b.athlete,
               c.status # "cancelled"
        PROVE  c.amount < b.amount
    <3>1. c.status = "submitted"
      BY <1>1, <1>2, <1>3, <2>1, <2>2 DEF BidInv, Decided
    <3>2. c \in Rivals(b) /\ c \in Bids
      BY <1>1, <2>1, <2>2, <3>1 DEF Rivals, Sealed, BidTable
    <3>3. c.amount <= b.amount /\ c.amount # b.amount
      BY <1>7, <3>2 DEF Candidates, IsTop, Tied
    <3>4. c.amount \in Nat /\ b.amount \in Nat
      BY <2>1, <3>2, <1>5, BidType
    <3> QED
      BY <3>3, <3>4
  <2> QED
    BY <1>7, <2>2 DEF Beats, Candidates
<1> HIDE DEF S
<1>8. BidTable(bids') /\ Highest(bids')
  BY <1>1, <1>2, <1>4, <1>5, StatusTable, StatusKeepsHighest DEF BidInv
<1>9. ASSUME NEW b \in Candidates(i)
      PROVE  Beats(b, bids')
  <2>1. b \in Bids
    BY <1>1, <1>6 DEF BidTable
  <2> QED
    BY <1>1, <1>2, <1>4, <1>5, <1>7, <2>1, StatusKeepsBeats
<1>10. ASSUME NEW d \in bids', Decided(d)
       PROVE  sessions[d.session].status = "resolved" \/ d.session = i
  BY <1>1, <1>2, <1>4, <1>5, <1>10, StatusDecided DEF BidInv
<1>11. resolving' \in Resolutions
  <2>1. [slot |-> slot, paid |-> paid, active |-> active, account |-> account] \in Tables
    BY DEF RosterOK, TypeOK, Tables
  <2>2. composition \in Compositions
    BY DEF RosterOK, TypeOK, Compositions
  <2>3. bids \subseteq Bids /\ Candidates(i) \subseteq Bids /\ TiedBids(i) \subseteq Bids
    BY <1>1, <1>6 DEF BidTable
  <2> QED
    BY <1>2, <1>3, <2>1, <2>2, <2>3 DEF Resolutions
<1>12. resolving'.session = i /\ resolving'.bids = bids
       /\ resolving'.left = Candidates(i) /\ resolving'.ties = TiedBids(i)
  BY <1>2
<1>13. MarketOK'
  BY <1>1, <1>2, <1>8, <1>11, <1>12 DEF MarketOK, BidTable
<1>14. ~Free'
  BY <1>3, <1>12 DEF Free, Nobody
<1>15. Highest(bids)' /\ Highest(resolving.bids)' /\ \A b \in resolving'.left : Beats(b, bids)'
  BY <1>1, <1>8, <1>9, <1>12 DEF BidInv, Highest, Beats
<1>16. ASSUME NEW b \in bids, Decided(b)
       PROVE  sessions[b.session].status = "resolved"
  BY <1>1, <1>2, <1>16 DEF BidInv
<1>17. BidInv'
  BY <1>2, <1>6, <1>10, <1>12, <1>14, <1>15, <1>16 DEF BidInv, Decided
<1> QED
  BY <1>13, <1>17 DEF MarketInv

\* Some bids of the session get an outcome; those that win beat the others.
LEMMA OutcomeStep ==
    ASSUME MarketInv, ~Free, SessionsGrow, UNCHANGED withdrawals,
           NEW S, NEW status \in {"won", "lost", "expired"},
           \A b \in S : b.session = resolving.session /\ b.status = "submitted",
           status = "won" => \A b \in S : Beats(b, bids),
           bids' = SetStatus(S, status),
           NEW left, left \subseteq resolving.left \ S,
           NEW ties, ties \subseteq resolving.ties,
           resolving' = [resolving EXCEPT !.left = left, !.ties = ties]
    PROVE  MarketInv'
<1>1. MarketOK /\ BidInv /\ BidTable(bids) /\ resolving \in Resolutions
      /\ resolving.session \in DOMAIN sessions /\ BidTable(resolving.bids)
  BY DEF MarketInv, MarketOK
<1>2. status \in BidStatuses
  BY DEF BidStatuses
<1>3. /\ resolving' \in Resolutions
      /\ resolving'.session = resolving.session /\ resolving'.bids = resolving.bids
      /\ resolving'.left = left /\ resolving'.ties = ties
  BY <1>1 DEF Resolutions
<1>4. BidTable(SetStatus(S, status)) /\ Highest(SetStatus(S, status))
  BY <1>1, <1>2, StatusTable, StatusKeepsHighest DEF BidInv
<1>5. ASSUME NEW b \in left
      PROVE  Beats(b, bids')
  <2>1. b \in Bids /\ b \notin S /\ Beats(b, bids)
    BY <1>1 DEF Resolutions, BidInv
  <2> QED
    BY <1>1, <1>2, <2>1, StatusKeepsBeats
<1>6. ASSUME NEW d \in bids', Decided(d)
      PROVE  sessions'[d.session].status = "resolved" \/ d.session = resolving.session
  BY <1>1, <1>2, <1>6, StatusDecided DEF BidInv, BidTable, SessionsGrow
<1>7. ASSUME NEW b \in resolving.bids, Decided(b)
      PROVE  sessions'[b.session].status = "resolved"
  BY <1>1, <1>7 DEF BidInv, BidTable, SessionsGrow
<1>8. ~Free'
  BY <1>1, <1>3 DEF Free, Nobody, Resolutions
<1>9. MarketOK'
  BY <1>1, <1>3, <1>4 DEF MarketOK, BidTable, SessionsGrow
<1>10. Highest(bids)' /\ Highest(resolving.bids)' /\ \A b \in resolving'.left : Beats(b, bids)'
  BY <1>1, <1>3, <1>4, <1>5 DEF BidInv, Highest, Beats
<1>11. BidInv'
  BY <1>1, <1>3, <1>6, <1>7, <1>8, <1>10 DEF BidInv, Decided
<1> QED
  BY <1>9, <1>11 DEF MarketInv

LEMMA WinnerSteps ==
    ASSUME MarketInv, ~Free, NEW b \in resolving.left
    PROVE  /\ \A s \in Slots : AssignWinner(b, s) => MarketInv'
           /\ RefuseWinner(b) => MarketInv'
<1>1. /\ sessions \in Seq(Sessions) /\ resolving \in Resolutions
      /\ b.session = resolving.session /\ b.status = "submitted" /\ Beats(b, bids)
  BY DEF MarketInv, MarketOK, BidInv
<1>2. ASSUME NEW status \in {"won", "lost"}, bids' = SetStatus({b}, status),
             resolving' = [resolving EXCEPT !.left = @ \ {b}],
             UNCHANGED <<sessions, withdrawals>>
      PROVE  MarketInv'
  <2>1. resolving' = [resolving EXCEPT !.left = resolving.left \ {b}, !.ties = resolving.ties]
    BY <1>1, <1>2 DEF Resolutions
  <2> QED
    BY <1>1, <1>2, <2>1, SameGrows, OutcomeStep
<1> QED
  BY <1>2 DEF AssignWinner, RefuseWinner

LEMMA TiebreakGrows ==
    ASSUME MarketInv, ~Free, NEW a \in Athletes, OpenTiebreak(a)
    PROVE  SessionsGrow
<1> DEFINE group == {b \in resolving.ties : b.athlete = a}
           s == [kind |-> sessions[resolving.session].kind, status |-> "open",
                 window |-> "during", target |-> a, eligible |-> {b.team : b \in group}]
<1>1. /\ sessions \in Seq(Sessions) /\ resolving \in Resolutions
      /\ resolving.session \in DOMAIN sessions
  BY DEF MarketInv, MarketOK
<1>2. \A b \in group : b \in Bids
  BY <1>1 DEF Resolutions
<1>3. sessions[resolving.session] \in Sessions
  BY <1>1
<1>4. {b.team : b \in group} \in SUBSET Teams
  BY <1>2 DEF Bids
<1>5. s \in Sessions
  BY <1>3, <1>4 DEF Sessions
<1>6. sessions' = Append(sessions, s)
  BY DEF OpenTiebreak
<1> QED
  BY <1>1, <1>5, <1>6, AppendGrows

LEMMA TiebreakStep ==
    ASSUME MarketInv, ~Free, NEW a \in Athletes, OpenTiebreak(a)
    PROVE  MarketInv'
<1> DEFINE group == {b \in resolving.ties : b.athlete = a}
<1>1. resolving \in Resolutions
  BY DEF MarketInv, MarketOK
<1>2. \A b \in group : b.session = resolving.session /\ b.status = "submitted" /\ b \in Bids
  BY <1>1 DEF MarketInv, BidInv, Resolutions
<1>3. /\ bids' = SetStatus(group, "expired")
      /\ resolving' = [resolving EXCEPT !.ties = @ \ group]
      /\ resolving.left = {} /\ withdrawals' = withdrawals
  BY DEF OpenTiebreak, rosterVars
<1> HIDE DEF group
<1>4. resolving' = [resolving EXCEPT !.left = {}, !.ties = resolving.ties \ group]
  BY <1>1, <1>3 DEF Resolutions
<1> QED
  BY <1>2, <1>3, <1>4, TiebreakGrows, OutcomeStep

LEMMA EndGrows ==
    ASSUME MarketInv, ~Free, EndResolve
    PROVE  SessionsGrow /\ sessions'[resolving.session].status = "resolved"
<1> DEFINE i == resolving.session
           s == [sessions[i] EXCEPT !.status = "resolved"]
<1>1. sessions \in Seq(Sessions) /\ i \in DOMAIN sessions
  BY DEF MarketInv, MarketOK
<1>2. s \in Sessions /\ s.status = "resolved" /\ s.kind = sessions[i].kind
  BY <1>1, StatusFacts DEF Sessions
<1>3. sessions' = [sessions EXCEPT ![i] = s]
  BY DEF EndResolve
<1> HIDE DEF s
<1> QED
  BY <1>1, <1>2, <1>3, ExceptGrows

\* The session is resolved, or everything is as before the resolution.
LEMMA LastSteps ==
    ASSUME MarketInv, ~Free
    PROVE  /\ EndResolve => MarketInv'
           /\ \A b \in resolving.left, s \in Slots : RollbackResolve(b, s) => MarketInv'
<1>1. MarketOK /\ BidInv /\ sessions \in Seq(Sessions) /\ BidTable(bids)
      /\ resolving \in Resolutions
      /\ resolving.session \in DOMAIN sessions /\ BidTable(resolving.bids)
  BY DEF MarketInv, MarketOK
<1>2. ASSUME EndResolve
      PROVE  MarketInv'
  <2> DEFINE i == resolving.session
  <2>2. bids' = bids /\ withdrawals' = withdrawals /\ resolving' = Nobody
    BY <1>2 DEF EndResolve
  <2>3. SessionsGrow /\ sessions'[i].status = "resolved"
    BY <1>2, EndGrows
  <2>4. MarketOK'
    BY <1>1, <2>2, <2>3 DEF MarketOK, BidTable, SessionsGrow, Free
  <2>5. ASSUME NEW b \in bids, Decided(b)
        PROVE  sessions'[b.session].status = "resolved"
    BY <1>1, <2>3, <2>5 DEF BidInv, BidTable, SessionsGrow
  <2>6. Free' /\ Highest(bids)'
    BY <1>1, <2>2 DEF Free, BidInv, Highest, Beats
  <2>7. BidInv'
    BY <2>2, <2>5, <2>6 DEF BidInv, Decided
  <2> QED
    BY <2>4, <2>7 DEF MarketInv
<1>3. ASSUME NEW b \in resolving.left, NEW s \in Slots, RollbackResolve(b, s)
      PROVE  MarketInv'
  <2>1. /\ bids' = resolving.bids /\ resolving' = Nobody /\ sessions' = sessions
        /\ withdrawals' = withdrawals
    BY <1>3 DEF RollbackResolve
  <2>2. MarketOK'
    BY <1>1, <2>1 DEF MarketOK, BidTable, Free
  <2>3. Free' /\ Highest(bids)'
    BY <1>1, <2>1 DEF Free, BidInv, Highest, Beats
  <2>4. BidInv'
    BY <1>1, <2>1, <2>3 DEF BidInv, Decided
  <2> QED
    BY <2>2, <2>4 DEF MarketInv
<1> QED
  BY <1>2, <1>3

-----------------------------------------------------------------------------
(* Rosters and credits *)

SoundTables(sl, acc) ==
    /\ Exclusive(sl)
    /\ \A t \in Teams : RespectsQuota(sl[t])
    /\ \A t \in Teams : Sound(acc[t])

(* Inductive: the tables a rollback of the resolution would restore are    *)
(* sound as well.                                                          *)
TablesInv ==
    /\ SoundTables(slot, account)
    /\ ~Free => SoundTables(resolving.saved.slot, resolving.saved.account)

SealedInv == RosterOK /\ MarketInv /\ TablesInv

\* The steps of FantasyTeamsProofs keep the tables sound.
LEMMA SoundStep ==
    ASSUME RosterOK, SoundTables(slot, account), StepOK
    PROVE  SoundTables(slot', account')
<1>1. TypeOK /\ LedgerInv /\ OwnerInv /\ QuotaInv
  BY DEF RosterOK, SoundTables, LedgerInv, OwnerInv, QuotaInv, Idle
<1>2. LedgerInv' /\ OwnerInv' /\ QuotaInv'
  BY <1>1, LedgerStep, OwnerStep, QuotaStep
<1> QED
  BY <1>2 DEF SoundTables, LedgerInv, OwnerInv, QuotaInv

\* Such a step, with the resolution unchanged or started from these tables.
LEMMA TablesStep ==
    ASSUME RosterOK, TablesInv, StepOK, job' = job,
           \/ UNCHANGED resolving
           \/ Free'
           \/ ~Free /\ resolving'.saved = resolving.saved
           \/ /\ slot' = slot /\ account' = account
              /\ resolving'.saved.slot = slot /\ resolving'.saved.account = account
    PROVE  RosterOK' /\ TablesInv'
<1>1. SoundTables(slot', account')
  BY SoundStep DEF TablesInv
<1>2. RosterOK'
  BY DEF StepOK, RosterOK
<1>3. ~Free' => SoundTables(resolving'.saved.slot, resolving'.saved.account)
  BY <1>1 DEF TablesInv, Free
<1> QED
  BY <1>1, <1>2, <1>3 DEF TablesInv

LEMMA RosterSame ==
    ASSUME RosterOK, UNCHANGED rosterVars
    PROVE  StepOK /\ job' = job
BY StutterStep DEF rosterVars, vars, RosterOK

LEMMA RosterSteps ==
    ASSUME RosterOK, RosterStep
    PROVE  StepOK /\ job' = job
<1>1. TypeOK
  BY DEF RosterOK
<1>2. CASE \E open \in BOOLEAN : SetMarketOpen(open)
  BY <1>1, <1>2, CreditSteps DEF SetMarketOpen
<1>3. CASE \E t \in Teams, id \in AdminIds, amount \in AdminAmounts :
               AdminPostCreditMovement(t, id, amount)
  BY <1>1, <1>3, CreditSteps DEF AdminPostCreditMovement
<1>4. CASE \E t \in Teams, s \in Slots, a \in Athletes, p \in Prices : AssignRequest(t, s, a, p)
  BY <1>1, <1>4, AssignSteps
     DEF AssignRequest, AssignSlot, AssignSlotOverdrawn, AssignSlotDuplicate
<1>5. CASE \E t \in Teams, s \in Slots, percent \in ReleasePercents : ApplyRelease(t, s, percent)
  BY <1>1, <1>5, ReleaseSteps DEF ApplyRelease
<1> QED
  BY <1>2, <1>3, <1>4, <1>5 DEF RosterStep

\* A winner is charged once and takes a slot under quota and index.
LEMMA WinStep ==
    ASSUME RosterOK, NEW b \in Bids, NEW s \in Slots, AssignWinner(b, s)
    PROVE  StepOK /\ job' = job
<1> DEFINE t == b.team
           a == b.athlete
           tx == BidTx(b)
           new == Post(account[t], tx, 0 - b.amount)
<1>1. TypeOK /\ t \in Teams /\ a \in Athletes /\ b.amount \in Nat /\ b.session \in Nat
  BY SealedAssumption DEF RosterOK, Bids
<1>2. account[t] \in Accounts
  BY <1>1 DEF TypeOK
<1>3. tx \in TxIds
  BY <1>1, TxIdType DEF BidTx, TxPrefixes
<1>4. /\ b.amount <= account[t].balance
      /\ WithinQuota(slot[t], s, a)
      /\ ~SlotConflict(t, s, a)
  BY DEF AssignWinner, Honoured
<1>5. 0 - b.amount \in Int /\ CanPost(account[t], tx, 0 - b.amount)
  BY <1>1, <1>2, <1>4 DEF CanPost, Accounts
<1>6. MovedOnce(account[t], new)
  BY <1>3, <1>5 DEF MovedOnce, Moved
<1>7. new \in Accounts
  BY <1>2, <1>6, MovedType
<1>8. account' = [account EXCEPT ![t] = new] /\ slot' = [slot EXCEPT ![t][s] = a]
  BY DEF AssignWinner
<1> HIDE DEF new, tx
<1>9. composition' \in [Teams -> {"incomplete", "validated", "invalid"}]
  BY DEF AssignWinner, RosterOK, TypeOK, CompositionStatus
<1>10. TypeOK'
  BY <1>1, <1>7, <1>8, <1>9 DEF AssignWinner, TypeOK, TeamSlots
<1>11. AccountChange
  BY <1>1, <1>2, <1>6, <1>7, <1>8 DEF AccountChange, MovedOnce
<1>12. SlotChange
  BY <1>1, <1>4, <1>8 DEF SlotChange
<1>13. SavedChange /\ job' = job
  BY DEF AssignWinner, SavedChange, RosterOK, Idle
<1> QED
  BY <1>10, <1>11, <1>12, <1>13 DEF StepOK

\* The tables saved at the start of the resolution come back.
LEMMA RollbackTables ==
    ASSUME SealedInv, ~Free, NEW b, NEW s, RollbackResolve(b, s)
    PROVE  RosterOK' /\ TablesInv'
<1>1. resolving \in Resolutions
  BY DEF SealedInv, MarketInv, MarketOK
<1>2. resolving.saved \in Tables /\ resolving.composition \in Compositions
  BY <1>1 DEF Resolutions
<1>3. RosterOK'
  BY <1>2 DEF RollbackResolve, SealedInv, RosterOK, TypeOK, Tables, Compositions
<1>4. Free' /\ slot' = resolving.saved.slot /\ account' = resolving.saved.account
  BY DEF RollbackResolve, Free
<1> QED
  BY <1>3, <1>4 DEF SealedInv, TablesInv

-----------------------------------------------------------------------------
(* Charges *)

MarketBooked(acc) == BookedUnder(acc, {"market"})

\* One bid of a team on an athlete in a session.
OneBid(all) ==
    \A b, c \in all : (b.session = c.session /\ b.team = c.team /\ b.athlete = c.athlete) => b = c

\* The accounts have booked the bids that won, and no bid that counts.
ChargedFor(accounts, all) ==
    \A b \in all :
        /\ b.status = "won" => <<BidTx(b), 0 - b.amount>> \in MarketBooked(accounts[b.team])
        /\ b.status \notin {"won", "cancelled"} =>
              \A x \in MarketBooked(accounts[b.team]) : x[1] # BidTx(b)

BookedIn(accounts, S) == \A t \in Teams : \A x \in MarketBooked(accounts[t]) : x[1][2] \in S

Resolved == {i \in DOMAIN sessions : sessions[i].status = "resolved"}

(* Inductive: only resolutions charge, under ids of their own session, so  *)
(* that a bid has not been charged when its turn comes; the same holds of  *)
(* what a rollback would restore.                                          *)
ChargeInv ==
    /\ OneBid(bids) /\ ChargedFor(account, bids)
    /\ BookedIn(account, IF Free THEN Resolved ELSE Resolved \cup {resolving.session})
    /\ ~Free => /\ OneBid(resolving.bids)
                /\ ChargedFor(resolving.saved.account, resolving.bids)
                /\ BookedIn(resolving.saved.account, Resolved)
                /\ resolving.left \cup resolving.ties \subseteq bids
                /\ resolving.left \cap resolving.ties = {}

LEMMA BidTxFacts ==
    ASSUME NEW b, NEW c
    PROVE  /\ BidTx(b)[1] = "market" /\ BidTx(b)[2] = b.session
           /\ BidTx(b) = BidTx(c) => b.session = c.session /\ b.athlete = c.athlete
BY DEF BidTx

LEMMA ResolvedGrows ==
    ASSUME SessionsGrow
    PROVE  Resolved \subseteq Resolved'
BY DEF SessionsGrow, Resolved

\* Bids of the session that get an outcome without a win.
LEMMA StatusKeepsCharges ==
    ASSUME BidTable(bids), OneBid(bids), ChargedFor(account, bids),
           NEW S, NEW status \in {"lost", "expired", "cancelled"},
           status = "cancelled" \/ \A b \in S : b.status = "submitted"
    PROVE  OneBid(SetStatus(S, status)) /\ ChargedFor(account, SetStatus(S, status))
<1> DEFINE Mark(b) == IF b \in S THEN [b EXCEPT !.status = status] ELSE b
<1>1. SetStatus(S, status) = {Mark(b) : b \in bids}
  BY DEF SetStatus
<1>2. ASSUME NEW b \in bids
      PROVE  /\ Mark(b).session = b.session /\ Mark(b).team = b.team
             /\ Mark(b).athlete = b.athlete /\ Mark(b).amount = b.amount
             /\ Mark(b).status = IF b \in S THEN status ELSE b.status
             /\ BidTx(Mark(b)) = BidTx(b)
  BY BidType DEF BidTable, Bids, BidTx
<1> HIDE DEF Mark
<1>3. OneBid(SetStatus(S, status))
  BY <1>1, <1>2 DEF OneBid
<1>4. ChargedFor(account, SetStatus(S, status))
  <2>1. ASSUME NEW b \in bids
        PROVE  /\ Mark(b).status = "won" => <<BidTx(b), 0 - b.amount>> \in MarketBooked(account[b.team])
               /\ Mark(b).status \notin {"won", "cancelled"} =>
                     \A x \in MarketBooked(account[b.team]) : x[1] # BidTx(b)
    BY <1>2 DEF ChargedFor
  <2> QED
    BY <1>1, <1>2, <2>1 DEF ChargedFor
<1> QED
  BY <1>3, <1>4

\* Bids and resolution stay; the accounts book nothing for the market.
LEMMA ChargeElsewhere ==
    ASSUME ChargeInv, BidTable(bids), SessionsGrow, SameBooked({"market"}),
           UNCHANGED <<bids, resolving>>
    PROVE  ChargeInv'
<1>1. \A t \in Teams : MarketBooked(account'[t]) = MarketBooked(account[t])
  BY DEF SameBooked, MarketBooked
<1>2. OneBid(bids') /\ ChargedFor(account', bids')
  BY <1>1 DEF ChargeInv, ChargedFor, BidTable, Bids
<1>3. Resolved \subseteq Resolved' /\ (Free' <=> Free) /\ resolving' = resolving
  BY ResolvedGrows DEF Free
<1>4. BookedIn(account', IF Free THEN Resolved' ELSE Resolved' \cup {resolving.session})
  BY <1>1, <1>3 DEF ChargeInv, BookedIn
<1>5. ~Free => BookedIn(resolving.saved.account, Resolved')
  BY <1>3 DEF ChargeInv, BookedIn
<1> QED
  BY <1>2, <1>3, <1>4, <1>5 DEF ChargeInv, OneBid, ChargedFor, BookedIn

\* A new bid is in a session nobody has been charged for.
LEMMA ChargeSubmit ==
    ASSUME ChargeInv, MarketInv, NEW i \in DOMAIN sessions, NEW t \in Teams, NEW a \in Athletes,
           NEW amount, NEW release, SubmitBid(i, t, a, amount, release)
    PROVE  ChargeInv'
<1> DEFINE new == [session |-> i, team |-> t, athlete |-> a, amount |-> amount,
                   release |-> release, placed |-> Placed(i, t, a), status |-> "submitted"]
<1>1. sessions \in Seq(Sessions) /\ BidTable(bids)
  BY DEF MarketInv, MarketOK
<1>2. /\ Free /\ resolving' = resolving /\ sessions' = sessions /\ account' = account
      /\ bids' = (bids \ BidOf(i, t, a)) \cup {new}
  BY DEF SubmitBid, rosterVars
<1>3. new.session = i /\ new.team = t /\ new.athlete = a /\ new.status = "submitted"
  OBVIOUS
<1> HIDE DEF new
<1>4. i \notin Resolved
  BY <1>1, StatusFacts DEF SubmitBid, OpenForBids, Resolved
<1>5. \A x \in MarketBooked(account[t]) : x[1] # BidTx(new)
  BY <1>2, <1>3, <1>4, BidTxFacts DEF ChargeInv, BookedIn
<1>6. OneBid(bids')
  BY <1>2, <1>3 DEF ChargeInv, OneBid, BidOf
<1>7. ChargedFor(account', bids')
  BY <1>2, <1>3, <1>5 DEF ChargeInv, ChargedFor
<1> QED
  BY <1>2, <1>6, <1>7 DEF ChargeInv, Free, Resolved, OneBid, ChargedFor, BookedIn

LEMMA ChargeWithdraw ==
    ASSUME ChargeInv, MarketInv, NEW w \in withdrawals, FinishWithdraw(w)
    PROVE  ChargeInv'
<1> DEFINE S == BidOf(w.session, w.team, w.athlete)
<1>1. /\ Free /\ resolving' = resolving /\ sessions' = sessions /\ account' = account
      /\ bids' = SetStatus(S, "cancelled")
  BY DEF FinishWithdraw, SetStatus, rosterVars
<1> HIDE DEF S
<1>2. OneBid(bids') /\ ChargedFor(account, bids')
  BY <1>1, StatusKeepsCharges DEF MarketInv, MarketOK, ChargeInv
<1> QED
  BY <1>1, <1>2 DEF ChargeInv, Free, Resolved, OneBid, ChargedFor, BookedIn

\* A resolution saves accounts and bids that agree.
LEMMA ChargeBegin ==
    ASSUME ChargeInv, MarketInv, NEW i \in DOMAIN sessions, BeginResolve(i)
    PROVE  ChargeInv'
<1> DEFINE S == {b \in Sealed(i) : ~IsTop(b)}
<1>1. /\ Free /\ sessions' = sessions /\ account' = account
      /\ bids' = SetStatus(S, "lost")
      /\ resolving'.session = i /\ resolving'.bids = bids /\ resolving'.saved.account = account
      /\ resolving'.left = Candidates(i) /\ resolving'.ties = TiedBids(i)
  BY DEF BeginResolve, rosterVars
<1>2. \A b \in S : b.status = "submitted"
  BY DEF Sealed
<1>3. Candidates(i) \cup TiedBids(i) \subseteq bids \ S /\ Candidates(i) \cap TiedBids(i) = {}
  BY DEF Candidates, TiedBids, Sealed
<1> HIDE DEF S
<1>4. OneBid(bids') /\ ChargedFor(account, bids')
  BY <1>1, <1>2, StatusKeepsCharges DEF MarketInv, MarketOK, ChargeInv
<1>5. bids \ S \subseteq bids'
  BY <1>1 DEF SetStatus
<1>6. i # 0
  BY StatusFacts DEF MarketInv, MarketOK
<1>7. ~Free'
  BY <1>1, <1>6 DEF Free, Nobody
<1>8. BookedIn(account, Resolved) /\ Resolved' = Resolved
  BY <1>1 DEF ChargeInv, Resolved
<1>9. BookedIn(account', Resolved' \cup {i}) /\ BookedIn(account, Resolved')
  BY <1>1, <1>8 DEF BookedIn
<1> QED
  BY <1>1, <1>3, <1>4, <1>5, <1>7, <1>9 DEF ChargeInv, OneBid, ChargedFor, BookedIn

\* What the other steps of a resolution have in common.
LEMMA ChargeResolving ==
    ASSUME ChargeInv, ~Free, ~Free', SessionsGrow,
           resolving'.session = resolving.session, resolving'.bids = resolving.bids,
           resolving'.saved = resolving.saved,
           OneBid(bids'), ChargedFor(account', bids'),
           BookedIn(account', Resolved \cup {resolving.session}),
           resolving'.left \subseteq resolving.left, resolving'.ties \subseteq resolving.ties,
           resolving'.left \cup resolving'.ties \subseteq bids'
    PROVE  ChargeInv'
<1>1. Resolved \subseteq Resolved'
  BY ResolvedGrows
<1>2. BookedIn(account', Resolved' \cup {resolving'.session})
  BY <1>1 DEF BookedIn
<1>3. BookedIn(resolving.saved.account, Resolved')
  BY <1>1 DEF ChargeInv, BookedIn
<1> QED
  BY <1>2, <1>3 DEF ChargeInv, OneBid, ChargedFor, BookedIn

\* The winner is charged once, under an id that only its bid has.
LEMMA ChargeWin ==
    ASSUME ChargeInv, MarketInv, TypeOK, NEW b \in resolving.left, NEW s \in Slots,
           ~Free, AssignWinner(b, s)
    PROVE  ChargeInv'
<1> DEFINE t == b.team
           new == Post(account[t], BidTx(b), 0 - b.amount)
           Mark(c) == IF c \in {b} THEN [c EXCEPT !.status = "won"] ELSE c
<1>1. /\ BidTable(bids) /\ sessions \in Seq(Sessions) /\ resolving \in Resolutions
      /\ b \in bids /\ b.session = resolving.session /\ b.status = "submitted"
  BY DEF MarketInv, MarketOK, BidInv, ChargeInv
<1>2. b \in Bids /\ t \in Teams /\ account[t] \in Accounts
  BY <1>1 DEF BidTable, Bids, TypeOK
<1>3. /\ account' = [account EXCEPT ![t] = new]
      /\ bids' = SetStatus({b}, "won") /\ sessions' = sessions
      /\ resolving' = [resolving EXCEPT !.left = @ \ {b}]
  BY DEF AssignWinner
<1>4. \A x \in MarketBooked(account[t]) : x[1] # BidTx(b)
  BY <1>1 DEF ChargeInv, ChargedFor
<1>5. ~Posted(account[t], BidTx(b))
  BY <1>2, <1>4, PostedIsBooked, BidTxFacts DEF MarketBooked, BookedUnder
<1>6. \A tx, n : <<tx, n>>[1] = tx
  OBVIOUS
<1>7. MarketBooked(new) = MarketBooked(account[t]) \cup {<<BidTx(b), 0 - b.amount>>}
  BY <1>2, <1>5, <1>6, PostBooks, BidTxFacts DEF MarketBooked, BookedUnder
<1>8. \A u \in Teams : MarketBooked(account'[u]) =
         IF u = t THEN MarketBooked(account[t]) \cup {<<BidTx(b), 0 - b.amount>>}
         ELSE MarketBooked(account[u])
  BY <1>2, <1>3, <1>7 DEF TypeOK
<1>9. ASSUME NEW c \in bids
      PROVE  /\ Mark(c).session = c.session /\ Mark(c).team = c.team
             /\ Mark(c).athlete = c.athlete /\ Mark(c).amount = c.amount
             /\ Mark(c).status = IF c = b THEN "won" ELSE c.status
             /\ BidTx(Mark(c)) = BidTx(c) /\ c.team \in Teams
  BY <1>1, BidType DEF BidTable, Bids, BidTx
<1>10. bids' = {Mark(c) : c \in bids}
  BY <1>3 DEF SetStatus
<1>11. \A c \in bids : c # b => Mark(c) = c
  OBVIOUS
<1> HIDE DEF Mark, new, t
<1>12. OneBid(bids')
  BY <1>9, <1>10 DEF ChargeInv, OneBid
<1>13. ASSUME NEW c \in bids
       PROVE  /\ Mark(c).status = "won" => <<BidTx(c), 0 - c.amount>> \in MarketBooked(account'[c.team])
              /\ Mark(c).status \notin {"won", "cancelled"} =>
                    \A x \in MarketBooked(account'[c.team]) : x[1] # BidTx(c)
  <2>1. CASE c = b
    BY <1>8, <1>9, <2>1 DEF t
  <2>2. CASE c # b
    <3>1. c.team = t => BidTx(c) # BidTx(b)
      BY <1>1, <2>2, BidTxFacts DEF ChargeInv, OneBid, t
    <3> QED
      BY <1>6, <1>8, <1>9, <2>2, <3>1 DEF ChargeInv, ChargedFor
  <2> QED
    BY <2>1, <2>2
<1>14. ChargedFor(account', bids')
  BY <1>9, <1>10, <1>13 DEF ChargedFor
<1>15. BookedIn(account', Resolved \cup {resolving.session})
  BY <1>1, <1>6, <1>8, BidTxFacts DEF ChargeInv, BookedIn
<1>16. /\ resolving'.session = resolving.session /\ resolving'.bids = resolving.bids
       /\ resolving'.saved = resolving.saved
       /\ resolving'.left = resolving.left \ {b} /\ resolving'.ties = resolving.ties
  BY <1>1, <1>3 DEF Resolutions
<1>17. ~Free'
  BY <1>1, <1>16 DEF Free, Nobody, Resolutions
<1>18. b \notin resolving.ties
  BY DEF ChargeInv
<1>19. resolving'.left \cup resolving'.ties \subseteq bids'
  BY <1>10, <1>11, <1>16, <1>18 DEF ChargeInv
<1> QED
  BY <1>1, <1>3, <1>12, <1>14, <1>15, <1>16, <1>17, <1>19, SameGrows, ChargeResolving

\* A refused winner, or a group that bids again, has not been charged.
LEMMA ChargeOutcome ==
    ASSUME ChargeInv, MarketInv, ~Free, SessionsGrow, account' = account,
           NEW S, NEW status \in {"lost", "expired"}, bids' = SetStatus(S, status),
           \A b \in S : b.status = "submitted",
           resolving'.session = resolving.session, resolving'.bids = resolving.bids,
           resolving'.saved = resolving.saved,
           resolving'.left \subseteq resolving.left, resolving'.ties \subseteq resolving.ties,
           (resolving'.left \cup resolving'.ties) \cap S = {}
    PROVE  ChargeInv'
<1>1. OneBid(bids') /\ ChargedFor(account', bids')
  BY StatusKeepsCharges DEF MarketInv, MarketOK, ChargeInv
<1>2. resolving'.left \cup resolving'.ties \subseteq bids'
  BY DEF ChargeInv, SetStatus
<1>3. BookedIn(account', Resolved \cup {resolving.session})
  BY DEF ChargeInv
<1>4. ~Free'
  BY DEF Free, Nobody, MarketInv, MarketOK, Resolutions
<1> QED
  BY <1>1, <1>2, <1>3, <1>4, ChargeResolving

LEMMA ChargeRefuse ==
    ASSUME ChargeInv, MarketInv, ~Free, NEW b \in resolving.left, RefuseWinner(b)
    PROVE  ChargeInv'
<1>1. /\ resolving \in Resolutions /\ sessions \in Seq(Sessions) /\ b.status = "submitted"
  BY DEF MarketInv, MarketOK, BidInv
<1>2. /\ bids' = SetStatus({b}, "lost") /\ account' = account /\ sessions' = sessions
      /\ resolving' = [resolving EXCEPT !.left = @ \ {b}]
  BY DEF RefuseWinner, rosterVars
<1>3. /\ resolving'.session = resolving.session /\ resolving'.bids = resolving.bids
      /\ resolving'.saved = resolving.saved
      /\ resolving'.left = resolving.left \ {b} /\ resolving'.ties = resolving.ties
  BY <1>1, <1>2 DEF Resolutions
<1>4. b \notin resolving.ties
  BY DEF ChargeInv
<1> QED
  BY <1>1, <1>2, <1>3, <1>4, SameGrows, ChargeOutcome

LEMMA ChargeTiebreak ==
    ASSUME ChargeInv, MarketInv, ~Free, NEW a \in Athletes, OpenTiebreak(a), SessionsGrow
    PROVE  ChargeInv'
<1> DEFINE group == {b \in resolving.ties : b.athlete = a}
<1>1. resolving \in Resolutions /\ \A b \in group : b.status = "submitted"
  BY DEF MarketInv, MarketOK, BidInv
<1>2. /\ bids' = SetStatus(group, "expired") /\ account' = account /\ resolving.left = {}
      /\ resolving' = [resolving EXCEPT !.ties = @ \ group]
  BY DEF OpenTiebreak, rosterVars
<1> HIDE DEF group
<1>3. /\ resolving'.session = resolving.session /\ resolving'.bids = resolving.bids
      /\ resolving'.saved = resolving.saved
      /\ resolving'.left = {} /\ resolving'.ties = resolving.ties \ group
  BY <1>1, <1>2 DEF Resolutions
<1> QED
  BY <1>1, <1>2, <1>3, ChargeOutcome

\* The resolution commits, or what it saved comes back.
LEMMA ChargeEnd ==
    ASSUME ChargeInv, MarketInv, ~Free
    PROVE  /\ EndResolve => ChargeInv'
           /\ \A b \in resolving.left, s \in Slots : RollbackResolve(b, s) => ChargeInv'
<1>1. ASSUME EndResolve
      PROVE  ChargeInv'
  <2>1. /\ account' = account /\ bids' = bids /\ Free'
        /\ sessions' = [sessions EXCEPT ![resolving.session].status = "resolved"]
    BY <1>1 DEF EndResolve, rosterVars, Free
  <2>2. resolving.session \in DOMAIN sessions /\ sessions \in Seq(Sessions)
    BY DEF MarketInv, MarketOK
  <2>3. Resolved \cup {resolving.session} \subseteq Resolved'
    BY <2>1, <2>2 DEF Resolved, Sessions
  <2>4. BookedIn(account', Resolved')
    BY <2>1, <2>3 DEF ChargeInv, BookedIn
  <2> QED
    BY <2>1, <2>4 DEF ChargeInv, OneBid, ChargedFor
<1>2. ASSUME NEW b \in resolving.left, NEW s \in Slots, RollbackResolve(b, s)
      PROVE  ChargeInv'
  <2>1. /\ account' = resolving.saved.account /\ bids' = resolving.bids /\ Free'
        /\ sessions' = sessions
    BY <1>2 DEF RollbackResolve, Free
  <2>2. Resolved' = Resolved
    BY <2>1 DEF Resolved
  <2> QED
    BY <2>1, <2>2 DEF ChargeInv, OneBid, ChargedFor, BookedIn
<1> QED
  BY <1>1, <1>2

-----------------------------------------------------------------------------
(* Every step of the sealed market *)

LEMMA ResolveSteps ==
    ASSUME SealedInv, ResolveStep
    PROVE  SealedInv'
<1>1. RosterOK /\ MarketInv /\ TablesInv
  BY DEF SealedInv
<1>2. ~Free => resolving \in Resolutions
  BY <1>1 DEF MarketInv, MarketOK
<1>3. ASSUME NEW i \in DOMAIN sessions, BeginResolve(i)
      PROVE  SealedInv'
  <2>1. StepOK /\ job' = job
    BY <1>1, <1>3, RosterSame DEF BeginResolve
  <2>2. /\ slot' = slot /\ account' = account
        /\ resolving'.saved.slot = slot /\ resolving'.saved.account = account
    BY <1>3 DEF BeginResolve, rosterVars
  <2>3. RosterOK' /\ TablesInv'
    BY <1>1, <2>1, <2>2, TablesStep
  <2> QED
    BY <1>1, <1>3, <2>3, BeginStep DEF SealedInv
<1>4. ASSUME NEW b \in resolving.left, NEW s \in Slots, AssignWinner(b, s)
      PROVE  SealedInv'
  <2>1. ~Free /\ b \in Bids
    BY <1>2, <1>4 DEF Free, Nobody, Resolutions
  <2>2. resolving'.saved = resolving.saved
    BY <1>2, <1>4, <2>1 DEF AssignWinner, Resolutions
  <2>3. RosterOK' /\ TablesInv'
    BY <1>1, <1>4, <2>1, <2>2, WinStep, TablesStep
  <2> QED
    BY <1>1, <1>4, <2>1, <2>3, WinnerSteps DEF SealedInv
<1>5. ASSUME NEW b \in resolving.left, NEW s \in Slots, RollbackResolve(b, s)
      PROVE  SealedInv'
  <2>1. ~Free
    BY <1>5 DEF Free, Nobody
  <2> QED
    BY <1>1, <1>5, <2>1, RollbackTables, LastSteps DEF SealedInv
<1>6. ASSUME NEW b \in resolving.left, RefuseWinner(b)
      PROVE  SealedInv'
  <2>1. ~Free
    BY <1>6 DEF Free, Nobody
  <2>2. resolving'.saved = resolving.saved
    BY <1>2, <1>6, <2>1 DEF RefuseWinner, Resolutions
  <2>3. RosterOK' /\ TablesInv'
    BY <1>1, <1>6, <2>1, <2>2, RosterSame, TablesStep DEF RefuseWinner
  <2> QED
    BY <1>1, <1>6, <2>1, <2>3, WinnerSteps DEF SealedInv
<1>7. ASSUME NEW a \in Athletes, OpenTiebreak(a)
      PROVE  SealedInv'
  <2>1. ~Free
    BY <1>7 DEF OpenTiebreak, Free, Nobody
  <2>2. resolving'.saved = resolving.saved
    BY <1>2, <1>7, <2>1 DEF OpenTiebreak, Resolutions
  <2>3. RosterOK' /\ TablesInv'
    BY <1>1, <1>7, <2>1, <2>2, RosterSame, TablesStep DEF OpenTiebreak
  <2> QED
    BY <1>1, <1>7, <2>1, <2>3, TiebreakStep DEF SealedInv
<1>8. ASSUME EndResolve
      PROVE  SealedInv'
  <2>1. ~Free /\ Free'
    BY <1>8 DEF EndResolve, Free
  <2>2. RosterOK' /\ TablesInv'
    BY <1>1, <1>8, <2>1, RosterSame, TablesStep DEF EndResolve
  <2> QED
    BY <1>1, <1>8, <2>1, <2>2, LastSteps DEF SealedInv
<1> QED
  BY <1>3, <1>4, <1>5, <1>6, <1>7, <1>8 DEF ResolveStep

LEMMA SealedStep ==
    ASSUME SealedInv, [SealedNext]_sealedVars
    PROVE  SealedInv'
<1>1. RosterOK /\ MarketInv /\ TablesInv
  BY DEF SealedInv
<1>2. CASE RosterStep
  <2>1. UNCHANGED <<sessions, bids, withdrawals, resolving>>
    BY <1>2 DEF RosterStep
  <2>2. MarketInv'
    BY <1>1, <2>1, SameGrows, SessionsOnly DEF MarketInv, MarketOK
  <2>3. RosterOK' /\ TablesInv'
    BY <1>1, <1>2, <2>1, RosterSteps, TablesStep
  <2> QED
    BY <2>2, <2>3 DEF SealedInv
<1>3. CASE UNCHANGED rosterVars /\ UNCHANGED resolving /\ MarketInv'
  BY <1>1, <1>3, RosterSame, TablesStep DEF SealedInv
<1>4. CASE SessionStep
  <2>1. UNCHANGED rosterVars /\ UNCHANGED resolving
    BY <1>4 DEF SessionStep, CreateSession, CloseSession, PassTime
  <2> QED
    BY <1>1, <1>3, <1>4, <2>1, SessionSteps
<1>5. CASE BidStep
  <2>1. UNCHANGED rosterVars /\ UNCHANGED resolving
    BY <1>5 DEF BidStep, SubmitBid, StartWithdraw, FinishWithdraw
  <2>2. MarketInv'
    BY <1>1, <1>5, SubmitStep, WithdrawSteps DEF BidStep
  <2> QED
    BY <1>3, <2>1, <2>2
<1>6. CASE UNCHANGED sealedVars
  <2>1. MarketInv'
    BY <1>1, <1>6, SameGrows, SessionsOnly DEF sealedVars, MarketInv, MarketOK
  <2> QED
    BY <1>3, <1>6, <2>1 DEF sealedVars
<1> QED
  BY <1>2, <1>4, <1>5, <1>6, ResolveSteps DEF SealedNext, SealedInv

LEMMA ChargeStep ==
    ASSUME SealedInv, ChargeInv, [SealedNext]_sealedVars
    PROVE  ChargeInv'
<1>1. RosterOK /\ MarketInv /\ TypeOK /\ BidTable(bids) /\ sessions \in Seq(Sessions)
  BY DEF SealedInv, RosterOK, MarketInv, MarketOK
<1>2. ASSUME account' = account
      PROVE  SameBooked({"market"})
  BY <1>2 DEF SameBooked
<1>3. CASE RosterStep
  <2>1. UNCHANGED <<sessions, bids, withdrawals, resolving>>
    BY <1>3 DEF RosterStep
  <2>2. {"market"} \cap RosterPrefixes = {}
    BY DEF RosterPrefixes
  <2>3. SameBooked({"market"})
    BY <1>1, <1>3, <2>2, RosterBooks DEF RosterStep
  <2> QED
    BY <1>1, <2>1, <2>3, SameGrows, ChargeElsewhere
<1>4. CASE SessionStep
  <2>1. account' = account /\ UNCHANGED <<bids, resolving>>
    BY <1>4 DEF SessionStep, CreateSession, CloseSession, PassTime, rosterVars
  <2> QED
    BY <1>1, <1>2, <1>4, <2>1, SessionStepGrows, ChargeElsewhere
<1>5. CASE UNCHANGED <<sessions, bids, resolving, account>>
  BY <1>1, <1>2, <1>5, SameGrows, ChargeElsewhere
<1>6. CASE BidStep
  <2>1. ASSUME NEW i \in DOMAIN sessions, NEW t \in Teams, NEW a \in Athletes,
               StartWithdraw(i, t, a)
        PROVE  ChargeInv'
    BY <1>5, <2>1 DEF StartWithdraw, rosterVars
  <2> QED
    BY <1>1, <1>6, <2>1, ChargeSubmit, ChargeWithdraw DEF BidStep
<1>7. CASE ResolveStep
  <2>1. Free => resolving.left = {} /\ resolving.ties = {}
    BY DEF Free, Nobody
  <2>2. ASSUME NEW i \in DOMAIN sessions, BeginResolve(i)
        PROVE  ChargeInv'
    BY <1>1, <2>2, ChargeBegin
  <2>3. ASSUME NEW b \in resolving.left, NEW s \in Slots, AssignWinner(b, s)
        PROVE  ChargeInv'
    BY <1>1, <2>1, <2>3, ChargeWin
  <2>4. ASSUME NEW b \in resolving.left, NEW s \in Slots, RollbackResolve(b, s)
        PROVE  ChargeInv'
    BY <1>1, <2>1, <2>4, ChargeEnd
  <2>5. ASSUME NEW b \in resolving.left, RefuseWinner(b)
        PROVE  ChargeInv'
    BY <1>1, <2>1, <2>5, ChargeRefuse
  <2>6. ASSUME NEW a \in Athletes, OpenTiebreak(a)
        PROVE  ChargeInv'
    <3>1. ~Free
      BY <2>1, <2>6 DEF OpenTiebreak
    <3> QED
      BY <1>1, <2>6, <3>1, TiebreakGrows, ChargeTiebreak
  <2>7. EndResolve => ChargeInv'
    BY <1>1, ChargeEnd DEF EndResolve
  <2> QED
    BY <1>7, <2>2, <2>3, <2>4, <2>5, <2>6, <2>7 DEF ResolveStep
<1>8. CASE UNCHANGED sealedVars
  BY <1>5, <1>8 DEF sealedVars, rosterVars
<1> QED
  BY <1>3, <1>4, <1>6, <1>7, <1>8 DEF SealedNext

LEMMA SealedStart ==
    ASSUME SealedInit
    PROVE  SealedInv
<1>1. PICK r \in Rosters : slot = r.slot /\ active = r.active
  BY DEF SealedInit
<1>2. /\ slot \in [Teams -> TeamSlots] /\ active \in [Teams -> TeamSlots]
      /\ Exclusive(slot) /\ \A t \in Teams : RespectsQuota(slot[t])
  BY <1>1, SealedAssumption
<1>3. paid \in [Teams -> [Slots -> Nat]]
  BY BlankType DEF SealedInit, Tables
<1>4. composition \in [Teams -> {"incomplete", "validated", "invalid"}]
  BY DEF SealedInit, CompositionStatus
<1>5. RosterOK
  BY <1>2, <1>3, <1>4, BlankType, OpenAccountFacts DEF SealedInit, RosterOK, TypeOK
<1>6. Free
  BY DEF SealedInit, Free
<1>7. MarketInv
  BY <1>6, FS_EmptySet DEF SealedInit, MarketInv, MarketOK, BidInv, BidTable, Highest
<1>8. TablesInv
  BY <1>2, <1>6, OpenAccountFacts DEF SealedInit, TablesInv, SoundTables, Sound
<1> QED
  BY <1>5, <1>7, <1>8 DEF SealedInv

LEMMA SealedInvariant == SealedSpec => []SealedInv
<1>1. SealedInit => SealedInv
  BY SealedStart
<1>2. SealedInv /\ [SealedNext]_sealedVars => SealedInv'
  BY SealedStep
<1> QED
  BY <1>1, <1>2, PTL DEF SealedSpec

-----------------------------------------------------------------------------
(* Waivers and the athletes they release *)

\* Only a bid of a waiver names an athlete to release.
Announced(ss, all) ==
    \A b \in all : ss[b.session].kind # "waiver" => b.release = NoAthlete

\* Inductive: a bid that waits for its turn is one a rollback would restore.
ReleaseInv ==
    /\ Announced(sessions, bids)
    /\ ~Free => Announced(sessions, resolving.bids) /\ resolving.left \subseteq resolving.bids

LEMMA EveryGrows ==
    ASSUME MarketInv, [SealedNext]_sealedVars
    PROVE  SessionsGrow
<1>1. sessions \in Seq(Sessions)
  BY DEF MarketInv, MarketOK
<1>2. Free => resolving.left = {} /\ resolving.ties = {}
  BY DEF Free, Nobody
<1>3. CASE sessions' = sessions
  BY <1>1, <1>3, SameGrows
<1>4. CASE SessionStep
  BY <1>4, SessionStepGrows
<1>5. ASSUME NEW a \in Athletes, OpenTiebreak(a)
      PROVE  SessionsGrow
  <2>1. ~Free
    BY <1>2, <1>5 DEF OpenTiebreak
  <2> QED
    BY <1>5, <2>1, TiebreakGrows
<1>6. EndResolve => SessionsGrow
  BY EndGrows DEF EndResolve
<1>7. CASE RosterStep \/ BidStep \/ UNCHANGED sealedVars
  BY <1>3, <1>7 DEF RosterStep, BidStep, SubmitBid, StartWithdraw, FinishWithdraw, sealedVars
<1>8. CASE ResolveStep
  BY <1>3, <1>5, <1>6, <1>8 DEF ResolveStep, BeginResolve, AssignWinner, RefuseWinner, RollbackResolve
<1> QED
  BY <1>4, <1>7, <1>8 DEF SealedNext

LEMMA ReleaseStep ==
    ASSUME SealedInv, ReleaseInv, [SealedNext]_sealedVars
    PROVE  ReleaseInv'
<1>1. /\ SessionsGrow /\ BidTable(bids) /\ sessions \in Seq(Sessions)
      /\ ~Free => resolving \in Resolutions /\ BidTable(resolving.bids)
  BY EveryGrows DEF SealedInv, MarketInv, MarketOK
<1>2. Announced(sessions', bids) /\ (~Free => Announced(sessions', resolving.bids))
  BY <1>1 DEF ReleaseInv, Announced, SessionsGrow, BidTable
<1>3. Free => resolving.left = {} /\ resolving.ties = {}
  BY DEF Free, Nobody
<1>4. CASE UNCHANGED <<bids, resolving>>
  BY <1>2, <1>4 DEF ReleaseInv, Free
<1>5. ASSUME NEW S, NEW status \in BidStatuses
      PROVE  Announced(sessions', SetStatus(S, status))
  <2> DEFINE Mark(b) == IF b \in S THEN [b EXCEPT !.status = status] ELSE b
  <2>1. \A b \in bids : Mark(b).session = b.session /\ Mark(b).release = b.release
    BY <1>1 DEF BidTable, Bids
  <2>2. SetStatus(S, status) = {Mark(b) : b \in bids}
    BY DEF SetStatus
  <2> HIDE DEF Mark
  <2> QED
    BY <1>2, <2>1, <2>2 DEF Announced
<1>6. ASSUME NEW S, NEW status \in BidStatuses, bids' = SetStatus(S, status),
             \/ Free /\ resolving' = resolving
             \/ /\ ~Free /\ resolving'.bids = resolving.bids
                /\ resolving'.left \subseteq resolving.left
      PROVE  ReleaseInv'
  BY <1>2, <1>5, <1>6 DEF ReleaseInv, Free
<1>7. ASSUME NEW i \in DOMAIN sessions, NEW t \in Teams, NEW a \in Athletes, NEW amount,
             NEW release, SubmitBid(i, t, a, amount, release)
      PROVE  ReleaseInv'
  <2> DEFINE new == [session |-> i, team |-> t, athlete |-> a, amount |-> amount,
                     release |-> release, placed |-> Placed(i, t, a), status |-> "submitted"]
  <2>1. /\ Free /\ resolving' = resolving /\ sessions' = sessions
        /\ bids' = (bids \ BidOf(i, t, a)) \cup {new}
        /\ sessions[i].kind # "waiver" => release = NoAthlete
    BY <1>7 DEF SubmitBid
  <2>2. new.session = i /\ new.release = release
    OBVIOUS
  <2> HIDE DEF new
  <2> QED
    BY <1>2, <2>1, <2>2 DEF ReleaseInv, Announced, Free
<1>8. ASSUME NEW w \in withdrawals, FinishWithdraw(w)
      PROVE  ReleaseInv'
  BY <1>6, <1>8 DEF FinishWithdraw, SetStatus, BidStatuses
<1>9. ASSUME NEW i \in DOMAIN sessions, BeginResolve(i)
      PROVE  ReleaseInv'
  <2>1. /\ Announced(sessions', bids')
        /\ resolving'.bids = bids /\ resolving'.left = Candidates(i)
    BY <1>5, <1>9 DEF BeginResolve, BidStatuses
  <2>2. Candidates(i) \subseteq bids
    BY DEF Candidates, Sealed
  <2> QED
    BY <1>2, <2>1, <2>2 DEF ReleaseInv
<1>10. ASSUME NEW b \in resolving.left, NEW s \in Slots, AssignWinner(b, s)
       PROVE  ReleaseInv'
  <2>1. resolving'.bids = resolving.bids /\ resolving'.left \subseteq resolving.left
    BY <1>1, <1>3, <1>10 DEF AssignWinner, Resolutions
  <2> QED
    BY <1>3, <1>6, <1>10, <2>1 DEF AssignWinner, BidStatuses
<1>11. ASSUME NEW b \in resolving.left, RefuseWinner(b)
       PROVE  ReleaseInv'
  <2>1. resolving'.bids = resolving.bids /\ resolving'.left \subseteq resolving.left
    BY <1>1, <1>3, <1>11 DEF RefuseWinner, Resolutions
  <2> QED
    BY <1>3, <1>6, <1>11, <2>1 DEF RefuseWinner, BidStatuses
<1>12. ASSUME NEW a \in Athletes, OpenTiebreak(a)
       PROVE  ReleaseInv'
  <2>1. ~Free
    BY <1>3, <1>12 DEF OpenTiebreak
  <2>2. resolving'.bids = resolving.bids /\ resolving'.left \subseteq resolving.left
    BY <1>1, <1>12, <2>1 DEF OpenTiebreak, Resolutions
  <2> QED
    BY <1>6, <1>12, <2>1, <2>2 DEF OpenTiebreak, BidStatuses
<1>13. ASSUME NEW b \in resolving.left, NEW s \in Slots, RollbackResolve(b, s)
       PROVE  ReleaseInv'
  BY <1>2, <1>3, <1>13 DEF RollbackResolve, ReleaseInv, Free
<1>14. EndResolve => ReleaseInv'
  BY <1>2 DEF EndResolve, ReleaseInv, Free
<1>15. CASE RosterStep \/ SessionStep \/ UNCHANGED sealedVars
  BY <1>4, <1>15 DEF RosterStep, SessionStep, CreateSession, CloseSession, PassTime, sealedVars
<1>16. CASE BidStep
  BY <1>4, <1>7, <1>8, <1>16 DEF BidStep, StartWithdraw
<1>17. CASE ResolveStep
  BY <1>9, <1>10, <1>11, <1>12, <1>13, <1>14, <1>17 DEF ResolveStep
<1> QED
  BY <1>15, <1>16, <1>17 DEF SealedNext

LEMMA SealedAll ==
    SealedSpec => [](SealedInv /\ ChargeInv /\ ReleaseInv)
<1>1. ASSUME SealedInit
      PROVE  SealedInv /\ ChargeInv /\ ReleaseInv
  <2>1. Free /\ bids = {} /\ \A t \in Teams : account[t] = OpenAccount(TotalCredits)
    BY <1>1 DEF SealedInit, Free
  <2>2. \A t \in Teams : MarketBooked(account[t]) = {}
    BY <2>1, OpenBooksNothing DEF MarketBooked
  <2> QED
    BY <1>1, <2>1, <2>2, SealedStart
    DEF ChargeInv, OneBid, ChargedFor, BookedIn, ReleaseInv, Announced
<1>2. SealedInv /\ ChargeInv /\ ReleaseInv /\ [SealedNext]_sealedVars
      => (SealedInv /\ ChargeInv /\ ReleaseInv)'
  BY SealedStep, ChargeStep, ReleaseStep
<1> QED
  BY <1>1, <1>2, PTL DEF SealedSpec

-----------------------------------------------------------------------------
(* Theorems *)

(* Every state of sessions, bids, rosters and credits is well typed: no    *)
(* resolution of bids checked long before overdraws an account.            *)
THEOREM SealedTypeCorrect == SealedSpec => []SealedTypeOK
<1>1. SealedInv => SealedTypeOK
  <2>1. Free => resolving.left \subseteq Bids /\ resolving.ties \subseteq Bids
    BY DEF Free, Nobody
  <2>2. SealedInv /\ ~Free => resolving.left \subseteq Bids /\ resolving.ties \subseteq Bids
    BY DEF SealedInv, MarketInv, MarketOK, Resolutions
  <2> QED
    BY <2>1, <2>2 DEF SealedInv, RosterOK, MarketInv, MarketOK, BidTable, SealedTypeOK
<1> QED
  BY <1>1, SealedInvariant, PTL

(* A bid wins only if it is above every bid on the athlete that was not    *)
(* withdrawn, for every interleaving of bids, withdrawals, rolled-back     *)
(* resolutions and tiebreaks.                                              *)
THEOREM HighestBidAlwaysWins == SealedSpec => []HighestBidWins
<1>1. SealedInv => HighestBidWins
  BY DEF SealedInv, MarketInv, BidInv, Highest, Beats, HighestBidWins
<1> QED
  BY <1>1, SealedInvariant, PTL

(* Every bid that won has been charged once, at its amount, and a bid that *)
(* lost, expired or waits was never charged, however often a resolution    *)
(* was rolled back half way and started again.                             *)
THEOREM WinnersAlwaysCharged == SealedSpec => []WinnersCharged
<1>1. SealedInv /\ ChargeInv => WinnersCharged
  <2> SUFFICES ASSUME SealedInv, ChargeInv, NEW b \in bids
               PROVE  CASE b.status = "won" ->
                             \E k \in DOMAIN account[b.team].entries :
                                /\ Charges(b) = {k}
                                /\ account[b.team].entries[k].amount = 0 - b.amount
                        [] b.status = "cancelled" -> TRUE
                        [] OTHER -> Charges(b) = {}
    BY DEF WinnersCharged
  <2> DEFINE acc == account[b.team]
  <2>1. b \in Bids /\ b.team \in Teams
    BY DEF SealedInv, MarketInv, MarketOK, BidTable, Bids
  <2>2. acc \in Accounts /\ TxUnique(acc)
    BY <2>1 DEF SealedInv, RosterOK, TypeOK, TablesInv, SoundTables, Sound
  <2>3. ASSUME NEW x \in Bookings(acc), x[1] = BidTx(b)
        PROVE  x \in MarketBooked(acc)
    BY <2>3, BidTxFacts DEF MarketBooked, BookedUnder
  <2> HIDE DEF acc
  <2>4. CASE b.status = "won"
    <3>1. <<BidTx(b), 0 - b.amount>> \in Bookings(acc)
      BY <2>4 DEF ChargeInv, ChargedFor, MarketBooked, BookedUnder, acc
    <3> QED
      BY <2>2, <2>4, <3>1, BookedOnce DEF Charges, acc
  <2>5. CASE b.status \notin {"won", "cancelled"}
    <3>1. \A x \in Bookings(acc) : x[1] # BidTx(b)
      BY <2>3, <2>5 DEF ChargeInv, ChargedFor, acc
    <3>2. {k \in DOMAIN acc.entries : acc.entries[k].tx = BidTx(b)} = {}
      BY <2>2, <3>1, BookedOnce
    <3> QED
      BY <2>5, <3>2 DEF Charges, acc
  <2> QED
    BY <2>4, <2>5
<1> QED
  BY <1>1, SealedAll, PTL

\* Only the turn of a bid makes it win.
LEMMA WinsAtItsTurn ==
    ASSUME SealedInv, ChargeInv, ReleaseInv, [SealedNext]_sealedVars,
           NEW b \in resolving.left, [b EXCEPT !.status = "won"] \in bids'
    PROVE  \E s \in Slots : AssignWinner(b, s)
<1>1. ~Free
  BY DEF Free, Nobody
<1>2. /\ BidTable(bids) /\ OneBid(bids) /\ b \in bids /\ b.status = "submitted"
      /\ BidTable(resolving.bids) /\ OneBid(resolving.bids) /\ b \in resolving.bids
  BY <1>1 DEF SealedInv, MarketInv, MarketOK, BidInv, ChargeInv, ReleaseInv
<1> DEFINE won == [b EXCEPT !.status = "won"]
<1>3. /\ won.status = "won" /\ won.session = b.session /\ won.team = b.team
      /\ won.athlete = b.athlete
  BY <1>2 DEF BidTable, Bids
<1> HIDE DEF won
<1>4. won \in bids'
  BY DEF won
<1>5. won \notin bids /\ won \notin resolving.bids
  BY <1>2, <1>3 DEF OneBid
<1>6. ASSUME NEW S, NEW status \in BidStatuses, bids' = SetStatus(S, status)
      PROVE  status = "won" /\ b \in S
  <2> DEFINE Mark(d) == IF d \in S THEN [d EXCEPT !.status = status] ELSE d
  <2>1. PICK d \in bids : won = Mark(d)
    BY <1>4, <1>6 DEF SetStatus
  <2>2. /\ Mark(d).session = d.session /\ Mark(d).team = d.team /\ Mark(d).athlete = d.athlete
        /\ Mark(d).status = IF d \in S THEN status ELSE d.status
    BY <1>2 DEF BidTable, Bids
  <2> HIDE DEF Mark
  <2>3. d = b
    BY <1>2, <1>3, <2>1, <2>2 DEF OneBid
  <2> QED
    BY <1>2, <1>3, <2>1, <2>2, <2>3
<1>7. ASSUME NEW c \in resolving.left, NEW s \in Slots, AssignWinner(c, s)
      PROVE  AssignWinner(b, s)
  <2>1. b \in {c}
    BY <1>6, <1>7 DEF AssignWinner, BidStatuses
  <2> QED
    BY <1>7, <2>1
<1>8. CASE RosterStep \/ SessionStep \/ UNCHANGED sealedVars
  BY <1>4, <1>5, <1>8
  DEF RosterStep, SessionStep, CreateSession, CloseSession, PassTime, sealedVars
<1>9. CASE BidStep
  BY <1>1, <1>4, <1>5, <1>9 DEF BidStep, SubmitBid, StartWithdraw, FinishWithdraw
<1>10. ASSUME NEW c \in resolving.left, RefuseWinner(c)
       PROVE  FALSE
  BY <1>6, <1>10 DEF RefuseWinner, BidStatuses
<1>11. CASE ResolveStep
  BY <1>1, <1>4, <1>5, <1>7, <1>10, <1>11
  DEF ResolveStep, BeginResolve, RollbackResolve, OpenTiebreak, EndResolve
<1> QED
  BY <1>8, <1>9, <1>11 DEF SealedNext

\* What its turn changes in the roster.
LEMMA WinFillsSlot ==
    ASSUME SealedInv, ReleaseInv, NEW b \in resolving.left, NEW s \in Slots, AssignWinner(b, s)
    PROVE  LET held == HeldBy(slot[b.team])
           IN  /\ b.release # NoAthlete => b.release \in held
               /\ HeldBy(slot'[b.team]) = (held \ {b.release}) \cup {b.athlete}
               /\ slot'[b.team][s] = b.athlete /\ paid'[b.team][s] = b.amount
<1> DEFINE t == b.team
<1>1. ~Free
  BY DEF Free, Nobody
<1>2. b \in Bids /\ b \in resolving.bids
  BY <1>1 DEF SealedInv, MarketInv, MarketOK, Resolutions, ReleaseInv
<1>3. t \in Teams /\ b.athlete \in Athletes /\ b.release \in Athletes \cup {NoAthlete}
  BY <1>2 DEF Bids
<1>4. slot \in [Teams -> TeamSlots] /\ paid \in [Teams -> [Slots -> Nat]] /\ Exclusive(slot)
  BY <1>1 DEF SealedInv, RosterOK, TypeOK, TablesInv, SoundTables, Sound
<1>5. slot[t][s] = b.release
  <2>1. CASE sessions[b.session].kind = "waiver"
    BY <2>1 DEF AssignWinner, Honoured, TakesSlot
  <2>2. CASE sessions[b.session].kind # "waiver"
    <3>1. b.release = NoAthlete
      BY <1>1, <1>2, <2>2 DEF ReleaseInv, Announced
    <3>2. FreeSlots(slot[t]) # {} /\ s = FirstFree(slot[t])
      BY <2>2 DEF AssignWinner, Honoured, TakesSlot
    <3> QED
      BY <3>1, <3>2, FirstFreeSlot DEF FreeSlots
  <2> QED
    BY <2>1, <2>2
<1>6. \A r \in Slots : slot'[t][r] = IF r = s THEN b.athlete ELSE slot[t][r]
  BY <1>3, <1>4 DEF AssignWinner, TeamSlots
<1>7. paid'[t][s] = b.amount
  BY <1>3, <1>4 DEF AssignWinner
<1>8. \A r \in Slots : slot[t][r] = b.release /\ b.release # NoAthlete => r = s
  BY <1>3, <1>4, <1>5 DEF Exclusive
<1>9. NoAthlete \notin HeldBy(slot[t]) /\ (b.release # NoAthlete => b.release \in HeldBy(slot[t]))
  BY <1>3, <1>5, NoAthleteAssumption DEF HeldBy, Holds
<1>10. ASSUME NEW a \in Athletes
       PROVE  a \in HeldBy(slot'[t]) <=> a \in (HeldBy(slot[t]) \ {b.release}) \cup {b.athlete}
  BY <1>3, <1>5, <1>6, <1>8, NoAthleteAssumption DEF HeldBy, Holds
<1>11. HeldBy(slot'[t]) = (HeldBy(slot[t]) \ {b.release}) \cup {b.athlete}
  BY <1>3, <1>10 DEF HeldBy
<1> QED
  BY <1>6, <1>7, <1>9, <1>11

(* A bid that wins changes the roster of its team by itself alone, for     *)
(* every roster that changed between the bid and the resolution.           *)
THEOREM WinsTradeAsBid == SealedSpec => WinTradesAsBid
<1> DEFINE AsBid == \A b \in resolving.left :
          [b EXCEPT !.status = "won"] \in bids' =>
              LET held == HeldBy(slot[b.team])
              IN  /\ b.release # NoAthlete => b.release \in held
                  /\ HeldBy(slot'[b.team]) = (held \ {b.release}) \cup {b.athlete}
                  /\ \E s \in Slots : /\ slot'[b.team][s] = b.athlete
                                      /\ paid'[b.team][s] = b.amount
<1>1. ASSUME SealedInv, ChargeInv, ReleaseInv, [SealedNext]_sealedVars
      PROVE  AsBid
  <2> SUFFICES ASSUME NEW b \in resolving.left, [b EXCEPT !.status = "won"] \in bids'
               PROVE  LET held == HeldBy(slot[b.team])
                      IN  /\ b.release # NoAthlete => b.release \in held
                          /\ HeldBy(slot'[b.team]) = (held \ {b.release}) \cup {b.athlete}
                          /\ \E s \in Slots : /\ slot'[b.team][s] = b.athlete
                                              /\ paid'[b.team][s] = b.amount
    OBVIOUS
  <2>1. PICK s \in Slots : AssignWinner(b, s)
    BY <1>1, WinsAtItsTurn
  <2> QED
    BY <1>1, <2>1, WinFillsSlot
<1>2. SealedInv /\ ChargeInv /\ ReleaseInv /\ [SealedNext]_sealedVars => [AsBid]_sealedVars
  BY <1>1
<1>3. SealedSpec => [][AsBid]_sealedVars
  BY <1>2, SealedAll, PTL DEF SealedSpec
<1> QED
  BY <1>3 DEF WinTradesAsBid

(* Sealed sessions leave every account the sum of its ledger, an athlete   *)
(* in one slot and every role within its limit.                            *)
THEOREM SealedTablesSound == SealedSpec => [](LedgerChain /\ OneOwner /\ QuotaRespected)
<1>1. SealedInv => LedgerChain /\ OneOwner /\ QuotaRespected
  BY DEF SealedInv, TablesInv, SoundTables, Sound, LedgerChain, OneOwner, QuotaRespected
<1> QED
  BY <1>1, SealedInvariant, PTL
=============================================================================
