---------------------------- MODULE LeagueProofs ----------------------------
(***************************************************************************)
(* Theorems about League for every number of coaches, requests, invites    *)
(* and seats: a step of a league, decided on what its request saw before   *)
(* the lock, keeps an administrator, accepted invites and free seats; and  *)
(* about Season: played matches survive turns that come and go, and the    *)
(* table is what the final results say.                                    *)
(***************************************************************************)
EXTENDS League, Season, FiniteSetTheorems, WellFoundedInduction, TLAPS

\* The rows of the table of leagues.
LeagueRows ==
  [state : DOMAIN Transitions, count : Counts \cup (MinParticipants..Cardinality(Users)),
   role : [Users -> {"none", "member", "admin"}], complete : SUBSET Users,
   calendar : [status : {"none", "draft", "confirmed"}, members : SUBSET (Users \cup {None}),
               played : {"none", "some", "all"}]]

NamedRows ==
  [to : Users \cup {None},
   status : {"none", "pending", "accepted", "declined", "revoked", "expired"}, late : BOOLEAN]

RequestRows ==
  [actor : Users \cup {None}, state : DOMAIN Transitions, count : Nat, invite : Invites \cup {0}]

\* An invite that waits for an answer is addressed to a coach.
Addressed == \A i \in Invites : Pending(i) => named[i].to \in Users

\* Who answers an invite is the one it is addressed to, for good.
RepliesFit ==
  \A r \in Requests :
    (request[r] # None /\ request[r].invite # 0)
      => request[r].actor \in Users /\ named[request[r].invite].to = request[r].actor

LeagueInv == LeagueTypeOK /\ Addressed /\ RepliesFit /\ AcceptedIsMember /\ AdminRemains

\* Nothing stands between the league and its season.
Ready(l) ==
  /\ l.calendar.status = "confirmed" /\ l.calendar.members = Members(l)
  /\ Members(l) \subseteq l.complete

StartsReady == league'.state = "active" => league.state = "active" \/ Ready(league')

\* The participant counts a join may have been admitted under.
CurrentCounts == {league.count} \cup {request[r].count : r \in {q \in Requests : request[q] # None}}

(***************************************************************************)
(* What a step may do to the roles                                         *)
(***************************************************************************)
Joins(u) ==
  /\ league.role[u] = "none" /\ league'.role = [league.role EXCEPT ![u] = "member"]
  /\ \E n \in CurrentCounts : Cardinality(Members(league)) < n

Leaves(u) == league.role[u] = "member" /\ league'.role = [league.role EXCEPT ![u] = "none"]

HandsOver(u, v) ==
  /\ league.role[u] = "member" /\ league.role[v] = "none"
  /\ league'.role = [league.role EXCEPT ![u] = "none", ![v] = "member"]

Promoted(u, v, role) ==
  /\ league.role[u] = "member" /\ league.role[v] = "admin" /\ role \in {"member", "admin"}
  /\ league'.role = [league.role EXCEPT ![u] = "admin", ![v] = role]

Demoted(u) ==
  /\ league.role[u] = "admin" /\ AnotherAdmin(u)
  /\ league'.role = [league.role EXCEPT ![u] = "member"]

RolesMove ==
  \/ league'.role = league.role
  \/ \E u \in Users : Joins(u) \/ Leaves(u) \/ Demoted(u)
  \/ \E u, v \in Users : HandsOver(u, v) \/ \E role \in {"member", "admin"} : Promoted(u, v, role)

\* An invite keeps its address.
AddressesKept == \A i \in Invites : named[i].to # None => named'[i].to = named[i].to

StepOK ==
  /\ LeagueTypeOK' /\ Addressed' /\ AddressesKept /\ AcceptedIsMember'
  /\ RolesMove /\ StartsReady

(***************************************************************************)
(* Rows                                                                    *)
(***************************************************************************)
LEMMA Typed ==
  LeagueTypeOK <=> /\ league \in LeagueRows /\ named \in [Invites -> NamedRows]
                   /\ open \in BOOLEAN /\ begun \in 0..MaxRequests
                   /\ request \in [Requests -> {None} \cup RequestRows]
BY DEF LeagueTypeOK, LeagueRows, NamedRows, RequestRows

LEMMA RowCount ==
  ASSUME NEW l \in LeagueRows
  PROVE  l.count \in Nat /\ IsFiniteSet(Members(l)) /\ Cardinality(Members(l)) \in 0..Cardinality(Users)
<1>1. Members(l) \subseteq Users
  BY DEF Members
<1>2. IsFiniteSet(Members(l)) /\ Cardinality(Members(l)) <= Cardinality(Users)
  BY <1>1, LeagueAssumption, FS_Subset
<1>3. Cardinality(Members(l)) \in Nat /\ Cardinality(Users) \in Nat
  BY <1>2, LeagueAssumption, FS_CardinalityType
<1>4. l.count \in Counts \cup (MinParticipants..Cardinality(Users))
  BY DEF LeagueRows
<1>5. Counts \subseteq Nat /\ MinParticipants \in Nat
  BY LeagueAssumption
<1>6. \A n \in Counts \cup (MinParticipants..Cardinality(Users)) : n \in Nat
  BY <1>3, <1>5
<1>7. l.count \in Nat
  BY <1>4, <1>6
<1> QED
  BY <1>2, <1>3, <1>7

\* A league that starts by itself is ready; nothing else of it changes.
LEMMA Advances ==
  ASSUME NEW l \in LeagueRows, NEW state, NEW count
  PROVE  LET m == TryAdvance(l, state, count)
         IN  /\ m \in LeagueRows /\ m.role = l.role /\ Members(m) = Members(l)
             /\ m.state = "active" => l.state = "active" \/ Ready(m)
<1> DEFINE m == [l EXCEPT !.state = "active"]
<1>1. /\ m \in LeagueRows /\ m.role = l.role /\ Members(m) = Members(l)
      /\ m.calendar = l.calendar /\ m.complete = l.complete
  BY DEF LeagueRows, Members, Transitions
<1>2. CASE TryAdvance(l, state, count) = l
  BY <1>2
<1>3. CASE TryAdvance(l, state, count) = m /\ ~ActivationBlocked(l)
  <2>1. Ready(m)
    BY <1>1, <1>3 DEF Ready, ActivationBlocked, CalendarConfigured, RostersComplete
  <2> QED
    BY <1>1, <1>3, <2>1
<1> QED
  BY <1>2, <1>3 DEF TryAdvance
\* Requests that only begin or end, and what they have seen.
LEMMA KeptRow ==
  ASSUME LeagueInv, UNCHANGED <<league, named, open>>, begun' \in 0..MaxRequests,
         request' \in [Requests -> {None} \cup RequestRows]
  PROVE  StepOK
BY Typed DEF LeagueInv, StepOK, LeagueTypeOK, LeagueRows, NamedRows, RequestRows, Addressed, Pending,
   AddressesKept, AcceptedIsMember, Members, RolesMove, StartsReady

LEMMA Begins ==
  ASSUME LeagueInv, NEW r \in Requests, NEW u \in Users \cup {None}, NEW i \in Invites \cup {0},
         Begin(r, u, i)
  PROVE  StepOK
<1>1. league \in LeagueRows /\ request \in [Requests -> {None} \cup RequestRows]
      /\ begun \in 0..MaxRequests
  BY Typed DEF LeagueInv
<1>2. Seen(u, i) \in RequestRows
  BY <1>1, RowCount DEF Seen, RequestRows, LeagueRows
<1>3. request' \in [Requests -> {None} \cup RequestRows] /\ begun' \in 0..MaxRequests
  BY <1>1, <1>2, LeagueAssumption DEF Begin
<1> QED
  BY <1>3, KeptRow DEF Begin

\* What a handler leaves of the requests.
LEMMA Handled ==
  ASSUME LeagueInv, NEW r \in Requests, Handles(r)
  PROVE  /\ request' \in [Requests -> {None} \cup RequestRows] /\ begun' \in 0..MaxRequests
         /\ request[r] \in RequestRows
         /\ request[r].actor \in Users \cup {None} /\ request[r].invite \in Invites \cup {0}
         /\ request[r].state \in DOMAIN Transitions /\ request[r].count \in Nat
BY Typed DEF LeagueInv, Handles, RequestRows

\* A step of the roster, the calendar or the state: nobody comes or goes.
LEMMA SameRoles ==
  ASSUME LeagueInv, UNCHANGED <<named, open>>, begun' \in 0..MaxRequests,
         request' \in [Requests -> {None} \cup RequestRows],
         league' \in LeagueRows, league'.role = league.role, StartsReady
  PROVE  StepOK
<1>1. LeagueTypeOK'
  BY Typed DEF LeagueInv, LeagueTypeOK, LeagueRows, NamedRows, RequestRows
<1> QED
  BY <1>1 DEF LeagueInv, StepOK, Addressed, Pending, AddressesKept, AcceptedIsMember, Members, RolesMove
LEMMA InvRows ==
  ASSUME LeagueInv
  PROVE  /\ league \in LeagueRows /\ named \in [Invites -> NamedRows] /\ open \in BOOLEAN
         /\ request \in [Requests -> {None} \cup RequestRows] /\ begun \in 0..MaxRequests
         /\ league.state \in DOMAIN Transitions /\ league.role \in [Users -> {"none", "member", "admin"}]
         /\ Members(league) \subseteq Users
BY Typed DEF LeagueInv, LeagueRows, Members

\* The steps that only write the row of the league and no role of it.
LEMMA SeasonSteps ==
  ASSUME LeagueInv, NEW r \in Requests,
         \/ \E u \in Users : EditRoster(u) \/ RandomRoster(r, u)
         \/ \E n \in Counts : UpdateRules(r, n)
         \/ GenerateCalendar(r) \/ ConfirmCalendar(r) \/ PlayDays \/ Conclude(r) \/ Delete(r)
         \/ \E t \in DOMAIN Transitions : Transition(r, t)
  PROVE  StepOK
<1> USE InvRows
<1> USE DEF ByAdmin, InSetup
<1>1. ASSUME NEW u \in Users, EditRoster(u)
      PROVE  StepOK
  <2>1. league' \in LeagueRows /\ league'.role = league.role /\ league'.state = league.state
    BY <1>1 DEF EditRoster, LeagueRows
  <2> QED
    BY <1>1, <2>1, SameRoles DEF EditRoster, StartsReady
<1>2. ASSUME NEW u \in Users, RandomRoster(r, u)
      PROVE  StepOK
  <2> DEFINE l == [league EXCEPT !.complete = @ \cup {u}]
  <2>1. l \in LeagueRows /\ l.role = league.role /\ l.state = league.state
    BY DEF LeagueRows
  <2>2. league' = TryAdvance(l, request[r].state, league.count)
    BY <1>2 DEF RandomRoster
  <2> HIDE DEF l
  <2>3. league' \in LeagueRows /\ league'.role = league.role /\ StartsReady
    BY <2>1, <2>2, Advances DEF StartsReady
  <2> QED
    BY <1>2, <2>3, Handled, SameRoles DEF RandomRoster
<1>3. ASSUME NEW n \in Counts, UpdateRules(r, n)
      PROVE  StepOK
  <2> DEFINE l == [league EXCEPT !.count = IF n = request[r].count THEN @ ELSE n]
  <2>1. l \in LeagueRows /\ l.role = league.role /\ l.state = league.state
    BY DEF LeagueRows
  <2>2. league' = TryAdvance(l, request[r].state, n)
    BY <1>3 DEF UpdateRules
  <2> HIDE DEF l
  <2>3. league' \in LeagueRows /\ league'.role = league.role /\ StartsReady
    BY <2>1, <2>2, Advances DEF StartsReady
  <2> QED
    BY <1>3, <2>3, Handled, SameRoles DEF UpdateRules
<1>4. CASE GenerateCalendar(r)
  <2>1. league' \in LeagueRows /\ league'.role = league.role /\ league'.state = league.state
    BY <1>4 DEF GenerateCalendar, LeagueRows
  <2> QED
    BY <1>4, <2>1, Handled, SameRoles DEF GenerateCalendar, StartsReady
<1>5. CASE ConfirmCalendar(r)
  <2> DEFINE l == [league EXCEPT !.calendar.status = "confirmed"]
  <2>1. l \in LeagueRows /\ l.role = league.role /\ l.state = league.state
    BY DEF LeagueRows
  <2>2. league' = TryAdvance(l, request[r].state, league.count)
    BY <1>5 DEF ConfirmCalendar
  <2> HIDE DEF l
  <2>3. league' \in LeagueRows /\ league'.role = league.role /\ StartsReady
    BY <2>1, <2>2, Advances DEF StartsReady
  <2> QED
    BY <1>5, <2>3, Handled, SameRoles DEF ConfirmCalendar
<1>6. CASE PlayDays
  <2>1. league' \in LeagueRows /\ league'.role = league.role /\ league'.state = league.state
    BY <1>6 DEF PlayDays, LeagueRows
  <2> QED
    BY <1>6, <2>1, SameRoles DEF PlayDays, StartsReady
<1>7. CASE Conclude(r)
  <2>1. league' \in LeagueRows /\ league'.role = league.role /\ league'.state = "concluded"
    BY <1>7 DEF Conclude, LeagueRows, Transitions
  <2> QED
    BY <1>7, <2>1, Handled, SameRoles DEF Conclude, StartsReady
<1>8. CASE Delete(r)
  <2>1. league' \in LeagueRows /\ league'.role = league.role /\ league'.state = "deleted"
    BY <1>8 DEF Delete, LeagueRows, Transitions
  <2> QED
    BY <1>8, <2>1, Handled, SameRoles DEF Delete, StartsReady
<1>9. ASSUME NEW t \in DOMAIN Transitions, Transition(r, t)
      PROVE  StepOK
  <2>1. /\ league' \in LeagueRows /\ league'.role = league.role /\ league'.state = t
        /\ league'.calendar = league.calendar /\ league'.complete = league.complete
    BY <1>9 DEF Transition, LeagueRows
  <2>2. t = "active" => ~ActivationBlocked(league)
    BY <1>9 DEF Transition, AllowedTransitions
  <2>3. StartsReady
    BY <2>1, <2>2 DEF StartsReady, Ready, Members, ActivationBlocked, CalendarConfigured, RostersComplete
  <2> QED
    BY <1>9, <2>1, <2>3, Handled, SameRoles DEF Transition
<1> QED
  BY <1>1, <1>2, <1>3, <1>4, <1>5, <1>6, <1>7, <1>8, <1>9
\* A step that leaves the league as it is and answers or ends one invite.
LEMMA SameLeague ==
  ASSUME LeagueInv, UNCHANGED <<league, open>>, begun' \in 0..MaxRequests,
         request' \in [Requests -> {None} \cup RequestRows],
         NEW i \in Invites, NEW row \in NamedRows, named' = [named EXCEPT ![i] = row],
         row.to = named[i].to, row.status # "accepted", row.status = "pending" => Pending(i)
  PROVE  StepOK
<1>1. LeagueTypeOK'
  BY InvRows DEF LeagueTypeOK, LeagueRows, NamedRows, RequestRows
<1>2. \A j \in Invites : named'[j] = IF j = i THEN row ELSE named[j]
  BY InvRows
<1>3. AcceptedIsMember' /\ Addressed' /\ AddressesKept
  BY <1>2 DEF LeagueInv, Addressed, Pending, AddressesKept, AcceptedIsMember, Members
<1> QED
  BY <1>1, <1>3 DEF StepOK, RolesMove, StartsReady

LEMMA InviteSteps ==
  ASSUME LeagueInv, NEW r \in Requests, NEW i \in Invites,
         \/ RevokeNamed(r, i) \/ DeclineNamed(r) \/ AnswerTooLate(r) \/ NamedRunsOut(i) \/ ExpireNamed(i)
  PROVE  StepOK
<1> USE InvRows
<1> DEFINE With(j, status) == [named[j] EXCEPT !.status = status]
<1>1. ASSUME NEW j \in Invites, NEW status \in {"revoked", "declined", "expired"}
      PROVE  /\ With(j, status) \in NamedRows /\ With(j, status).to = named[j].to
             /\ With(j, status).status = status
             /\ [named EXCEPT ![j].status = status] = [named EXCEPT ![j] = With(j, status)]
  BY DEF NamedRows
<1>2. CASE RevokeNamed(r, i)
  <2>1. named' = [named EXCEPT ![i] = With(i, "revoked")]
    BY <1>1, <1>2 DEF RevokeNamed
  <2> HIDE DEF With
  <2> QED
    BY <1>1, <1>2, <2>1, Handled, SameLeague DEF RevokeNamed, ByAdmin
<1>3. CASE DeclineNamed(r)
  <2> DEFINE j == request[r].invite
  <2>1. j \in Invites /\ named' = [named EXCEPT ![j] = With(j, "declined")]
    BY <1>1, <1>3, Handled DEF DeclineNamed, Respond
  <2> HIDE DEF With, j
  <2> QED
    BY <1>1, <1>3, <2>1, Handled, SameLeague DEF DeclineNamed, Respond
<1>4. CASE AnswerTooLate(r)
  <2> DEFINE j == request[r].invite
  <2>1. j \in Invites /\ named' = [named EXCEPT ![j] = With(j, "expired")]
    BY <1>1, <1>4, Handled DEF AnswerTooLate
  <2> HIDE DEF With, j
  <2> QED
    BY <1>1, <1>4, <2>1, Handled, SameLeague DEF AnswerTooLate
<1>5. CASE NamedRunsOut(i)
  <2> DEFINE row == [named[i] EXCEPT !.late = TRUE]
  <2>1. row \in NamedRows /\ row.to = named[i].to /\ row.status = "pending"
        /\ named' = [named EXCEPT ![i] = row] /\ Pending(i)
    BY <1>5 DEF NamedRunsOut, NamedRows, Pending
  <2> HIDE DEF row
  <2> QED
    BY <1>5, <2>1, SameLeague DEF NamedRunsOut
<1>6. CASE ExpireNamed(i)
  <2>1. named' = [named EXCEPT ![i] = With(i, "expired")]
    BY <1>1, <1>6 DEF ExpireNamed
  <2> HIDE DEF With
  <2> QED
    BY <1>1, <1>6, <2>1, SameLeague DEF ExpireNamed
<1> QED
  BY <1>2, <1>3, <1>4, <1>5, <1>6

LEMMA OpenInviteSteps ==
  ASSUME LeagueInv, NEW r \in Requests, CreateOpen(r) \/ RevokeOpen(r) \/ OpenRunsOut
  PROVE  StepOK
<1>1. UNCHANGED <<league, named>> /\ open' \in BOOLEAN /\ begun' \in 0..MaxRequests
      /\ request' \in [Requests -> {None} \cup RequestRows]
  BY InvRows, Handled DEF CreateOpen, RevokeOpen, OpenRunsOut, InSetup, ByAdmin
<1>2. LeagueTypeOK'
  BY <1>1, InvRows DEF LeagueTypeOK, LeagueRows, NamedRows, RequestRows
<1> QED
  BY <1>1, <1>2 DEF LeagueInv, StepOK, Addressed, Pending, AddressesKept, AcceptedIsMember, Members,
     RolesMove, StartsReady
\* A step that takes some coaches out of the league, whose accepted invites it
\* releases, and lets others in.
LEMMA RolesChange ==
  ASSUME LeagueInv, UNCHANGED open, begun' \in 0..MaxRequests,
         request' \in [Requests -> {None} \cup RequestRows],
         league' \in LeagueRows, RolesMove, StartsReady,
         \/ named' = named /\ Members(league) \subseteq Members(league')
         \/ \E u \in Users : named' = ReleaseAccepted(u) /\ Members(league) \ {u} \subseteq Members(league')
  PROVE  StepOK
<1> USE InvRows
<1>1. CASE named' = named /\ Members(league) \subseteq Members(league')
  <2>1. LeagueTypeOK'
    BY <1>1 DEF LeagueTypeOK, LeagueRows, NamedRows, RequestRows
  <2> QED
    BY <1>1, <2>1 DEF LeagueInv, StepOK, Addressed, Pending, AddressesKept, AcceptedIsMember
<1>2. ASSUME NEW u \in Users, named' = ReleaseAccepted(u), Members(league) \ {u} \subseteq Members(league')
      PROVE  StepOK
  <2>1. ASSUME NEW i \in Invites
        PROVE  /\ named'[i] \in NamedRows /\ named'[i].to = named[i].to
               /\ named'[i].status = named[i].status \/ named'[i].status = "revoked"
               /\ named[i].to = u => named'[i].status # "accepted"
    BY <1>2 DEF ReleaseAccepted, NamedRows
  <2>2. named' \in [Invites -> NamedRows]
    BY <1>2, <2>1 DEF ReleaseAccepted
  <2>3. LeagueTypeOK'
    BY <2>2 DEF LeagueTypeOK, LeagueRows, NamedRows, RequestRows
  <2> QED
    BY <1>2, <2>1, <2>3 DEF LeagueInv, StepOK, Addressed, Pending, AddressesKept, AcceptedIsMember
<1> QED
  BY <1>1, <1>2

LEMMA RowWithout ==
  ASSUME NEW l \in LeagueRows, NEW u \in Users
  PROVE  CalendarWithout(l.calendar, u) \in
           [status : {"none", "draft", "confirmed"}, members : SUBSET (Users \cup {None}),
            played : {"none", "some", "all"}]
<1> DEFINE left == IF u \in l.calendar.members THEN (l.calendar.members \ {u}) \cup {None}
                   ELSE l.calendar.members
<1>1. left \in SUBSET (Users \cup {None})
  BY DEF LeagueRows
<1>2. CalendarWithout(l.calendar, u) =
        IF l.calendar.status = "draft" THEN NoCalendar ELSE [l.calendar EXCEPT !.members = left]
  BY DEF CalendarWithout
<1> HIDE DEF left
<1> QED
  BY <1>1, <1>2 DEF LeagueRows, NoCalendar

LEMMA MemberSteps ==
  ASSUME LeagueInv, NEW r \in Requests, NEW u \in Users,
         \/ RemoveMember(r, u) \/ RevokeAdmin(r, u)
         \/ \E v \in Users : Replace(r, u, v)
         \/ \E keep \in BOOLEAN : TransferAdmin(r, u, keep)
  PROVE  StepOK
<1> USE InvRows
<1> USE DEF ByAdmin, InSetup
<1>1. CASE RemoveMember(r, u)
  <2> DEFINE out == [league EXCEPT !.role[u] = "none", !.complete = @ \ {u}]
             l == Lowered(out)
  <2>1. out \in LeagueRows /\ out.role = [league.role EXCEPT ![u] = "none"] /\ out.state = league.state
    BY DEF LeagueRows
  <2> HIDE DEF out
  <2>2. l \in LeagueRows /\ l.role = out.role /\ l.state = out.state
    <3>1. Cardinality(Members(out)) \in 0..Cardinality(Users)
      BY <2>1, RowCount
    <3>2. CASE l = out
      BY <2>1, <3>2
    <3>3. CASE /\ l = [out EXCEPT !.count = Cardinality(Members(out))]
               /\ Cardinality(Members(out)) >= MinParticipants
      <4>1. Cardinality(Members(out)) \in MinParticipants..Cardinality(Users)
        BY <3>1, <3>3, LeagueAssumption
      <4> QED
        BY <2>1, <3>3, <4>1 DEF LeagueRows
    <3> QED
      BY <3>2, <3>3 DEF Lowered
  <2>3. league' = [l EXCEPT !.calendar = CalendarWithout(@, u)]
    BY <1>1 DEF RemoveMember, out
  <2> HIDE DEF l
  <2>4. league' \in LeagueRows /\ league'.role = l.role /\ league'.state = l.state
    BY <2>2, <2>3, RowWithout DEF LeagueRows
  <2>5. Leaves(u) /\ StartsReady
    BY <1>1, <2>1, <2>2, <2>4 DEF RemoveMember, Leaves, StartsReady
  <2>6. Members(league) \ {u} \subseteq Members(league') /\ named' = ReleaseAccepted(u)
    BY <1>1, <2>5 DEF RemoveMember, Leaves, Members
  <2>7. RolesMove
    BY <2>5 DEF RolesMove
  <2> QED
    BY <1>1, <2>4, <2>5, <2>6, <2>7, Handled, RolesChange DEF RemoveMember
<1>2. ASSUME NEW v \in Users, Replace(r, u, v)
      PROVE  StepOK
  <2> DEFINE Moved(S) == IF u \in S THEN (S \ {u}) \cup {v} ELSE S
  <2>1. league' = [league EXCEPT !.role = [@ EXCEPT ![u] = "none", ![v] = "member"],
                                 !.complete = Moved(@), !.calendar.members = Moved(@)]
    BY <1>2 DEF Replace
  <2>2. Moved(league.complete) \subseteq Users
        /\ Moved(league.calendar.members) \subseteq Users \cup {None}
    BY DEF LeagueRows
  <2> HIDE DEF Moved
  <2>3. league' \in LeagueRows /\ league'.state = league.state
        /\ league'.role = [league.role EXCEPT ![u] = "none", ![v] = "member"]
    BY <2>1, <2>2 DEF LeagueRows
  <2>4. HandsOver(u, v) /\ StartsReady
    BY <1>2, <2>3 DEF Replace, HandsOver, StartsReady
  <2>5. Members(league) \ {u} \subseteq Members(league')
    BY <2>3 DEF Members
  <2>6. RolesMove
    BY <2>4 DEF RolesMove
  <2> QED
    BY <1>2, <2>3, <2>4, <2>5, <2>6, Handled, RolesChange DEF Replace
<1>3. ASSUME NEW keep \in BOOLEAN, TransferAdmin(r, u, keep)
      PROVE  StepOK
  <2> DEFINE actor == request[r].actor
             role  == IF keep THEN "admin" ELSE "member"
  <2>1. /\ actor \in Users /\ league.role[actor] = "admin" /\ league.role[u] = "member"
        /\ league' = [league EXCEPT !.role = [@ EXCEPT ![u] = "admin", ![actor] = role]]
        /\ role \in {"member", "admin"}
    BY <1>3 DEF TransferAdmin, Admins
  <2> HIDE DEF actor, role
  <2>2. league' \in LeagueRows /\ league'.state = league.state
        /\ league'.role = [league.role EXCEPT ![u] = "admin", ![actor] = role]
    BY <2>1 DEF LeagueRows
  <2>3. Promoted(u, actor, role) /\ StartsReady /\ Members(league) \subseteq Members(league')
    BY <2>1, <2>2 DEF Promoted, StartsReady, Members
  <2>4. RolesMove
    BY <2>1, <2>3 DEF RolesMove
  <2> QED
    BY <1>3, <2>2, <2>3, <2>4, Handled, RolesChange DEF TransferAdmin
<1>4. CASE RevokeAdmin(r, u)
  <2>1. league' \in LeagueRows /\ league'.state = league.state
        /\ league'.role = [league.role EXCEPT ![u] = "member"]
    BY <1>4 DEF RevokeAdmin, LeagueRows
  <2>2. Demoted(u) /\ StartsReady /\ Members(league) \subseteq Members(league')
    BY <1>4, <2>1 DEF RevokeAdmin, Admins, Demoted, StartsReady, Members
  <2>3. RolesMove
    BY <2>2 DEF RolesMove
  <2> QED
    BY <1>4, <2>1, <2>2, <2>3, Handled, RolesChange DEF RevokeAdmin
<1> QED
  BY <1>1, <1>2, <1>3, <1>4

\* A seat is left when the seats kept for invites are counted, or none is.
LEMMA SeatIsLeft ==
  ASSUME NEW l \in LeagueRows, NEW reserved \in Nat, NEW count, count \in Nat,
         SeatLeft(l, reserved, count)
  PROVE  Cardinality(Members(l)) < count
<1>1. Cardinality(Members(l)) \in Nat
  BY RowCount
<1> QED
  BY <1>1 DEF SeatLeft

LEMMA LiveFinite ==
  /\ IsFiniteSet(Live) /\ Cardinality(Live) \in Nat
  /\ Live # {} => Cardinality(Live) >= 1
<1>1. Live \subseteq Invites
  BY DEF Live
<1>2. IsFiniteSet(Live)
  BY <1>1, LeagueAssumption, FS_Subset
<1>3. Cardinality(Live) \in Nat /\ (Cardinality(Live) = 0 <=> Live = {})
  BY <1>2, FS_CardinalityType, FS_EmptySet
<1> QED
  BY <1>2, <1>3
\* A coach joins under a count that was current since the request began.
LEMMA Joined ==
  ASSUME LeagueInv, NEW u \in Users, league.role[u] = "none",
         NEW n \in CurrentCounts, Cardinality(Members(league)) < n
  PROVE  /\ Join(league, u) \in LeagueRows /\ Join(league, u).state = league.state
         /\ Members(Join(league, u)) = Members(league) \cup {u}
         /\ league'.role = Join(league, u).role => Joins(u)
<1>1. /\ Join(league, u) \in LeagueRows /\ Join(league, u).state = league.state
      /\ Join(league, u).role = [league.role EXCEPT ![u] = "member"]
  BY InvRows DEF Join, LeagueRows
<1>2. Members(Join(league, u)) = Members(league) \cup {u}
  BY <1>1, InvRows DEF Members
<1> QED
  BY <1>1, <1>2 DEF Joins

LEMMA CurrentCount ==
  /\ league.count \in CurrentCounts
  /\ \A r \in Requests : request[r] # None => request[r].count \in CurrentCounts
BY DEF CurrentCounts

LEMMA JoinSteps ==
  ASSUME LeagueInv, NEW r \in Requests, NEW u \in Users,
         AcceptOpen(u) \/ AcceptNamed(r) \/ \E i \in Invites : CreateNamed(r, u, i)
  PROVE  StepOK
<1> USE InvRows, CurrentCount
<1> DEFINE in == Join(league, u)
<1>1. ASSUME AcceptOpen(u)
      PROVE  StepOK
  <2> DEFINE own   == {i \in Live : named[i].to = u}
             taken == Cardinality(Live) - (IF own = {} THEN 0 ELSE 1)
  <2>1. taken \in Nat
    BY LiveFinite
  <2>2. league.role[u] = "none" /\ SeatLeft(league, taken, league.count)
        /\ league' = TryAdvance(in, league.state, league.count)
    BY <1>1 DEF AcceptOpen
  <2> HIDE DEF taken, in
  <2>3. Cardinality(Members(league)) < league.count
    BY <2>1, <2>2, SeatIsLeft, RowCount
  <2>4. /\ in \in LeagueRows /\ in.state = league.state /\ Members(in) = Members(league) \cup {u}
        /\ league'.role = in.role => Joins(u)
    BY <2>2, <2>3, Joined DEF in
  <2>5. league' \in LeagueRows /\ league'.role = in.role /\ Members(league') = Members(in) /\ StartsReady
    BY <2>2, <2>4, Advances DEF StartsReady
  <2>6. named' = [i \in Invites |-> IF i \in own THEN [named[i] EXCEPT !.status = "accepted"] ELSE named[i]]
        /\ UNCHANGED <<open, request, begun>>
    BY <1>1 DEF AcceptOpen
  <2>7. ASSUME NEW i \in Invites
        PROVE  /\ named'[i] \in NamedRows /\ named'[i].to = named[i].to
               /\ named'[i] = named[i] \/ (named'[i].status = "accepted" /\ named[i].to = u)
    BY <2>6 DEF NamedRows
  <2>8. LeagueTypeOK'
    BY <2>5, <2>6, <2>7 DEF LeagueTypeOK, LeagueRows, NamedRows, RequestRows
  <2>9. Addressed' /\ AddressesKept /\ AcceptedIsMember'
    BY <2>4, <2>5, <2>7 DEF LeagueInv, Addressed, Pending, AddressesKept, AcceptedIsMember
  <2> QED
    BY <2>4, <2>5, <2>8, <2>9 DEF StepOK, RolesMove
<1>2. ASSUME AcceptNamed(r)
      PROVE  StepOK
  <2> DEFINE i == request[r].invite
             v == request[r].actor
             row == [named[i] EXCEPT !.status = "accepted"]
  <2>1. /\ i \in Invites /\ v \in Users /\ named[i].to = v /\ request[r] # None
        /\ league.role[v] = "none" => SeatLeft(league, 0, request[r].count)
        /\ league' = IF league.role[v] = "none" THEN Join(league, v) ELSE league
        /\ named' = [named EXCEPT ![i] = row] /\ UNCHANGED open
        /\ begun' \in 0..MaxRequests /\ request' \in [Requests -> {None} \cup RequestRows]
        /\ request[r].count \in Nat
    BY <1>2, Handled DEF AcceptNamed, Respond, LeagueInv, RepliesFit
  <2>2. row \in NamedRows /\ row.to = v /\ row.status = "accepted"
    BY <2>1 DEF NamedRows
  <2> HIDE DEF i, v, row, in
  <2>3. /\ league' \in LeagueRows /\ league'.state = league.state
        /\ Members(league') = Members(league) \cup {v} /\ RolesMove
    <3>1. CASE league.role[v] = "none"
      <4>1. Cardinality(Members(league)) < request[r].count
        BY <2>1, <3>1, SeatIsLeft
      <4> QED
        BY <2>1, <3>1, <4>1, Joined DEF RolesMove
    <3>2. CASE league.role[v] # "none"
      BY <2>1, <3>2 DEF RolesMove, Members
    <3> QED
      BY <3>1, <3>2
  <2>4. \A j \in Invites : named'[j] = IF j = i THEN row ELSE named[j]
    BY <2>1
  <2>5. LeagueTypeOK'
    BY <2>1, <2>2, <2>3 DEF LeagueTypeOK, LeagueRows, NamedRows, RequestRows
  <2>6. Addressed' /\ AddressesKept /\ AcceptedIsMember'
    BY <2>1, <2>2, <2>3, <2>4 DEF LeagueInv, Addressed, Pending, AddressesKept, AcceptedIsMember
  <2> QED
    BY <2>3, <2>5, <2>6 DEF StepOK, StartsReady
<1>3. ASSUME NEW i \in Invites, CreateNamed(r, u, i)
      PROVE  StepOK
  <2> DEFINE row == [to |-> u, status |-> IF u \in Robots THEN "accepted" ELSE "pending", late |-> FALSE]
  <2>1. /\ league.role[u] = "none" /\ named[i].to = None
        /\ SeatLeft(league, Cardinality(Live), league.count)
        /\ named' = [j \in Invites |-> IF j = i THEN row
                       ELSE IF named[j].to = u /\ Pending(j) THEN [named[j] EXCEPT !.status = "expired"]
                       ELSE named[j]]
        /\ league' = IF u \in Robots THEN in ELSE league
        /\ UNCHANGED open
    BY <1>3 DEF CreateNamed
  <2>2. begun' \in 0..MaxRequests /\ request' \in [Requests -> {None} \cup RequestRows]
    BY <1>3, Handled DEF CreateNamed, InSetup, ByAdmin
  <2>3. row \in NamedRows /\ row.to = u /\ row.status = IF u \in Robots THEN "accepted" ELSE "pending"
    BY DEF NamedRows
  <2> HIDE DEF row, in
  <2>4. Cardinality(Members(league)) < league.count
    BY <2>1, SeatIsLeft, LiveFinite, RowCount
  <2>5. /\ in \in LeagueRows /\ in.state = league.state /\ Members(in) = Members(league) \cup {u}
        /\ league'.role = in.role => Joins(u)
    BY <2>1, <2>4, Joined DEF in
  <2>6. /\ league' \in LeagueRows /\ league'.state = league.state /\ RolesMove
        /\ Members(league) \subseteq Members(league') /\ (u \in Robots => u \in Members(league'))
    BY <2>1, <2>5 DEF RolesMove
  <2>7. ASSUME NEW j \in Invites \ {i}
        PROVE  /\ named'[j] \in NamedRows /\ named'[j].to = named[j].to
               /\ named'[j].status = named[j].status \/ named'[j].status = "expired"
    BY <2>1 DEF NamedRows
  <2>8. named'[i] = row
    BY <2>1
  <2>9. LeagueTypeOK'
    BY <2>1, <2>2, <2>3, <2>6, <2>7, <2>8 DEF LeagueTypeOK, LeagueRows, NamedRows, RequestRows
  <2>10. Addressed' /\ AddressesKept /\ AcceptedIsMember'
    BY <2>1, <2>3, <2>6, <2>7, <2>8 DEF LeagueInv, Addressed, Pending, AddressesKept, AcceptedIsMember
  <2> QED
    BY <2>6, <2>9, <2>10 DEF StepOK, StartsReady
<1> QED
  BY <1>1, <1>2, <1>3
(***************************************************************************)
(* Every step                                                              *)
(***************************************************************************)
\* A request keeps what it has seen until it ends.
RequestsMove ==
  \A q \in Requests :
    \/ request'[q] = None \/ request'[q] = request[q]
    \/ request'[q].invite = 0
    \/ /\ request'[q].invite \in Invites /\ Pending(request'[q].invite)
       /\ request'[q].actor = named[request'[q].invite].to

LEMMA EndsOne ==
  ASSUME LeagueInv, NEW r \in Requests,
         UNCHANGED request \/ Handles(r) \/ request' = [request EXCEPT ![r] = None]
  PROVE  RequestsMove
BY InvRows DEF RequestsMove, Handles

LEMMA BeginsOne ==
  ASSUME LeagueInv, NEW r \in Requests, NEW u, NEW i, Begin(r, u, i),
         i = 0 \/ (i \in Invites /\ Pending(i) /\ u = named[i].to)
  PROVE  RequestsMove
BY InvRows DEF RequestsMove, Begin, Seen

LEMMA EveryStep ==
  ASSUME LeagueInv, LeagueNext
  PROVE  StepOK /\ RequestsMove
<1> USE InvRows
<1>1. ASSUME NEW r \in Requests, NEW u \in Users,
             \/ BeginAdmin(r, u) \/ RemoveMember(r, u) \/ \E v \in Users : Replace(r, u, v)
             \/ \E keep \in BOOLEAN : TransferAdmin(r, u, keep)
             \/ RevokeAdmin(r, u) \/ RandomRoster(r, u)
             \/ \E i \in Invites : CreateNamed(r, u, i)
      PROVE  StepOK /\ RequestsMove
  <2>1. CASE BeginAdmin(r, u)
    BY <2>1, Begins, BeginsOne DEF BeginAdmin
  <2>2. CASE RandomRoster(r, u)
    BY <2>2, SeasonSteps, EndsOne DEF RandomRoster, ByAdmin
  <2>3. CASE \E i \in Invites : CreateNamed(r, u, i)
    BY <2>3, JoinSteps, EndsOne DEF CreateNamed, InSetup, ByAdmin
  <2>4. CASE \/ RemoveMember(r, u) \/ RevokeAdmin(r, u) \/ \E v \in Users : Replace(r, u, v)
             \/ \E keep \in BOOLEAN : TransferAdmin(r, u, keep)
    <3>1. Handles(r)
      BY <2>4 DEF RemoveMember, RevokeAdmin, Replace, TransferAdmin, InSetup, ByAdmin
    <3> QED
      BY <2>4, <3>1, MemberSteps, EndsOne
  <2> QED
    BY <1>1, <2>1, <2>2, <2>3, <2>4
<1>2. ASSUME NEW r \in Requests, NEW i \in Invites, BeginReply(r, i) \/ RevokeNamed(r, i)
      PROVE  StepOK /\ RequestsMove
  <2>1. CASE BeginReply(r, i)
    <3>1. named[i].to \in Users
      BY <2>1 DEF BeginReply, LeagueInv, Addressed
    <3> QED
      BY <2>1, <3>1, Begins, BeginsOne DEF BeginReply
  <2>2. CASE RevokeNamed(r, i)
    BY <2>2, InviteSteps, EndsOne DEF RevokeNamed, ByAdmin
  <2> QED
    BY <1>2, <2>1, <2>2
<1>3. ASSUME NEW r \in Requests,
             \/ BeginConclusion(r) \/ Refuse(r) \/ Conclude(r)
             \/ AcceptNamed(r) \/ DeclineNamed(r) \/ AnswerTooLate(r)
             \/ CreateOpen(r) \/ RevokeOpen(r)
             \/ \E n \in Counts : UpdateRules(r, n)
             \/ GenerateCalendar(r) \/ ConfirmCalendar(r)
             \/ \E t \in DOMAIN Transitions : Transition(r, t)
             \/ Delete(r)
      PROVE  StepOK /\ RequestsMove
  <2>1. CASE BeginConclusion(r)
    BY <2>1, Begins, BeginsOne DEF BeginConclusion
  <2>2. CASE Refuse(r)
    BY <2>2, KeptRow, EndsOne DEF Refuse
  <2>3. CASE AcceptNamed(r)
    BY <2>3, JoinSteps, EndsOne, LeagueAssumption DEF AcceptNamed, Respond
  <2>4. CASE DeclineNamed(r) \/ AnswerTooLate(r)
    <3>1. Handles(r) /\ request[r].invite \in Invites
      BY <2>4, Handled DEF DeclineNamed, AnswerTooLate, Respond
    <3> QED
      BY <2>4, <3>1, InviteSteps, EndsOne
  <2>5. CASE CreateOpen(r) \/ RevokeOpen(r)
    BY <2>5, OpenInviteSteps, EndsOne DEF CreateOpen, RevokeOpen, InSetup, ByAdmin
  <2>6. CASE \/ Conclude(r) \/ \E n \in Counts : UpdateRules(r, n)
             \/ GenerateCalendar(r) \/ ConfirmCalendar(r)
             \/ \E t \in DOMAIN Transitions : Transition(r, t)
             \/ Delete(r)
    <3>1. Handles(r)
      BY <2>6 DEF Conclude, UpdateRules, GenerateCalendar, ConfirmCalendar, Transition, Delete, InSetup, ByAdmin
    <3> QED
      BY <2>6, <3>1, SeasonSteps, EndsOne
  <2> QED
    BY <1>3, <2>1, <2>2, <2>3, <2>4, <2>5, <2>6
<1>4. ASSUME NEW i \in Invites, NamedRunsOut(i) \/ ExpireNamed(i)
      PROVE  StepOK /\ RequestsMove
  <2>1. UNCHANGED request
    BY <1>4 DEF NamedRunsOut, ExpireNamed
  <2>2. RequestsMove
    BY <2>1 DEF RequestsMove
  <2> QED
    BY <1>4, <2>2, InviteSteps, LeagueAssumption
<1>5. ASSUME NEW u \in Users, AcceptOpen(u) \/ EditRoster(u)
      PROVE  StepOK /\ RequestsMove
  <2>1. UNCHANGED request
    BY <1>5 DEF AcceptOpen, EditRoster
  <2>2. RequestsMove
    BY <2>1 DEF RequestsMove
  <2> QED
    BY <1>5, <2>2, JoinSteps, SeasonSteps, LeagueAssumption
<1>6. CASE OpenRunsOut \/ PlayDays
  <2>1. UNCHANGED request
    BY <1>6 DEF OpenRunsOut, PlayDays
  <2>2. RequestsMove
    BY <2>1 DEF RequestsMove
  <2> QED
    BY <1>6, <2>2, OpenInviteSteps, SeasonSteps, LeagueAssumption
<1> QED
  BY <1>1, <1>2, <1>3, <1>4, <1>5, <1>6 DEF LeagueNext
(***************************************************************************)
(* The theorems                                                            *)
(***************************************************************************)
LEMMA AdminStays ==
  ASSUME LeagueInv, RolesMove
  PROVE  AdminRemains'
<1>1. PICK a \in Users : league.role[a] = "admin"
  BY DEF LeagueInv, AdminRemains, Admins
<1>2. \E b \in Users : league'.role[b] = "admin"
  <2>1. CASE \/ league'.role = league.role
             \/ \E u \in Users : Joins(u) \/ Leaves(u)
             \/ \E u, v \in Users : HandsOver(u, v)
    BY <1>1, <2>1, InvRows DEF Joins, Leaves, HandsOver
  <2>2. CASE \E u \in Users : Demoted(u)
    BY <2>2, InvRows DEF Demoted, AnotherAdmin, Admins
  <2>3. CASE \E u, v \in Users : \E role \in {"member", "admin"} : Promoted(u, v, role)
    BY <2>3, InvRows DEF Promoted
  <2> QED
    BY <2>1, <2>2, <2>3 DEF RolesMove
<1> QED
  BY <1>2 DEF AdminRemains, Admins

LEMMA LeagueStart == LeagueInit => LeagueInv
<1> SUFFICES ASSUME LeagueInit
             PROVE  LeagueInv
  OBVIOUS
<1>1. /\ league \in LeagueRows /\ named \in [Invites -> NamedRows] /\ open \in BOOLEAN
      /\ request \in [Requests -> {None} \cup RequestRows] /\ begun \in 0..MaxRequests
  <2>1. league \in LeagueRows
    BY LeagueAssumption DEF LeagueInit, LeagueRows, Transitions, NoCalendar
  <2>2. named \in [Invites -> NamedRows]
    BY DEF LeagueInit, NamedRows
  <2>3. 0 \in 0..MaxRequests
    BY LeagueAssumption
  <2> QED
    BY <2>1, <2>2, <2>3 DEF LeagueInit
<1>2. Owner \in Admins(league)
  BY LeagueAssumption DEF LeagueInit, Admins
<1> QED
  BY <1>1, <1>2, Typed
     DEF LeagueInit, LeagueInv, Addressed, Pending, RepliesFit, AcceptedIsMember, AdminRemains

LEMMA LeagueInductive == LeagueInv /\ [LeagueNext]_leagueVars => LeagueInv'
<1> SUFFICES ASSUME LeagueInv, [LeagueNext]_leagueVars
             PROVE  LeagueInv'
  OBVIOUS
<1>1. CASE LeagueNext
  <2>1. StepOK /\ RequestsMove
    BY <1>1, EveryStep
  <2>2. AdminRemains'
    BY <2>1, AdminStays DEF StepOK
  <2>3. RepliesFit'
    <3> SUFFICES ASSUME NEW q \in Requests, request'[q] # None, request'[q].invite # 0
                 PROVE  request'[q].actor \in Users /\ named'[request'[q].invite].to = request'[q].actor
      BY DEF RepliesFit
    <3>1. /\ request'[q].actor \in Users /\ request'[q].invite \in Invites
          /\ named[request'[q].invite].to = request'[q].actor
      BY <2>1, InvRows DEF RequestsMove, LeagueInv, RepliesFit, Addressed, RequestRows
    <3> QED
      BY <2>1, <3>1, LeagueAssumption DEF StepOK, AddressesKept
  <2> QED
    BY <2>1, <2>2, <2>3 DEF StepOK, LeagueInv
<1>2. CASE UNCHANGED leagueVars
  BY <1>2 DEF leagueVars, LeagueInv, LeagueTypeOK, Addressed, Pending, RepliesFit, AcceptedIsMember,
     Members, AdminRemains, Admins
<1> QED
  BY <1>1, <1>2

LEMMA LeagueInvariant == LeagueSpec => []LeagueInv
<1> QED
  BY LeagueStart, LeagueInductive, PTL DEF LeagueSpec

\* The rows of the league, its invites and its requests keep their types.
THEOREM LeagueTypeCorrect == LeagueSpec => []LeagueTypeOK
<1>1. LeagueInv => LeagueTypeOK
  BY DEF LeagueInv
<1> QED
  BY <1>1, LeagueInvariant, PTL

\* However admins remove, demote and replace one another on permissions checked
\* before the lock (revoke_admin, transfer_admin), the league keeps one.
THEOREM AdminAlwaysRemains == LeagueSpec => []AdminRemains
<1>1. LeagueInv => AdminRemains
  BY DEF LeagueInv
<1> QED
  BY <1>1, LeagueInvariant, PTL

\* An accepted invite is one of a member, whatever answers, removals and
\* replacements come late or twice (_release_accepted_named_invites).
THEOREM AcceptedStaysMember == LeagueSpec => []AcceptedIsMember
<1>1. LeagueInv => AcceptedIsMember
  BY DEF LeagueInv
<1> QED
  BY <1>1, LeagueInvariant, PTL
\* A season starts with a confirmed calendar for exactly its members, complete
\* rosters and an administrator, by a transition or by try_advance.
THEOREM SeasonAlwaysStartsReady == LeagueSpec => SeasonStartsReady
<1> DEFINE Body == league'.state = "active" /\ league.state # "active"
                     => /\ league'.calendar.status = "confirmed"
                        /\ league'.calendar.members = Members(league')
                        /\ Members(league') \subseteq league'.complete
                        /\ Admins(league') # {}
<1>1. LeagueInv /\ [LeagueNext]_leagueVars => [Body]_leagueVars
  <2> SUFFICES ASSUME LeagueInv, LeagueNext
               PROVE  Body
    OBVIOUS
  <2> QED
    BY EveryStep, AdminStays DEF StepOK, StartsReady, Ready, AdminRemains
<1>2. LeagueSpec => [][Body]_leagueVars
  BY <1>1, LeagueInvariant, PTL DEF LeagueSpec
<1> QED
  BY <1>2 DEF SeasonStartsReady

\* What the moves of roles do to the number of members.
LEMMA MembersMove ==
  ASSUME LeagueInv, RolesMove,
         Cardinality(Members(league')) > Cardinality(Members(league))
  PROVE  \E n \in CurrentCounts : Cardinality(Members(league')) <= n
<1> DEFINE old == Members(league)
           new == Members(league')
<1>1. IsFiniteSet(old) /\ Cardinality(old) \in Nat
  BY InvRows, RowCount
<1>2. new = {u \in Users : league'.role[u] # "none"} /\ old = {u \in Users : league.role[u] # "none"}
  BY DEF Members
<1>3. CASE \E u \in Users : Joins(u)
  <2>1. PICK u \in Users : Joins(u)
    BY <1>3
  <2>2. PICK n \in CurrentCounts : Cardinality(old) < n
    BY <2>1 DEF Joins
  <2>3. new = old \cup {u} /\ u \notin old
    BY <1>2, <2>1, InvRows DEF Joins
  <2>4. Cardinality(new) = Cardinality(old) + 1
    BY <1>1, <2>3, FS_AddElement
  <2>5. n \in Nat
    BY RowCount, InvRows DEF CurrentCounts, RequestRows
  <2> HIDE DEF old, new
  <2>6. Cardinality(new) <= n
    BY <1>1, <2>2, <2>4, <2>5
  <2> QED
    BY <2>6 DEF new
<1>4. CASE \E u, v \in Users : HandsOver(u, v)
  <2>1. PICK u \in Users, v \in Users : HandsOver(u, v)
    BY <1>4
  <2>2. new = (old \ {u}) \cup {v} /\ u \in old /\ v \notin old \ {u}
    BY <1>2, <2>1, InvRows DEF HandsOver
  <2>3. IsFiniteSet(old \ {u}) /\ Cardinality(old \ {u}) = Cardinality(old) - 1
    BY <1>1, <2>2, FS_RemoveElement
  <2>4. Cardinality(new) = Cardinality(old \ {u}) + 1
    BY <2>2, <2>3, FS_AddElement
  <2> QED
    BY <1>1, <2>3, <2>4
<1>5. CASE new \subseteq old
  <2>1. Cardinality(new) <= Cardinality(old) /\ Cardinality(new) \in Nat
    BY <1>1, <1>5, FS_Subset, FS_CardinalityType
  <2> QED
    BY <1>1, <2>1
<1>6. \/ \E u \in Users : Joins(u)
      \/ \E u, v \in Users : HandsOver(u, v)
      \/ new \subseteq old
  BY <1>2, InvRows DEF RolesMove, Leaves, Promoted, Demoted
<1> QED
  BY <1>3, <1>4, <1>5, <1>6

\* No join takes the members beyond every participant count that was current
\* since its request began (_require_capacity, projected_occupancy).
THEOREM JoinsAlwaysFit == LeagueSpec => JoinsFit
<1> DEFINE Body == Cardinality(Members(league')) > Cardinality(Members(league))
                     => \E n \in {league.count} \cup {request[r].count : r \in {q \in Requests : request[q] # None}} :
                          Cardinality(Members(league')) <= n
<1>1. LeagueInv /\ [LeagueNext]_leagueVars => [Body]_leagueVars
  <2> SUFFICES ASSUME LeagueInv, LeagueNext
               PROVE  Body
    OBVIOUS
  <2> QED
    BY EveryStep, MembersMove DEF StepOK, CurrentCounts
<1>2. LeagueSpec => [][Body]_leagueVars
  BY <1>1, LeagueInvariant, PTL DEF LeagueSpec
<1> QED
  BY <1>2, PTL DEF JoinsFit

(***************************************************************************)
(* Recursion                                                               *)
(***************************************************************************)
\* The order of the naturals as a set of pairs.
Below == {p \in Nat \X Nat : p[1] < p[2]}

LEMMA SmallestOf ==
  ASSUME NEW T \in SUBSET Nat, T # {}
  PROVE  \E n \in T : \A m \in T : n <= m
<1>1. OpToRel(<, Nat) = Below
  BY Zenon DEF OpToRel, Below
<1>2. IsWellFoundedOn(Below, Nat)
  BY <1>1, NatLessThanWellFounded, Zenon
<1>3. PICK n \in T : \A m \in T : <<m, n>> \notin Below
  BY <1>2, WFMin
<1>4. ASSUME NEW m \in T
      PROVE  n <= m
  <2>1. <<m, n>> \in Nat \X Nat /\ <<m, n>>[1] = m /\ <<m, n>>[2] = n
    OBVIOUS
  <2> QED
    BY <1>3, <2>1 DEF Below
<1> QED
  BY <1>4

\* A set of naturals that has 0 and every successor up to n has all of 0..n.
LEMMA UpTo ==
  ASSUME NEW n \in Nat, NEW T \in SUBSET (0..n), 0 \in T, \A i \in 1..n : i - 1 \in T => i \in T
  PROVE  T = 0..n
<1> SUFFICES ASSUME (0..n) \ T # {}
             PROVE  FALSE
  OBVIOUS
<1>1. PICK m \in (0..n) \ T : \A k \in (0..n) \ T : m <= k
  BY SmallestOf, (0..n) \ T \in SUBSET Nat
<1>2. m \in 1..n /\ m - 1 \in T
  BY <1>1
<1> QED
  BY <1>1, <1>2

\* f follows a recursion over 0..n that starts with s0.
Recurs(f, n, S, s0, step) ==
  /\ f \in [0..n -> S] /\ f[0] = s0
  /\ \A i \in 1..n : f[i] = step[<<i, f[i - 1]>>]

LEMMA Recursion ==
  ASSUME NEW n \in Nat, NEW S, NEW s0 \in S, NEW step \in [(1..n) \X S -> S]
  PROVE  \E f : Recurs(f, n, S, s0, step)
<1> DEFINE T == {k \in 0..n : \E f : Recurs(f, k, S, s0, step)}
<1>1. 0 \in T
  <2> DEFINE f == [i \in 0..0 |-> s0]
  <2>1. Recurs(f, 0, S, s0, step)
    BY DEF Recurs
  <2> QED
    BY <2>1
<1>2. ASSUME NEW k \in 1..n, k - 1 \in T
      PROVE  k \in T
  <2>1. PICK f : Recurs(f, k - 1, S, s0, step)
    BY <1>2
  <2> DEFINE g == [i \in 0..k |-> IF i = k THEN step[<<k, f[k - 1]>>] ELSE f[i]]
  <2>2. step[<<k, f[k - 1]>>] \in S
    BY <2>1 DEF Recurs
  <2>3. g \in [0..k -> S] /\ g[0] = s0
    BY <2>1, <2>2 DEF Recurs
  <2>4. ASSUME NEW i \in 1..k
        PROVE  g[i] = step[<<i, g[i - 1]>>]
    <3>1. i - 1 \in 0..k /\ i - 1 # k /\ i \in 0..k /\ (i = k \/ i \in 1..(k - 1))
      OBVIOUS
    <3>2. g[i - 1] = f[i - 1] /\ g[i] = IF i = k THEN step[<<k, f[k - 1]>>] ELSE f[i]
      BY <3>1
    <3> HIDE DEF g
    <3> QED
      BY <2>1, <3>1, <3>2 DEF Recurs
  <2> HIDE DEF g
  <2>5. Recurs(g, k, S, s0, step)
    BY <2>3, <2>4 DEF Recurs
  <2> QED
    BY <2>5
<1>3. T = 0..n
  <2> HIDE DEF T
  <2>1. T \in SUBSET (0..n)
    BY DEF T
  <2> QED
    BY <1>1, <1>2, <2>1, UpTo
<1> QED
  BY <1>3

\* What a loop keeps, step by step.
LEMMA Kepts ==
  ASSUME NEW n \in Nat, NEW S, NEW f, f[0] \in S, \A k \in 1..n : f[k - 1] \in S => f[k] \in S
  PROVE  \A k \in 0..n : f[k] \in S
<1> DEFINE T == {k \in 0..n : f[k] \in S}
<1>1. T \in SUBSET (0..n) /\ 0 \in T /\ \A k \in 1..n : k - 1 \in T => k \in T
  OBVIOUS
<1>2. T = 0..n
  <2> HIDE DEF T
  <2> QED
    BY <1>1, UpTo
<1> QED
  BY <1>2

(***************************************************************************)
(* The plan: in a match that is not a rest two participants meet           *)
(***************************************************************************)
Slots(n) == {slot \in [round : Int, index : Int, home : 1..n, away : 0..n] : slot.home # slot.away}

\* A circle seats everybody, and nobody twice.
Seatings(n) == {c \in [1..Size(n) -> 0..n] : \A i, j \in 1..Size(n) : c[i] = c[j] => i = j}

LEMMA SizeIs ==
  ASSUME NEW n \in Nat \ {0, 1}
  PROVE  /\ Size(n) \in {n, n + 1} /\ Size(n) % 2 = 0 /\ Size(n) \div 2 \in Nat \ {0}
         /\ Size(n) = 2 * (Size(n) \div 2) /\ CycleLength(n) \in Nat
BY DEF Size, CycleLength

LEMMA TurnedIs ==
  ASSUME NEW n \in Nat \ {0, 1}, NEW c \in Seatings(n)
  PROVE  Turned(c) \in Seatings(n)
<1> DEFINE N == Size(n)
<1>1. N \in Nat /\ N >= 2
  BY SizeIs
<1>2. /\ c \in [1..N -> 0..n] /\ DOMAIN c = 1..N
      /\ \A i, j \in 1..N : c[i] = c[j] => i = j
  BY DEF Seatings
<1> HIDE DEF N
<1>3. c \in Seq(0..n) /\ Len(c) = N
  BY <1>1, <1>2
<1> DEFINE from(i) == CASE i = 1 -> 1 [] i = 2 -> N [] i > 2 -> i - 1
<1>4. /\ \A i \in 1..N : from(i) \in 1..N
      /\ \A i, j \in 1..N : from(i) = from(j) => i = j
  BY <1>1
<1>5. \A i \in 1..N : (i = 1 \/ i = 2 \/ i > 2) /\ Turned(c)[i] = c[from(i)]
  BY <1>1, <1>2, <1>3 DEF Turned
<1>6. Turned(c) = [i \in 1..N |-> Turned(c)[i]]
  BY <1>2 DEF Turned
<1> HIDE DEF from
<1>7. Turned(c) \in [1..N -> 0..n] /\ \A i, j \in 1..N : Turned(c)[i] = Turned(c)[j] => i = j
  BY <1>2, <1>4, <1>5, <1>6
<1> QED
  BY <1>7 DEF Seatings, N

LEMMA CirclesAre ==
  ASSUME NEW n \in Nat \ {0, 1}
  PROVE  \A r \in 0..CycleLength(n) : Circles(n)[r] \in Seatings(n)
<1> DEFINE m == CycleLength(n)
<1> DEFINE S == Seatings(n)
<1> DEFINE step == [p \in (1..m) \X S |-> Turned(p[2])]
<1> DEFINE body(f) == [r \in 0..m |-> IF r = 0 THEN Circle(n) ELSE Turned(f[r - 1])]
<1>1. m \in Nat
  BY SizeIs
<1>2. Circle(n) \in S
  <2>1. Size(n) \in {n, n + 1}
    BY SizeIs
  <2> QED
    BY <2>1 DEF Circle, Seatings, NoOne
<1>3. step \in [(1..m) \X S -> S]
  BY TurnedIs
<1>4. \A k \in 1..m, c \in S : step[<<k, c>>] = Turned(c)
  OBVIOUS
<1> HIDE DEF step, S, m
<1>5. PICK f : Recurs(f, m, S, Circle(n), step)
  BY <1>1, <1>2, <1>3, Recursion
<1>6. f = body(f)
  <2>1. f \in [0..m -> S] /\ f[0] = Circle(n)
    BY <1>5 DEF Recurs
  <2>2. \A k \in 1..m : k - 1 \in 0..m /\ k # 0
    BY <1>1
  <2>3. \A k \in 1..m : f[k] = Turned(f[k - 1])
    BY <1>4, <1>5, <2>1, <2>2 DEF Recurs
  <2>4. \A k \in 0..m : k = 0 \/ k \in 1..m
    BY <1>1
  <2> QED
    BY <2>1, <2>2, <2>3, <2>4
<1> DEFINE line == CHOOSE g : g = body(g)
<1>7. line = body(line)
  BY <1>6, Zenon
<1>8. Circles(n) = line
  BY Zenon DEF Circles, m
<1> HIDE DEF line
<1>9. line[0] = Circle(n) /\ \A k \in 1..m : line[k] = Turned(line[k - 1])
  <2>1. 0 \in 0..m /\ \A k \in 1..m : k \in 0..m /\ k # 0
    BY <1>1
  <2> QED
    BY <1>7, <2>1
<1>10. \A k \in 0..m : line[k] \in S
  <2>1. line[0] \in S /\ \A k \in 1..m : line[k - 1] \in S => line[k] \in S
    BY <1>2, <1>9, TurnedIs DEF S
  <2> QED
    BY <1>1, <2>1, Kepts
<1> QED
  BY <1>8, <1>10 DEF S, m

LEMMA FacingDiffer ==
  ASSUME NEW n \in Nat \ {0, 1}, NEW c \in Seatings(n), NEW i \in 1..(Size(n) \div 2)
  PROVE  Facing(c, i) \in (0..n) \X (0..n) /\ Facing(c, i)[1] # Facing(c, i)[2]
<1> DEFINE N == Size(n)
<1>1. N \in Nat /\ i \in 1..N /\ N + 1 - i \in 1..N /\ i # N + 1 - i
  BY SizeIs
<1>2. c \in [1..N -> 0..n] /\ \A j, k \in 1..N : c[j] = c[k] => j = k
  BY DEF Seatings
<1> HIDE DEF N
<1>3. Len(c) = N
  BY <1>1, <1>2
<1> QED
  BY <1>1, <1>2, <1>3 DEF Facing

LEMMA OrientedIs ==
  ASSUME NEW n \in Nat, NEW round \in Int, NEW index \in Int, NEW pair \in (0..n) \X (0..n), pair[1] # pair[2],
         NEW atHome \in [1..n -> Nat]
  PROVE  Oriented(round, index, pair, atHome) \in Slots(n)
<1> DEFINE h == pair[1]
<1> DEFINE a == pair[2]
<1>1. h \in 0..n /\ a \in 0..n /\ h # a
  OBVIOUS
<1> HIDE DEF h, a
<1>2. CASE NoOne \in {h, a}
  <2>1. Oriented(round, index, pair, atHome) = Slot(round, index, h + a, NoOne)
    BY <1>2 DEF Oriented, h, a
  <2>2. h + a \in 1..n
    BY <1>1, <1>2 DEF NoOne
  <2> QED
    BY <2>1, <2>2 DEF Slot, Slots, NoOne
<1>3. CASE NoOne \notin {h, a}
  <2>1. h \in 1..n /\ a \in 1..n
    BY <1>1, <1>3 DEF NoOne
  <2>2. atHome[h] \in Nat /\ atHome[a] \in Nat
    BY <2>1
  <2>3. CASE atHome[h] <= atHome[a]
    <3>1. Oriented(round, index, pair, atHome) = Slot(round, index, h, a)
      BY <1>3, <2>2, <2>3 DEF Oriented, h, a
    <3> QED
      BY <1>1, <2>1, <3>1 DEF Slot, Slots
  <2>4. CASE atHome[h] > atHome[a]
    <3>1. Oriented(round, index, pair, atHome) = Slot(round, index, a, h)
      BY <1>3, <2>2, <2>4 DEF Oriented, h, a
    <3> QED
      BY <1>1, <2>1, <3>1 DEF Slot, Slots
  <2> QED
    BY <2>2, <2>3, <2>4
<1> QED
  BY <1>2, <1>3

Plans(n) == [slots : Seq(Slots(n)), atHome : [1..n -> Nat]]

LEMMA DivisionOf ==
  ASSUME NEW a \in Nat, NEW h \in Nat \ {0}
  PROVE  /\ a \div h \in Nat /\ a % h \in 0..(h - 1)
         /\ a = (h * (a \div h)) + (a % h)
OBVIOUS

LEMMA RoundOf ==
  ASSUME NEW half \in Nat \ {0}, NEW rounds \in Nat, NEW k \in 1..(rounds * half)
  PROVE  (k - 1) \div half \in 0..rounds /\ (k - 1) % half \in 0..(half - 1)
<1> DEFINE q == (k - 1) \div half
<1> DEFINE whole == rounds * half
<1>1. whole \in Int /\ k \in Int /\ 1 <= k /\ k <= whole
  OBVIOUS
<1> HIDE DEF whole
<1>2. k - 1 \in Nat
  BY <1>1
<1>3. q \in Nat /\ (k - 1) % half \in 0..(half - 1) /\ k - 1 = (half * q) + ((k - 1) % half)
  BY <1>2, DivisionOf
<1> HIDE DEF q
<1>4. half * q < whole
  BY <1>1, <1>3
<1>5. q < rounds
  <2> SUFFICES ASSUME q >= rounds
               PROVE  FALSE
    BY <1>3
  <2>1. half * q = (rounds * half) + (half * (q - rounds)) /\ half * (q - rounds) >= 0
    BY <1>3
  <2> QED
    BY <1>1, <1>3, <1>4, <2>1 DEF whole
<1> QED
  BY <1>3, <1>5 DEF q

LEMMA PlaceIs ==
  ASSUME NEW n \in Nat \ {0, 1}, NEW placed \in Plans(n), NEW k \in 1..(CycleLength(n) * (Size(n) \div 2))
  PROVE  Place(n, placed, k) \in Plans(n)
<1> DEFINE half == Size(n) \div 2
<1> DEFINE round == (k - 1) \div half
<1> DEFINE i == (k - 1) % half
<1> DEFINE slot == Oriented(round + 1, i, Facing(Circles(n)[round], i + 1), placed.atHome)
<1>1. half \in Nat \ {0} /\ CycleLength(n) \in Nat
  BY SizeIs
<1>2. round \in 0..CycleLength(n) /\ i \in 0..(half - 1)
  <2> HIDE DEF half
  <2> QED
    BY <1>1, RoundOf DEF half
<1>3. i + 1 \in 1..half /\ i \in Int /\ round + 1 \in Int
  BY <1>1, <1>2
<1> HIDE DEF half, round, i
<1>4. Circles(n)[round] \in Seatings(n)
  BY <1>2, CirclesAre
<1>5. Facing(Circles(n)[round], i + 1) \in (0..n) \X (0..n)
      /\ Facing(Circles(n)[round], i + 1)[1] # Facing(Circles(n)[round], i + 1)[2]
  BY <1>3, <1>4, FacingDiffer DEF half
<1>6. placed.slots \in Seq(Slots(n)) /\ placed.atHome \in [1..n -> Nat]
  BY DEF Plans
<1>7. slot \in Slots(n)
  BY <1>3, <1>5, <1>6, OrientedIs
<1>8. slot.home \in 1..n
  BY <1>7 DEF Slots
<1>9. Place(n, placed, k)
        = [slots |-> Append(placed.slots, slot),
           atHome |-> IF IsBye(slot) THEN placed.atHome ELSE [placed.atHome EXCEPT ![slot.home] = @ + 1]]
  BY DEF Place, half, round, i
<1> HIDE DEF slot
<1>10. Append(placed.slots, slot) \in Seq(Slots(n))
  BY <1>6, <1>7
<1>11. [placed.atHome EXCEPT ![slot.home] = @ + 1] \in [1..n -> Nat]
  BY <1>6, <1>8
<1> QED
  BY <1>6, <1>9, <1>10, <1>11 DEF Plans

LEMMA FlipIs ==
  ASSUME NEW r, NEW i, NEW h, NEW a, NEW slot, slot = [round |-> r, index |-> i, home |-> h, away |-> a]
  PROVE  Flip(slot) = [round |-> r, index |-> i, home |-> a, away |-> h]
<1>1. slot.home = h /\ slot.away = a /\ [slot EXCEPT !.home = slot.away] = [round |-> r, index |-> i, home |-> a, away |-> a]
  OBVIOUS
<1>2. Flip(slot) = [[round |-> r, index |-> i, home |-> a, away |-> a] EXCEPT !.away = h]
  BY <1>1 DEF Flip
<1> QED
  BY <1>2

LEMMA FlipIfBetterIs ==
  ASSUME NEW n \in Nat, NEW N \in Nat, NEW slots \in [1..N -> Slots(n)], NEW i \in 1..N
  PROVE  FlipIfBetter(slots, i) \in [1..N -> Slots(n)]
<1> DEFINE slot == slots[i]
<1>1. slot \in Slots(n)
  OBVIOUS
<1>2. ASSUME ~IsBye(slot)
      PROVE  Flip(slot) \in Slots(n)
  <2>1. Flip(slot) = [round |-> slot.round, index |-> slot.index, home |-> slot.away, away |-> slot.home]
    <3>1. slot = [round |-> slot.round, index |-> slot.index, home |-> slot.home, away |-> slot.away]
      BY <1>1 DEF Slots
    <3> QED
      BY <3>1, FlipIs
  <2>2. slot.away \in 1..n
    BY <1>1, <1>2 DEF IsBye, NoOne, Slots
  <2> QED
    BY <1>1, <2>1, <2>2 DEF Slots
<1>3. \/ FlipIfBetter(slots, i) = slots
      \/ ~IsBye(slot) /\ FlipIfBetter(slots, i) = [slots EXCEPT ![i] = Flip(slot)]
  BY Zenon DEF FlipIfBetter, slot
<1> QED
  BY <1>2, <1>3

LEMMA SweptIs ==
  ASSUME NEW n \in Nat, NEW N \in Nat, NEW slots \in [1..N -> Slots(n)]
  PROVE  Swept(slots) \in [1..N -> Slots(n)]
<1> DEFINE S == [1..N -> Slots(n)]
<1> DEFINE step == [p \in (1..N) \X S |-> FlipIfBetter(p[2], p[1])]
<1> DEFINE body(f) == [k \in 0..N |-> IF k = 0 THEN slots ELSE FlipIfBetter(f[k - 1], k)]
<1>1. Len(slots) = N
  OBVIOUS
<1>2. step \in [(1..N) \X S -> S]
  BY FlipIfBetterIs
<1>3. \A k \in 1..N, s \in S : step[<<k, s>>] = FlipIfBetter(s, k)
  OBVIOUS
<1>4. slots \in S /\ \A k \in 1..N, s \in S : FlipIfBetter(s, k) \in S
  BY FlipIfBetterIs
<1> HIDE DEF step, S
<1>5. PICK f : Recurs(f, N, S, slots, step)
  BY <1>2, <1>4, Recursion
<1>6. f = body(f)
  <2>1. f \in [0..N -> S] /\ f[0] = slots
    BY <1>5 DEF Recurs
  <2>2. \A k \in 1..N : k - 1 \in 0..N /\ k # 0
    OBVIOUS
  <2>3. \A k \in 1..N : f[k] = FlipIfBetter(f[k - 1], k)
    BY <1>3, <1>5, <2>1, <2>2 DEF Recurs
  <2>4. \A k \in 0..N : k = 0 \/ k \in 1..N
    OBVIOUS
  <2> QED
    BY <2>1, <2>2, <2>3, <2>4
<1> DEFINE line == CHOOSE g : g = body(g)
<1>7. line = body(line)
  BY <1>6, Zenon
<1>8. Swept(slots) = line[N]
  BY <1>1, Zenon DEF Swept
<1> HIDE DEF line
<1>9. line[0] = slots /\ \A k \in 1..N : line[k] = FlipIfBetter(line[k - 1], k)
  <2>1. 0 \in 0..N /\ \A k \in 1..N : k \in 0..N /\ k # 0
    OBVIOUS
  <2> QED
    BY <1>7, <2>1
<1>10. \A k \in 0..N : line[k] \in S
  <2>1. line[0] \in S /\ \A k \in 1..N : line[k - 1] \in S => line[k] \in S
    BY <1>4, <1>9
  <2> QED
    BY <2>1, Kepts
<1> QED
  BY <1>8, <1>10 DEF S

LEMMA RebalancedIs ==
  ASSUME NEW n \in Nat, NEW N \in Nat, NEW slots \in [1..N -> Slots(n)]
  PROVE  Rebalanced(slots) \in [1..N -> Slots(n)]
<1> DEFINE S == [1..N -> Slots(n)]
<1> DEFINE next(s) == IF s = Swept(s) THEN s ELSE Swept(s)
<1> DEFINE step == [p \in (1..N) \X S |-> next(p[2])]
<1> DEFINE body(f) == [k \in 0..N |-> IF k = 0 THEN slots ELSE next(f[k - 1])]
<1>1. Len(slots) = N
  OBVIOUS
<1>2. \A s \in S : next(s) \in S
  BY SweptIs
<1>3. slots \in S
  OBVIOUS
<1>4. Rebalanced(slots) = (CHOOSE g : g = body(g))[N]
  BY <1>1, Zenon DEF Rebalanced
<1> HIDE DEF next, S
<1>5. /\ step \in [(1..N) \X S -> S]
      /\ \A k \in 1..N, s \in S : step[<<k, s>>] = next(s)
  BY <1>2
<1> HIDE DEF step
<1>6. PICK f : Recurs(f, N, S, slots, step)
  BY <1>3, <1>5, Recursion
<1>7. f = body(f)
  <2>1. f \in [0..N -> S] /\ f[0] = slots
    BY <1>6 DEF Recurs
  <2>2. \A k \in 1..N : k - 1 \in 0..N /\ k # 0
    OBVIOUS
  <2>3. \A k \in 1..N : f[k] = next(f[k - 1])
    BY <1>5, <1>6, <2>1, <2>2 DEF Recurs
  <2>4. \A k \in 0..N : k = 0 \/ k \in 1..N
    OBVIOUS
  <2> QED
    BY <2>1, <2>2, <2>3, <2>4
<1> DEFINE line == CHOOSE g : g = body(g)
<1>8. line = body(line)
  BY <1>7, Zenon
<1> HIDE DEF line
<1>9. line[0] = slots /\ \A k \in 1..N : line[k] = next(line[k - 1])
  <2>1. 0 \in 0..N /\ \A k \in 1..N : k \in 0..N /\ k # 0
    OBVIOUS
  <2> QED
    BY <1>8, <2>1
<1>10. \A k \in 0..N : line[k] \in S
  <2>1. line[0] \in S /\ \A k \in 1..N : line[k - 1] \in S => line[k] \in S
    BY <1>2, <1>3, <1>9
  <2> QED
    BY <2>1, Kepts
<1> QED
  BY <1>4, <1>10 DEF S, line

LEMMA SingleRoundRobinIs ==
  ASSUME NEW n \in Nat \ {0, 1}
  PROVE  \E N \in Nat : SingleRoundRobin(n) \in [1..N -> Slots(n)]
<1> DEFINE m == CycleLength(n) * (Size(n) \div 2)
<1> DEFINE S == Plans(n)
<1> DEFINE start == [slots |-> << >>, atHome |-> [i \in 1..n |-> 0]]
<1> DEFINE step == [p \in (1..m) \X S |-> Place(n, p[2], p[1])]
<1> DEFINE body(f) == [k \in 0..m |-> IF k = 0 THEN start ELSE Place(n, f[k - 1], k)]
<1>1. m \in Nat
  BY SizeIs
<1>2. start \in S
  BY DEF Plans
<1>3. \A k \in 1..m, s \in S : Place(n, s, k) \in S
  BY PlaceIs
<1>4. SingleRoundRobin(n) = Rebalanced((CHOOSE g : g = body(g))[m].slots)
  BY Zenon DEF SingleRoundRobin
<1> HIDE DEF m, S, start
<1>5. /\ step \in [(1..m) \X S -> S]
      /\ \A k \in 1..m, s \in S : step[<<k, s>>] = Place(n, s, k)
  BY <1>3
<1> HIDE DEF step
<1>6. PICK f : Recurs(f, m, S, start, step)
  BY <1>1, <1>2, <1>5, Recursion
<1>7. f = body(f)
  <2>1. f \in [0..m -> S] /\ f[0] = start
    BY <1>6 DEF Recurs
  <2>2. \A k \in 1..m : k - 1 \in 0..m /\ k # 0
    BY <1>1
  <2>3. \A k \in 1..m : f[k] = Place(n, f[k - 1], k)
    BY <1>5, <1>6, <2>1, <2>2 DEF Recurs
  <2>4. \A k \in 0..m : k = 0 \/ k \in 1..m
    BY <1>1
  <2> QED
    BY <2>1, <2>2, <2>3, <2>4
<1> DEFINE line == CHOOSE g : g = body(g)
<1>8. line = body(line)
  BY <1>7, Zenon
<1> HIDE DEF line
<1>9. line[0] = start /\ \A k \in 1..m : line[k] = Place(n, line[k - 1], k)
  <2>1. 0 \in 0..m /\ \A k \in 1..m : k \in 0..m /\ k # 0
    BY <1>1
  <2> QED
    BY <1>8, <2>1
<1>10. \A k \in 0..m : line[k] \in S
  <2>1. line[0] \in S /\ \A k \in 1..m : line[k - 1] \in S => line[k] \in S
    BY <1>2, <1>3, <1>9
  <2> QED
    BY <1>1, <2>1, Kepts
<1>11. line[m].slots \in Seq(Slots(n))
  BY <1>1, <1>10 DEF S, Plans
<1> DEFINE slots == line[m].slots
<1>12. Len(slots) \in Nat /\ slots \in [1..Len(slots) -> Slots(n)]
  BY <1>11
<1>13. Rebalanced(slots) \in [1..Len(slots) -> Slots(n)]
  <2> HIDE DEF slots
  <2> QED
    BY <1>12, RebalancedIs
<1>14. SingleRoundRobin(n) = Rebalanced(slots)
  BY <1>4, Zenon DEF line
<1> QED
  BY <1>12, <1>13, <1>14

\* An edge joins two nodes; one that stands for a match does not touch the dummy.
EdgesOver(n) ==
  {e \in [id : Int, ends : SUBSET (0..n)] :
     /\ \E a, b \in 0..n : a # b /\ e.ends = {a, b}
     /\ e.id > 0 => 0 \notin e.ends}

Directions(n) == {way \in Int \X (1..n) \X (1..n) : way[2] # way[3]}

Walks(n) ==
  {walk \in [node : 0..n, left : SUBSET EdgesOver(n), taken : SUBSET Directions(n)] : IsFiniteSet(walk.left)}

LEMMA ImageFinite ==
  ASSUME NEW S, IsFiniteSet(S), NEW f, DOMAIN f = S, f = [x \in S |-> f[x]]
  PROVE  IsFiniteSet({f[x] : x \in S})
<1> DEFINE T == {f[x] : x \in S}
<1>1. f \in [S -> T]
  OBVIOUS
<1>2. f \in Surjection(S, T)
  BY <1>1 DEF Surjection
<1> QED
  BY <1>2, FS_Surjection

LEMMA EdgesAre ==
  ASSUME NEW n \in Nat, NEW N \in Nat, NEW slots \in [1..N -> Slots(n)]
  PROVE  Edges(slots) \in SUBSET EdgesOver(n) /\ IsFiniteSet(Edges(slots))
<1> DEFINE matches == {i \in DOMAIN slots : ~IsBye(slots[i])}
<1> DEFINE ends(i) == {slots[i].home, slots[i].away}
<1> DEFINE odd == {m \in UNION {ends(i) : i \in matches} : Cardinality({i \in matches : m \in ends(i)}) % 2 = 1}
<1> DEFINE f == [i \in matches |-> [id |-> i, ends |-> ends(i)]]
<1> DEFINE g == [m \in odd |-> [id |-> 0 - m, ends |-> {Dummy, m}]]
<1>1. Edges(slots) = {f[i] : i \in matches} \cup {g[m] : m \in odd}
  <2>1. {f[i] : i \in matches} = {[id |-> i, ends |-> ends(i)] : i \in matches}
    OBVIOUS
  <2>2. {g[m] : m \in odd} = {[id |-> 0 - m, ends |-> {Dummy, m}] : m \in odd}
    OBVIOUS
  <2>3. Edges(slots) = {[id |-> i, ends |-> ends(i)] : i \in matches} \cup {[id |-> 0 - m, ends |-> {Dummy, m}] : m \in odd}
    BY Zenon DEF Edges
  <2> QED
    BY <2>1, <2>2, <2>3
<1>2. \A i \in matches : i \in 1..N /\ slots[i].home \in 1..n /\ slots[i].away \in 1..n /\ slots[i].home # slots[i].away
  <2> TAKE i \in matches
  <2>1. i \in 1..N /\ slots[i] \in Slots(n) /\ slots[i].away # 0
    BY DEF IsBye, NoOne
  <2> QED
    BY <2>1 DEF Slots
<1>3. odd \in SUBSET (1..n)
  BY <1>2
<1>4. \A i \in matches : f[i] \in EdgesOver(n)
  <2> TAKE i \in matches
  <2> DEFINE h == slots[i].home
  <2> DEFINE a == slots[i].away
  <2>1. h \in 1..n /\ a \in 1..n /\ h # a /\ i \in 1..N
    BY <1>2
  <2>2. f[i] = [id |-> i, ends |-> {h, a}]
    OBVIOUS
  <2> HIDE DEF f, h, a
  <2> QED
    BY <2>1, <2>2 DEF EdgesOver
<1>5. \A m \in odd : g[m] \in EdgesOver(n)
  <2> TAKE m \in odd
  <2>1. m \in 1..n /\ g[m] = [id |-> 0 - m, ends |-> {0, m}]
    BY <1>3 DEF Dummy
  <2> HIDE DEF g, odd
  <2> QED
    BY <2>1 DEF EdgesOver
<1>6. IsFiniteSet(matches) /\ IsFiniteSet(odd)
  <2>1. IsFiniteSet(1..N) /\ IsFiniteSet(1..n)
    BY FS_Interval
  <2>2. matches \in SUBSET (1..N)
    OBVIOUS
  <2> HIDE DEF matches, odd
  <2> QED
    BY <1>3, <2>1, <2>2, FS_Subset
<1>7. IsFiniteSet({f[i] : i \in matches}) /\ IsFiniteSet({g[m] : m \in odd})
  <2>1. DOMAIN f = matches /\ f = [i \in matches |-> f[i]] /\ DOMAIN g = odd /\ g = [m \in odd |-> g[m]]
    OBVIOUS
  <2> HIDE DEF matches, odd, f, g
  <2> QED
    BY <1>6, <2>1, ImageFinite
<1> HIDE DEF matches, odd, f, g
<1> QED
  BY <1>1, <1>4, <1>5, <1>7, FS_Union

LEMMA OtherEndIs ==
  ASSUME NEW n \in Nat, NEW e \in EdgesOver(n), NEW node \in e.ends
  PROVE  OtherEnd(e, node) \in e.ends /\ OtherEnd(e, node) \in 0..n /\ OtherEnd(e, node) # node
<1>1. PICK a \in 0..n, b \in 0..n : a # b /\ e.ends = {a, b}
  BY DEF EdgesOver
<1>2. e.ends \ {node} # {}
  BY <1>1
<1>3. OtherEnd(e, node) \in e.ends \ {node}
  BY <1>2 DEF OtherEnd
<1> QED
  BY <1>1, <1>3

LEMMA TakeEdgeIs ==
  ASSUME NEW n \in Nat, NEW walk \in Walks(n)
  PROVE  TakeEdge(walk) \in Walks(n)
<1> DEFINE node == walk.node
<1> DEFINE here == {e \in walk.left : node \in e.ends}
<1> DEFINE edge == CHOOSE e \in here : \A f \in here : OtherEnd(e, node) <= OtherEnd(f, node)
<1> DEFINE next == OtherEnd(edge, node)
<1> DEFINE taken == IF edge.id > 0 THEN walk.taken \cup {<<edge.id, node, next>>} ELSE walk.taken
<1>1. TakeEdge(walk) = IF here = {} THEN walk ELSE [node |-> next, left |-> walk.left \ {edge}, taken |-> taken]
  BY Zenon DEF TakeEdge
<1> SUFFICES ASSUME here # {}
             PROVE  [node |-> next, left |-> walk.left \ {edge}, taken |-> taken] \in Walks(n)
  BY <1>1
<1>2. node \in 0..n /\ walk.left \in SUBSET EdgesOver(n) /\ walk.taken \in SUBSET Directions(n) /\ IsFiniteSet(walk.left)
  BY DEF Walks
<1> HIDE DEF node
<1>3. edge \in here
  <2> DEFINE T == {OtherEnd(e, node) : e \in here}
  <2>1. T \in SUBSET Nat /\ T # {}
    <3>1. ASSUME NEW e \in here
          PROVE  OtherEnd(e, node) \in Nat
      BY <1>2, OtherEndIs
    <3> QED
      BY <3>1
  <2>2. PICK t \in T : \A u \in T : t <= u
    <3> HIDE DEF T
    <3> QED
      BY <2>1, SmallestOf
  <2>3. \E e \in here : \A f \in here : OtherEnd(e, node) <= OtherEnd(f, node)
    BY <2>2
  <2> HIDE DEF here, T
  <2> QED
    BY <2>3, Zenon
<1> HIDE DEF edge
<1>4. edge \in EdgesOver(n) /\ node \in edge.ends
  BY <1>2, <1>3
<1>5. next \in edge.ends /\ next \in 0..n /\ next # node
  BY <1>2, <1>4, OtherEndIs
<1> HIDE DEF next, here
<1>6. taken \in SUBSET Directions(n)
  <2>1. ASSUME edge.id > 0
        PROVE  <<edge.id, node, next>> \in Directions(n)
    <3>1. edge.id \in Int /\ node \in 1..n /\ next \in 1..n
      BY <1>2, <1>4, <1>5, <2>1 DEF EdgesOver
    <3> QED
      BY <1>5, <3>1 DEF Directions
  <2> QED
    BY <1>2, <2>1
<1> HIDE DEF taken
<1>7. walk.left \ {edge} \in SUBSET EdgesOver(n) /\ IsFiniteSet(walk.left \ {edge})
  BY <1>2, FS_Subset
<1> QED
  BY <1>5, <1>6, <1>7 DEF Walks

LEMMA WalkIs ==
  ASSUME NEW n \in Nat, NEW walk \in Walks(n)
  PROVE  Walk(walk) \in Walks(n)
<1> DEFINE m == Cardinality(walk.left)
<1> DEFINE S == Walks(n)
<1> DEFINE step == [p \in (1..m) \X S |-> TakeEdge(p[2])]
<1> DEFINE body(f) == [k \in 0..m |-> IF k = 0 THEN walk ELSE TakeEdge(f[k - 1])]
<1>1. m \in Nat
  BY FS_CardinalityType DEF Walks
<1>2. walk \in S /\ \A s \in S : TakeEdge(s) \in S
  BY TakeEdgeIs
<1>3. Walk(walk) = (CHOOSE g : g = body(g))[m]
  BY Zenon DEF Walk
<1> HIDE DEF m, S
<1>4. /\ step \in [(1..m) \X S -> S]
      /\ \A k \in 1..m, s \in S : step[<<k, s>>] = TakeEdge(s)
  BY <1>2
<1> HIDE DEF step
<1>5. PICK f : Recurs(f, m, S, walk, step)
  BY <1>1, <1>2, <1>4, Recursion
<1>6. f = body(f)
  <2>1. f \in [0..m -> S] /\ f[0] = walk
    BY <1>5 DEF Recurs
  <2>2. \A k \in 1..m : k - 1 \in 0..m /\ k # 0
    BY <1>1
  <2>3. \A k \in 1..m : f[k] = TakeEdge(f[k - 1])
    BY <1>4, <1>5, <2>1, <2>2 DEF Recurs
  <2>4. \A k \in 0..m : k = 0 \/ k \in 1..m
    BY <1>1
  <2> QED
    BY <2>1, <2>2, <2>3, <2>4
<1> DEFINE line == CHOOSE g : g = body(g)
<1>7. line = body(line)
  BY <1>6, Zenon
<1> HIDE DEF line
<1>8. line[0] = walk /\ \A k \in 1..m : line[k] = TakeEdge(line[k - 1])
  <2>1. 0 \in 0..m /\ \A k \in 1..m : k \in 0..m /\ k # 0
    BY <1>1
  <2> QED
    BY <1>7, <2>1
<1>9. \A k \in 0..m : line[k] \in S
  <2>1. line[0] \in S /\ \A k \in 1..m : line[k - 1] \in S => line[k] \in S
    BY <1>2, <1>8
  <2> QED
    BY <1>1, <2>1, Kepts
<1> QED
  BY <1>1, <1>3, <1>9 DEF S, line

LEMMA BalanceHomeAwayIs ==
  ASSUME NEW n \in Nat, NEW N \in Nat, NEW slots \in [1..N -> Slots(n)]
  PROVE  BalanceHomeAway(n, slots) \in [1..N -> Slots(n)]
<1> DEFINE S == Walks(n)
<1> DEFINE start == [node |-> Dummy, left |-> Edges(slots), taken |-> {}]
<1> DEFINE from(walk, k) == [walk EXCEPT !.node = k]
<1> DEFINE step == [p \in (1..n) \X S |-> Walk(from(p[2], p[1]))]
<1> DEFINE body(f) == [k \in 0..n |-> Walk(IF k = 0 THEN start ELSE [f[k - 1] EXCEPT !.node = k])]
<1> DEFINE after == CHOOSE g : g = body(g)
<1> DEFINE taken == after[n].taken
<1>1. Walk(start) \in S
  <2>1. start \in S
    BY EdgesAre DEF Walks, Dummy
  <2> QED
    BY <2>1, WalkIs
<1>2. \A k \in 1..n, s \in S : Walk([s EXCEPT !.node = k]) \in S
  <2> TAKE k \in 1..n, s \in S
  <2>1. [s EXCEPT !.node = k] = [node |-> k, left |-> s.left, taken |-> s.taken]
    BY DEF Walks
  <2>2. [s EXCEPT !.node = k] \in S
    BY <2>1 DEF Walks
  <2> QED
    BY <2>2, WalkIs
<1>3. BalanceHomeAway(n, slots)
        = [i \in DOMAIN slots |->
             IF \E way \in taken : way[1] = i
             THEN LET way == CHOOSE s \in taken : s[1] = i
                  IN Slot(slots[i].round, slots[i].index, way[2], way[3])
             ELSE slots[i]]
  BY Zenon DEF BalanceHomeAway
<1> HIDE DEF S, start
<1>4. /\ step \in [(1..n) \X S -> S]
      /\ \A k \in 1..n, s \in S : step[<<k, s>>] = Walk([s EXCEPT !.node = k])
  BY <1>2
<1> HIDE DEF step
<1>5. PICK f : Recurs(f, n, S, Walk(start), step)
  BY <1>1, <1>4, Recursion
<1>6. f = body(f)
  <2>1. f \in [0..n -> S] /\ f[0] = Walk(start)
    BY <1>5 DEF Recurs
  <2>2. \A k \in 1..n : k - 1 \in 0..n /\ k # 0
    OBVIOUS
  <2>3. \A k \in 1..n : f[k] = Walk([f[k - 1] EXCEPT !.node = k])
    BY <1>4, <1>5, <2>1, <2>2 DEF Recurs
  <2>4. \A k \in 0..n : k = 0 \/ k \in 1..n
    OBVIOUS
  <2>5. \A k \in 0..n : f[k] = Walk(IF k = 0 THEN start ELSE [f[k - 1] EXCEPT !.node = k])
    BY <2>1, <2>2, <2>3, <2>4
  <2> QED
    BY <2>1, <2>5
<1>7. after = body(after)
  BY <1>6, Zenon
<1> HIDE DEF after
<1>8. after[0] = Walk(start) /\ \A k \in 1..n : after[k] = Walk([after[k - 1] EXCEPT !.node = k])
  <2>1. 0 \in 0..n /\ \A k \in 1..n : k \in 0..n /\ k # 0
    OBVIOUS
  <2>2. \A k \in 0..n : after[k] = Walk(IF k = 0 THEN start ELSE [after[k - 1] EXCEPT !.node = k])
    BY <1>7
  <2> QED
    BY <2>1, <2>2
<1>9. \A k \in 0..n : after[k] \in S
  <2>1. after[0] \in S /\ \A k \in 1..n : after[k - 1] \in S => after[k] \in S
    BY <1>1, <1>2, <1>8
  <2> QED
    BY <2>1, Kepts
<1>10. taken \in SUBSET Directions(n)
  BY <1>9 DEF S, Walks
<1> HIDE DEF taken
<1>11. ASSUME NEW i \in 1..N
       PROVE  BalanceHomeAway(n, slots)[i] \in Slots(n)
  <2> DEFINE way == CHOOSE s \in taken : s[1] = i
  <2>1. slots[i] \in Slots(n)
    OBVIOUS
  <2>2. CASE \E s \in taken : s[1] = i
    <3>1. way \in taken
      BY <2>2, Zenon
    <3>2. way[2] \in 1..n /\ way[3] \in 1..n /\ way[2] # way[3]
      BY <1>10, <3>1 DEF Directions
    <3>3. BalanceHomeAway(n, slots)[i] = Slot(slots[i].round, slots[i].index, way[2], way[3])
      BY <1>3, <2>2
    <3> HIDE DEF way
    <3>4. slots[i].round \in Int /\ slots[i].index \in Int
      BY <2>1 DEF Slots
    <3> QED
      BY <3>2, <3>3, <3>4 DEF Slot, Slots
  <2>3. CASE ~\E s \in taken : s[1] = i
    BY <1>3, <2>1, <2>3
  <2> QED
    BY <2>2, <2>3
<1>12. BalanceHomeAway(n, slots) = [i \in 1..N |-> BalanceHomeAway(n, slots)[i]]
  BY <1>3
<1> QED
  BY <1>11, <1>12

\* In every round of the season two participants meet in each match.
LEMMA RoundOfPlanIs ==
  ASSUME NEW n \in Nat \ {0, 1}, NEW k
  PROVE  /\ IsFiniteSet(RoundOfPlan(n, BaseCycle(n), k))
         /\ \A pair \in RoundOfPlan(n, BaseCycle(n), k) :
              pair.home \in 1..n /\ pair.away \in 0..n /\ pair.home # pair.away
<1>1. PICK N \in Nat : BaseCycle(n) \in [1..N -> Slots(n)]
  <2>1. PICK N \in Nat : SingleRoundRobin(n) \in [1..N -> Slots(n)]
    BY SingleRoundRobinIs
  <2> QED
    BY <2>1, BalanceHomeAwayIs DEF BaseCycle
<1> DEFINE base == BaseCycle(n)
<1> HIDE DEF base
<1> DEFINE cycle == (k - 1) \div CycleLength(n)
<1> DEFINE round == 1 + ((k - 1) % CycleLength(n))
<1> DEFINE J == {j \in DOMAIN base : base[j].round = round}
<1> DEFINE slots == {base[i] : i \in J}
<1> DEFINE swapped(slot) == IF cycle % 2 = 1 /\ ~IsBye(slot) THEN Flip(slot) ELSE slot
<1> DEFINE f == [s \in slots |-> [home |-> swapped(s).home, away |-> swapped(s).away]]
<1>2. RoundOfPlan(n, base, k) = {f[s] : s \in slots}
  <2>1. RoundOfPlan(n, base, k) = {[home |-> swapped(s).home, away |-> swapped(s).away] : s \in slots}
    BY Zenon DEF RoundOfPlan
  <2> QED
    BY <2>1
<1>3. \A s \in slots : s \in Slots(n)
  BY <1>1 DEF base
<1>4. IsFiniteSet(slots)
  <2>1. J \in SUBSET (1..N) /\ IsFiniteSet(1..N)
    BY <1>1, FS_Interval DEF base
  <2>2. IsFiniteSet(J)
    BY <2>1, FS_Subset
  <2> DEFINE g == [j \in J |-> base[j]]
  <2>3. DOMAIN g = J /\ g = [j \in J |-> g[j]] /\ slots = {g[j] : j \in J}
    OBVIOUS
  <2> HIDE DEF g, J, slots
  <2> QED
    BY <2>2, <2>3, ImageFinite
<1>5. ASSUME NEW s \in slots
      PROVE  f[s].home \in 1..n /\ f[s].away \in 0..n /\ f[s].home # f[s].away
  <2>1. s \in Slots(n)
    BY <1>3
  <2>2. s.home \in 1..n /\ s.away \in 0..n /\ s.home # s.away
        /\ s = [round |-> s.round, index |-> s.index, home |-> s.home, away |-> s.away]
    BY <2>1 DEF Slots
  <2>3. swapped(s) = s \/ (s.away \in 1..n /\ swapped(s).home = s.away /\ swapped(s).away = s.home)
    <3>1. ASSUME ~IsBye(s)
          PROVE  s.away \in 1..n
      BY <2>2, <3>1 DEF IsBye, NoOne
    <3>2. Flip(s) = [round |-> s.round, index |-> s.index, home |-> s.away, away |-> s.home]
      BY <2>2, FlipIs
    <3> HIDE DEF cycle
    <3> QED
      BY <3>1, <3>2
  <2>4. f[s] = [home |-> swapped(s).home, away |-> swapped(s).away]
    OBVIOUS
  <2> HIDE DEF f, swapped
  <2> QED
    BY <2>2, <2>3, <2>4
<1>6. IsFiniteSet({f[s] : s \in slots})
  <2>1. DOMAIN f = slots /\ f = [s \in slots |-> f[s]]
    OBVIOUS
  <2> HIDE DEF f, slots
  <2> QED
    BY <1>4, <2>1, ImageFinite
<1> HIDE DEF f, slots
<1> QED
  BY <1>2, <1>5, <1>6 DEF base

(***************************************************************************)
(* The season                                                              *)
(***************************************************************************)
Scores == [home : Nat, away : Nat, final : BOOLEAN]

\* In a match two of the n participants meet, or one rests; what has been played
\* has a score.
IsMatch(n, match) ==
  /\ match = [home |-> match.home, away |-> match.away, result |-> match.result]
  /\ match.home \in 1..n /\ match.away \in 0..n /\ match.home # match.away
  /\ Played(match) => match.result \in Scores

\* Every day is a set of matches.
AreDays(n, days) ==
  /\ days = [w \in Window |-> days[w]]
  /\ \A w \in Window : IsFiniteSet(days[w]) /\ \A match \in days[w] : IsMatch(n, match)

\* A season has days, and counts its calculations.
SeasonInv ==
  /\ size \in Sizes /\ calculations \in Nat /\ fielded \in [Window -> {"none", "some", "all"}]
  /\ AreDays(size, day)

\* The days of a table keep the matches that were played, as they are.
KeepsPlayed(days) == \A w \in Window : \A match \in day[w] : Played(match) => match \in days[w]

LEMMA PlannedAreMatches ==
  ASSUME size \in Sizes, NEW turns, NEW w
  PROVE  IsFiniteSet(Planned(turns, w)) /\ \A match \in Planned(turns, w) : IsMatch(size, match)
<1> DEFINE k == Cardinality({v \in Playable(turns) : v <= w})
<1> DEFINE pairs == RoundOfPlan(size, BaseCycle(size), k)
<1> DEFINE f == [pair \in pairs |-> [home |-> pair.home, away |-> pair.away, result |-> Unplayed]]
<1>1. size \in Nat \ {0, 1}
  BY SeasonAssumption
<1>2. IsFiniteSet(pairs) /\ \A pair \in pairs : pair.home \in 1..size /\ pair.away \in 0..size /\ pair.home # pair.away
  BY <1>1, RoundOfPlanIs
<1>3. Planned(turns, w) = {f[pair] : pair \in pairs}
  BY DEF Planned, Matches, Bases
<1>4. DOMAIN f = pairs /\ f = [pair \in pairs |-> f[pair]]
  OBVIOUS
<1>5. ASSUME NEW pair \in pairs
      PROVE  IsMatch(size, f[pair])
  BY <1>2 DEF IsMatch, Played
<1> HIDE DEF f, pairs
<1> QED
  BY <1>2, <1>3, <1>4, <1>5, ImageFinite

LEMMA RealignedKeeps ==
  ASSUME SeasonInv, NEW turns
  PROVE  AreDays(size, Realigned(turns)) /\ KeepsPlayed(Realigned(turns))
<1>1. AreDays(size, Realigned(turns))
  BY FS_EmptySet DEF SeasonInv, AreDays, Realigned
<1> QED
  BY <1>1 DEF Realigned, KeepsPlayed

LEMMA RealignedAfterKeeps ==
  ASSUME SeasonInv, NEW turns, NEW w
  PROVE  AreDays(size, RealignedAfter(turns, w)) /\ KeepsPlayed(RealignedAfter(turns, w))
<1>1. AreDays(size, day) /\ KeepsPlayed(day)
  BY DEF SeasonInv, KeepsPlayed
<1> QED
  BY <1>1, RealignedKeeps DEF RealignedAfter

LEMMA ExtendedKeeps ==
  ASSUME size \in Sizes, NEW days, AreDays(size, days), KeepsPlayed(days)
  PROVE  AreDays(size, Extended(days)) /\ KeepsPlayed(Extended(days))
<1>1. AreDays(size, Extended(days))
  BY PlannedAreMatches DEF AreDays, Extended
<1>2. KeepsPlayed(Extended(days))
  BY DEF KeepsPlayed, Extended
<1> QED
  BY <1>1, <1>2

\* A calculation gives new results to matches that keep their day and pairing.
LEMMA ComputeKeeps ==
  ASSUME SeasonInv, NEW w \in Window, NEW lineups \in {"none", "some", "all"}, NEW form \in Forms,
         Compute(w, lineups, form), fielded' \in [Window -> {"none", "some", "all"}]
  PROVE  /\ SeasonInv'
         /\ \A v \in Window : \A match \in day[v] : Played(match) => Kept(match, v)
<1> DEFINE resolved == {match \in day[w] : ~IsBye(match) /\ {match.home, match.away} \subseteq Fielded(lineups)}
           final == turn[w] = "over" /\ resolved # {} /\ resolved = {match \in day[w] : ~IsBye(match)}
           computed(match) == [match EXCEPT !.result =
                                 [home |-> form[match.home], away |-> form[match.away], final |-> final]]
<1>1. /\ day' = [day EXCEPT ![w] = (day[w] \ resolved) \cup {computed(match) : match \in resolved}]
      /\ calculations' = calculations + 1 /\ size' = size
  BY DEF Compute, Results
<1>2. calculations \in Nat /\ calculations' \in Nat /\ calculations' # calculations
  BY <1>1 DEF SeasonInv
<1>3. ASSUME NEW match \in resolved
      PROVE  IsMatch(size, computed(match)) /\ Pairing(computed(match)) = Pairing(match) /\ Played(computed(match))
  <2>1. /\ match = [home |-> match.home, away |-> match.away, result |-> match.result]
        /\ match.home # match.away
    BY DEF SeasonInv, AreDays, IsMatch
  <2> DEFINE score == [home |-> form[match.home], away |-> form[match.away], final |-> final]
  <2>2. computed(match) = [home |-> match.home, away |-> match.away, result |-> score]
    BY <2>1
  <2>3. match.home \in 1..size /\ match.away \in 1..size
    <3>1. Fielded(lineups) \subseteq 1..size
      BY DEF Fielded, Participants
    <3> QED
      BY <3>1
  <2>4. final \in BOOLEAN
    OBVIOUS
  <2>5. score # Unplayed /\ score \in Scores
    <3> HIDE DEF final
    <3> QED
      BY <2>3, <2>4, SeasonAssumption DEF SeasonInv, Scores
  <2> HIDE DEF score, computed
  <2> QED
    BY <2>1, <2>2, <2>3, <2>5 DEF IsMatch, Pairing, Played
<1>4. AreDays(size, day')
  <2> DEFINE results == [match \in resolved |-> computed(match)]
  <2>1. DOMAIN results = resolved /\ results = [match \in resolved |-> results[match]]
    OBVIOUS
  <2>2. {computed(match) : match \in resolved} = {results[match] : match \in resolved}
    OBVIOUS
  <2>3. IsFiniteSet(day[w])
    BY DEF SeasonInv, AreDays
  <2>4. IsFiniteSet(day[w] \ resolved) /\ IsFiniteSet(resolved)
    BY <2>3, FS_Subset
  <2> HIDE DEF computed, resolved, results
  <2>5. IsFiniteSet({results[match] : match \in resolved})
    BY <2>1, <2>4, ImageFinite
  <2>6. IsFiniteSet((day[w] \ resolved) \cup {computed(match) : match \in resolved})
    BY <2>2, <2>4, <2>5, FS_Union
  <2>7. \A match \in day'[w] : IsMatch(size, match)
    BY <1>1, <1>3 DEF SeasonInv, AreDays
  <2>8. day'[w] = (day[w] \ resolved) \cup {computed(match) : match \in resolved}
        /\ day' = [v \in Window |-> day'[v]] /\ \A v \in Window \ {w} : day'[v] = day[v]
    BY <1>1 DEF SeasonInv, AreDays
  <2> QED
    BY <2>6, <2>7, <2>8 DEF SeasonInv, AreDays
<1> HIDE DEF computed
<1>5. ASSUME NEW v \in Window, NEW match \in day[v], Played(match)
      PROVE  Kept(match, v)
  <2>1. CASE v = w /\ match \in resolved
    <3>1. computed(match) \in day'[v]
      BY <1>1, <2>1 DEF SeasonInv, AreDays
    <3> QED
      BY <1>2, <1>3, <2>1, <3>1 DEF Kept
  <2>2. CASE ~(v = w /\ match \in resolved)
    <3>1. match \in day'[v]
      BY <1>1, <2>2 DEF SeasonInv, AreDays
    <3> QED
      BY <1>5, <3>1 DEF Kept
  <2> QED
    BY <2>1, <2>2
<1> QED
  BY <1>1, <1>2, <1>4, <1>5 DEF SeasonInv

\* What a step does to matches that were played.
PlayedStay == \A w \in Window : \A match \in day[w] : Played(match) => Kept(match, w)

LEMMA KeptAsTheyAre ==
  ASSUME KeepsPlayed(day'), calculations' = calculations
  PROVE  PlayedStay
BY DEF KeepsPlayed, PlayedStay, Kept

LEMMA SeasonStep ==
  ASSUME SeasonInv, [SeasonNext]_seasonVars
  PROVE  SeasonInv' /\ ((generating /\ ~generating') \/ PlayedStay)
<1>1. ASSUME UNCHANGED <<size, day, calculations>>, fielded' \in [Window -> {"none", "some", "all"}]
      PROVE  SeasonInv' /\ PlayedStay
  <2>1. KeepsPlayed(day')
    BY <1>1 DEF KeepsPlayed
  <2>2. SeasonInv'
    BY <1>1 DEF SeasonInv, AreDays, Window
  <2> QED
    BY <1>1, <2>1, <2>2, KeptAsTheyAre
<1>2. ASSUME UNCHANGED <<size, calculations, fielded>>, AreDays(size, day'), KeepsPlayed(day')
      PROVE  SeasonInv' /\ PlayedStay
  BY <1>2, KeptAsTheyAre DEF SeasonInv
<1>3. CASE GenerateWrites
  <2>1. AreDays(size, day')
    BY <1>3, PlannedAreMatches, FS_EmptySet DEF GenerateWrites, AreDays, SeasonInv
  <2> QED
    BY <1>3, <2>1 DEF GenerateWrites, UnchangedResults, SeasonInv
<1>4. CASE RefreshExtends
  <2>1. AreDays(size, day') /\ KeepsPlayed(day')
    BY <1>4, RealignedKeeps, ExtendedKeeps DEF RefreshExtends, SeasonInv
  <2> QED
    BY <1>2, <1>4, <2>1 DEF RefreshExtends, UnchangedResults
<1>5. CASE RefreshGenerates
  <2>1. AreDays(size, day') /\ KeepsPlayed(day')
    BY <1>5, RealignedKeeps DEF RefreshGenerates
  <2> QED
    BY <1>2, <1>5, <2>1 DEF RefreshGenerates, UnchangedResults
<1>6. ASSUME NEW w \in Window, TurnAppears(w) \/ TurnPruned(w)
      PROVE  SeasonInv' /\ PlayedStay
  <2>1. day' = RealignedAfter(turn', w) /\ UNCHANGED <<size, calculations, fielded>>
    BY <1>6 DEF TurnAppears, TurnPruned, UnchangedResults
  <2>2. AreDays(size, day') /\ KeepsPlayed(day')
    BY <2>1, RealignedAfterKeeps
  <2> QED
    BY <1>2, <2>1, <2>2
<1>7. ASSUME NEW w \in Window, CalculateRound(w)
      PROVE  SeasonInv' /\ PlayedStay
  <2>1. PICK form \in Forms, lineups \in {"some", "all"} : Compute(w, lineups, form)
    BY <1>7 DEF CalculateRound
  <2>2. fielded' \in [Window -> {"none", "some", "all"}]
    BY <1>7 DEF CalculateRound, SeasonInv
  <2> QED
    BY <2>1, <2>2, ComputeKeeps DEF PlayedStay
<1>8. ASSUME NEW w \in Window, ComputeRoundResults(w)
      PROVE  SeasonInv' /\ PlayedStay
  <2>1. PICK form \in Forms : Compute(w, fielded[w], form)
    BY <1>8 DEF ComputeRoundResults
  <2>2. fielded' = fielded /\ fielded' \in [Window -> {"none", "some", "all"}] /\ fielded[w] \in {"none", "some", "all"}
    BY <1>8 DEF ComputeRoundResults, SeasonInv
  <2> QED
    BY <2>1, <2>2, ComputeKeeps DEF PlayedStay
<1>9. CASE GenerateChecks \/ UNCHANGED seasonVars
           \/ \E w \in Window : TurnEnds(w) \/ ComputeEffectiveLineups(w) \/ ApplyRoundCorrection(w)
  <2>1. UNCHANGED <<size, day, calculations>>
    BY <1>9 DEF GenerateChecks, TurnEnds, ComputeEffectiveLineups, ApplyRoundCorrection,
                UnchangedResults, seasonVars
  <2>2. fielded' \in [Window -> {"none", "some", "all"}]
    BY <1>9 DEF GenerateChecks, TurnEnds, ComputeEffectiveLineups, ApplyRoundCorrection,
                UnchangedResults, seasonVars, SeasonInv
  <2> QED
    BY <1>1, <2>1, <2>2
<1> QED
  BY <1>3, <1>4, <1>5, <1>6, <1>7, <1>8, <1>9 DEF SeasonNext

\* A match that has been played keeps its day and pairing, and its result until
\* it is calculated again: only a generation that checked before the results
\* came deletes it (realign_round_numbers, extend_to_european_turns,
\* compute_round_results).
THEOREM PlayedAlwaysKept == SeasonSpec => PlayedResultsKept
<1> DEFINE Body == (generating /\ ~generating') \/ \A w \in Window : \A match \in day[w] : Played(match) => Kept(match, w)
<1>1. SeasonInit => SeasonInv
  BY SeasonAssumption, FS_EmptySet DEF SeasonInit, SeasonInv, AreDays
<1>2. SeasonInv /\ [SeasonNext]_seasonVars => SeasonInv' /\ Body
  BY SeasonStep DEF PlayedStay
<1>3. SeasonInv /\ [SeasonNext]_seasonVars => [Body]_seasonVars
  BY <1>2
<1>4. SeasonSpec => [][Body]_seasonVars
  <2> HIDE DEF Body
  <2> QED
    BY <1>1, <1>2, <1>3, PTL DEF SeasonSpec
<1> QED
  BY <1>4, PTL DEF PlayedResultsKept

(***************************************************************************)
(* Folds over finite sets                                                  *)
(***************************************************************************)
\* The element a fold takes first.
First(A) == CHOOSE x \in A : TRUE

LEMMA FirstIs ==
  ASSUME NEW A, A # {}
  PROVE  First(A) \in A
BY DEF First

\* f follows a fold over the subsets of T that starts with s0.
FoldsTo(f, T, s0, step) ==
  f = [A \in SUBSET T |-> IF A = {} THEN s0 ELSE step[<<First(A), f[A \ {First(A)}]>>]]

LEMMA SetRecursion ==
  ASSUME NEW T, IsFiniteSet(T), NEW S, NEW s0 \in S, NEW step \in [T \X S -> S]
  PROVE  \E f \in [SUBSET T -> S] : FoldsTo(f, T, s0, step)
<1> DEFINE n == Cardinality(T)
           next(f, A) == IF A = {} THEN s0 ELSE step[<<First(A), f[A \ {First(A)}]>>]
           upTo(f, k) == \A A \in SUBSET T : Cardinality(A) <= k => f[A] = next(f, A)
           K == {k \in 0..n : \E f \in [SUBSET T -> S] : upTo(f, k)}
<1>1. n \in Nat
  BY FS_CardinalityType
<1>2. \A A \in SUBSET T : A # {} => First(A) \in T /\ A \ {First(A)} \in SUBSET T
  BY FirstIs
<1>3. \A f \in [SUBSET T -> S], A \in SUBSET T : next(f, A) \in S
  BY <1>2
<1>4. 0 \in K
  <2> DEFINE f == [A \in SUBSET T |-> s0]
  <2>1. \A A \in SUBSET T : Cardinality(A) <= 0 => A = {}
    <3> SUFFICES ASSUME NEW A \in SUBSET T, Cardinality(A) <= 0
                 PROVE  A = {}
      OBVIOUS
    <3>1. IsFiniteSet(A)
      BY FS_Subset
    <3>2. Cardinality(A) \in Nat
      BY <3>1, FS_CardinalityType
    <3> QED
      BY <3>1, <3>2, FS_EmptySet
  <2>2. f \in [SUBSET T -> S] /\ upTo(f, 0)
    BY <2>1
  <2> HIDE DEF f, upTo
  <2> QED
    BY <1>1, <2>2
<1>5. ASSUME NEW k \in 1..n, k - 1 \in K
      PROVE  k \in K
  <2>1. PICK f \in [SUBSET T -> S] : upTo(f, k - 1)
    BY <1>5
  <2> DEFINE g == [A \in SUBSET T |-> next(f, A)]
  <2>2. g \in [SUBSET T -> S]
    BY <1>3
  <2>3. ASSUME NEW A \in SUBSET T, Cardinality(A) <= k
        PROVE  g[A] = next(g, A)
    <3>1. CASE A = {}
      BY <3>1
    <3>2. CASE A # {}
      <4> DEFINE B == A \ {First(A)}
      <4>1. First(A) \in A /\ B \in SUBSET T
        BY <3>2, FirstIs
      <4>2. IsFiniteSet(A)
        BY FS_Subset
      <4>3. Cardinality(A) \in Nat /\ Cardinality(B) = Cardinality(A) - 1
        BY <4>1, <4>2, FS_RemoveElement, FS_CardinalityType
      <4>4. Cardinality(B) <= k - 1
        BY <2>3, <4>3, <1>1
      <4>5. f[B] = next(f, B)
        BY <2>1, <4>1, <4>4
      <4>6. g[B] = next(f, B)
        BY <4>1
      <4> QED
        BY <3>2, <4>5, <4>6
    <3> QED
      BY <3>1, <3>2
  <2>4. upTo(g, k)
    BY <2>3
  <2> HIDE DEF g, upTo
  <2> QED
    BY <2>2, <2>4
<1>6. n \in K
  <2> HIDE DEF K
  <2>1. K \in SUBSET (0..n)
    BY DEF K
  <2> QED
    BY <1>1, <1>4, <1>5, <2>1, UpTo
<1>7. PICK f \in [SUBSET T -> S] : upTo(f, n)
  BY <1>6
<1>8. \A A \in SUBSET T : Cardinality(A) <= n
  BY FS_Subset
<1> QED
  BY <1>7, <1>8 DEF FoldsTo

\* What a fold keeps, element by element.
LEMMA SubsetInduction ==
  ASSUME NEW T, IsFiniteSet(T), NEW G, {} \in G,
         \A A \in SUBSET T : A # {} /\ A \ {First(A)} \in G => A \in G
  PROVE  T \in G
<1> DEFINE n == Cardinality(T)
           K == {k \in 0..n : \A A \in SUBSET T : Cardinality(A) <= k => A \in G}
<1>1. \A A \in SUBSET T : IsFiniteSet(A) /\ Cardinality(A) \in 0..n
  <2> SUFFICES ASSUME NEW A \in SUBSET T
               PROVE  IsFiniteSet(A) /\ Cardinality(A) \in 0..n
    OBVIOUS
  <2>1. IsFiniteSet(A) /\ Cardinality(A) <= n
    BY FS_Subset
  <2> QED
    BY <2>1, FS_CardinalityType
<1>2. n \in Nat
  BY FS_CardinalityType
<1>3. 0 \in K
  <2>1. \A A \in SUBSET T : Cardinality(A) <= 0 => A = {}
    BY <1>1, <1>2, FS_EmptySet
  <2> QED
    BY <1>2, <2>1
<1>4. ASSUME NEW k \in 1..n, k - 1 \in K
      PROVE  k \in K
  <2> SUFFICES ASSUME NEW A \in SUBSET T, Cardinality(A) <= k, A # {}
               PROVE  A \in G
    <3>1. k \in 0..n
      BY <1>2
    <3> QED
      BY <3>1
  <2> DEFINE B == A \ {First(A)}
  <2>1. First(A) \in A /\ B \in SUBSET T
    BY FirstIs
  <2>2. Cardinality(B) = Cardinality(A) - 1
    BY <1>1, <2>1, FS_RemoveElement
  <2>3. Cardinality(B) <= k - 1
    BY <1>1, <2>2
  <2>4. B \in G
    BY <1>4, <2>1, <2>3
  <2> QED
    BY <2>4
<1>5. n \in K
  <2> HIDE DEF K
  <2>1. K \in SUBSET (0..n)
    BY DEF K
  <2> QED
    BY <1>2, <1>3, <1>4, <2>1, UpTo
<1> QED
  BY <1>1, <1>2, <1>5

(***************************************************************************)
(* The records                                                             *)
(***************************************************************************)
LEMMA ReachedAreGoals ==
  ASSUME NEW p \in Nat
  PROVE  Reached(p) = Goals(p) /\ Goals(p) \in Nat
<1> DEFINE K == {k \in 0..(p \div 60) : 660 + 60 * k <= p}
<1>1. CASE p < 660
  <2>1. K = {}
    BY <1>1
  <2> QED
    BY <1>1, <2>1, FS_EmptySet DEF Reached, Goals
<1>2. CASE p >= 660
  <2> DEFINE q == (p - 660) \div 60
  <2>1. q \in Nat /\ 60 * q <= p - 660 /\ p - 660 < 60 * q + 60 /\ q <= p \div 60 /\ p \div 60 \in Nat
    BY <1>2
  <2>2. K = 0..q
    BY <2>1
  <2>3. Cardinality(0..q) = q + 1
    BY <2>1, FS_Interval
  <2>4. Reached(p) = q + 1
    BY <2>2, <2>3 DEF Reached
  <2>5. Goals(p) = 1 + q
    BY <1>2 DEF Goals
  <2> HIDE DEF q
  <2> QED
    BY <2>1, <2>4, <2>5
<1> QED
  BY <1>1, <1>2

\* As many pairs as the numbers of the elements of F add up to.
Spread(f, F) == UNION {{x} \X (1..f[x]) : x \in F}

LEMMA SpreadFinite ==
  ASSUME NEW F, IsFiniteSet(F), NEW f, \A x \in F : f[x] \in Nat
  PROVE  IsFiniteSet(Spread(f, F)) /\ Cardinality(Spread(f, F)) \in Nat
<1> DEFINE parts == [x \in F |-> {x} \X (1..f[x])]
<1>1. IsFiniteSet({parts[x] : x \in F})
  <2>1. DOMAIN parts = F /\ parts = [x \in F |-> parts[x]]
    OBVIOUS
  <2> HIDE DEF parts
  <2> QED
    BY <2>1, ImageFinite
<1>2. ASSUME NEW x \in F
      PROVE  IsFiniteSet(parts[x])
  <2>1. IsFiniteSet(1..f[x])
    <3>1. f[x] \in Nat
      OBVIOUS
    <3> QED
      BY <3>1, FS_Interval
  <2>2. IsFiniteSet({x})
    BY FS_Singleton
  <2>3. IsFiniteSet({x} \X (1..f[x]))
    BY <2>1, <2>2, FS_Product
  <2> QED
    BY <2>3
<1>3. Spread(f, F) = UNION {parts[x] : x \in F}
  BY DEF Spread
<1>4. IsFiniteSet(Spread(f, F))
  <2> HIDE DEF parts
  <2> QED
    BY <1>1, <1>2, <1>3, FS_UNION
<1> QED
  BY <1>4, FS_CardinalityType

LEMMA SpreadGrows ==
  ASSUME NEW F, IsFiniteSet(F), NEW o, o \notin F, NEW f, \A x \in F \cup {o} : f[x] \in Nat
  PROVE  Cardinality(Spread(f, F \cup {o})) = Cardinality(Spread(f, F)) + f[o]
<1> DEFINE more == {o} \X (1..f[o])
<1>1. Spread(f, F \cup {o}) = Spread(f, F) \cup more
  BY DEF Spread
<1>2. Spread(f, F) \cap more = {}
  BY DEF Spread
<1>3. IsFiniteSet(Spread(f, F)) /\ Cardinality(Spread(f, F)) \in Nat
  BY SpreadFinite
<1>4. f[o] \in Nat
  OBVIOUS
<1>5. IsFiniteSet(more) /\ Cardinality(more) = f[o]
  <2>1. IsFiniteSet(1..f[o]) /\ Cardinality(1..f[o]) = f[o]
    BY <1>4, FS_Interval
  <2>2. IsFiniteSet({o}) /\ Cardinality({o}) = 1
    BY FS_Singleton
  <2>3. IsFiniteSet(more) /\ Cardinality(more) = Cardinality({o}) * Cardinality(1..f[o])
    BY <2>1, <2>2, FS_Product
  <2> QED
    BY <1>4, <2>1, <2>2, <2>3
<1> HIDE DEF more
<1>6. Cardinality(Spread(f, F) \cup more) = Cardinality(Spread(f, F)) + Cardinality(more) - Cardinality(Spread(f, F) \cap more)
  BY <1>3, <1>5, FS_Union
<1>7. Cardinality(Spread(f, F) \cap more) = 0
  BY <1>2, FS_EmptySet
<1>8. Cardinality(Spread(f, F \cup {o})) = Cardinality(Spread(f, F)) + Cardinality(more) - 0
  BY <1>1, <1>6, <1>7, Zenon
<1> QED
  BY <1>3, <1>4, <1>5, <1>8

LEMMA RowGrows ==
  ASSUME NEW F, IsFiniteSet(F), NEW o, o \notin F, NEW m, \A x \in F \cup {o} : x.own \in Nat /\ x.other \in Nat
  PROVE  RowOf(m, F \cup {o}) = AddMatch(RowOf(m, F), o.own, o.other)
<1> DEFINE won(H) == {x \in H : x.own > x.other}
           drawn(H) == {x \in H : x.own = x.other}
           lost(H) == {x \in H : x.own < x.other}
           G == F \cup {o}
           own == [x \in G |-> x.own]
           other == [x \in G |-> x.other]
<1>1. \A H \in SUBSET F : IsFiniteSet(H) /\ Cardinality(H) \in Nat /\ Cardinality(H \cup {o}) = Cardinality(H) + 1
  <2> SUFFICES ASSUME NEW H \in SUBSET F
               PROVE  IsFiniteSet(H) /\ Cardinality(H) \in Nat /\ Cardinality(H \cup {o}) = Cardinality(H) + 1
    OBVIOUS
  <2>1. IsFiniteSet(H) /\ o \notin H
    BY FS_Subset
  <2> QED
    BY <2>1, FS_CardinalityType, FS_AddElement
<1>2. /\ Cardinality(won(G)) = Cardinality(won(F)) + (IF o.own > o.other THEN 1 ELSE 0)
      /\ Cardinality(drawn(G)) = Cardinality(drawn(F)) + (IF o.own = o.other THEN 1 ELSE 0)
      /\ Cardinality(lost(G)) = Cardinality(lost(F)) + (IF o.own < o.other THEN 1 ELSE 0)
  <2>1. /\ won(G) = IF o.own > o.other THEN won(F) \cup {o} ELSE won(F)
        /\ drawn(G) = IF o.own = o.other THEN drawn(F) \cup {o} ELSE drawn(F)
        /\ lost(G) = IF o.own < o.other THEN lost(F) \cup {o} ELSE lost(F)
    OBVIOUS
  <2>2. won(F) \in SUBSET F /\ drawn(F) \in SUBSET F /\ lost(F) \in SUBSET F
    OBVIOUS
  <2>3. /\ Cardinality(won(F)) \in Nat /\ Cardinality(won(F) \cup {o}) = Cardinality(won(F)) + 1
        /\ Cardinality(drawn(F)) \in Nat /\ Cardinality(drawn(F) \cup {o}) = Cardinality(drawn(F)) + 1
        /\ Cardinality(lost(F)) \in Nat /\ Cardinality(lost(F) \cup {o}) = Cardinality(lost(F)) + 1
    BY <1>1, <2>2
  <2>4. o.own \in Nat /\ o.other \in Nat
    OBVIOUS
  <2> HIDE DEF won, drawn, lost, G
  <2>5. CASE o.own > o.other
    BY <2>1, <2>3, <2>4, <2>5
  <2>6. CASE o.own = o.other
    BY <2>1, <2>3, <2>4, <2>6
  <2>7. CASE o.own < o.other
    BY <2>1, <2>3, <2>4, <2>7
  <2> QED
    BY <2>4, <2>5, <2>6, <2>7
<1>3. /\ Cardinality(Spread(own, G)) = Cardinality(Spread(own, F)) + o.own
      /\ Cardinality(Spread(other, G)) = Cardinality(Spread(other, F)) + o.other
  <2>1. \A x \in G : own[x] = x.own /\ other[x] = x.other
    OBVIOUS
  <2>2. o \in G /\ \A x \in G : own[x] \in Nat /\ other[x] \in Nat
    OBVIOUS
  <2> HIDE DEF own, other
  <2>3. Cardinality(Spread(own, G)) = Cardinality(Spread(own, F)) + own[o]
    BY <2>2, SpreadGrows
  <2>4. Cardinality(Spread(other, G)) = Cardinality(Spread(other, F)) + other[o]
    BY <2>2, SpreadGrows
  <2> QED
    BY <2>1, <2>2, <2>3, <2>4
<1>4. ASSUME NEW H \in SUBSET G
      PROVE  RowOf(m, H) =
        [team |-> m, won |-> Cardinality(won(H)), drawn |-> Cardinality(drawn(H)), lost |-> Cardinality(lost(H)),
         for |-> Cardinality(Spread(own, H)), against |-> Cardinality(Spread(other, H))]
  <2>1. \A x \in H : own[x] = x.own /\ other[x] = x.other
    OBVIOUS
  <2> HIDE DEF own, other
  <2> QED
    BY <2>1 DEF RowOf, Spread
<1>5. F \in SUBSET G /\ G \in SUBSET G
  OBVIOUS
<1> HIDE DEF won, drawn, lost, own, other, G
<1>6. RowOf(m, G) = AddMatch(RowOf(m, F), o.own, o.other)
  BY <1>2, <1>3, <1>4, <1>5 DEF AddMatch
<1> QED
  BY <1>6 DEF G
(***************************************************************************)
(* The fold over the matches that count                                    *)
(***************************************************************************)
\* A match for each of its teams.
HomeSide(e) ==
  [match |-> e, team |-> e[2].home, own |-> Reached(e[2].result.home), other |-> Reached(e[2].result.away)]
AwaySide(e) ==
  [match |-> e, team |-> e[2].away, own |-> Reached(e[2].result.away), other |-> Reached(e[2].result.home)]

\* Two teams meet, and each has points.
Meets(e) ==
  /\ e[2].home \in Participants /\ e[2].away \in Participants /\ e[2].home # e[2].away
  /\ e[2].result.home \in Nat /\ e[2].result.away \in Nat

SidesOf(entries, m) == {o \in Outcomes(entries) : o.team = m}
RowsOf(entries) == [m \in Participants |-> RowOf(m, SidesOf(entries, m))]

LEMMA OutcomesAre ==
  ASSUME NEW A
  PROVE  Outcomes(A) = {HomeSide(e) : e \in A} \cup {AwaySide(e) : e \in A}
BY DEF Outcomes, HomeSide, AwaySide

LEMMA OutcomesFinite ==
  ASSUME NEW A, IsFiniteSet(A)
  PROVE  IsFiniteSet(Outcomes(A))
<1> DEFINE home == [e \in A |-> HomeSide(e)]
           away == [e \in A |-> AwaySide(e)]
<1>1. /\ DOMAIN home = A /\ home = [e \in A |-> home[e]] /\ DOMAIN away = A /\ away = [e \in A |-> away[e]]
      /\ \A e \in A : home[e] = HomeSide(e) /\ away[e] = AwaySide(e)
  OBVIOUS
<1> HIDE DEF home, away
<1>2. IsFiniteSet({home[e] : e \in A}) /\ IsFiniteSet({away[e] : e \in A})
  BY <1>1, ImageFinite
<1>3. {home[e] : e \in A} = {HomeSide(e) : e \in A} /\ {away[e] : e \in A} = {AwaySide(e) : e \in A}
  BY <1>1
<1> QED
  BY <1>2, <1>3, OutcomesAre, FS_Union

LEMMA TallyIs ==
  ASSUME NEW A, IsFiniteSet(A), NEW e, e \notin A, \A x \in A \cup {e} : Meets(x)
  PROVE  Tally(e, RowsOf(A)) = RowsOf(A \cup {e})
<1> DEFINE B == A \cup {e}
           home == e[2].home
           away == e[2].away
           h == HomeSide(e)
           a == AwaySide(e)
<1>1. ASSUME NEW x \in B
      PROVE  /\ HomeSide(x).match = x /\ HomeSide(x).team = x[2].home
             /\ HomeSide(x).own = Goals(x[2].result.home) /\ HomeSide(x).other = Goals(x[2].result.away)
             /\ AwaySide(x).match = x /\ AwaySide(x).team = x[2].away
             /\ AwaySide(x).own = Goals(x[2].result.away) /\ AwaySide(x).other = Goals(x[2].result.home)
             /\ Goals(x[2].result.home) \in Nat /\ Goals(x[2].result.away) \in Nat
  <2>1. x[2].result.home \in Nat /\ x[2].result.away \in Nat
    BY DEF Meets
  <2> QED
    BY <2>1, ReachedAreGoals DEF HomeSide, AwaySide
<1>2. Outcomes(B) = Outcomes(A) \cup {h, a}
  <2> HIDE DEF h, a
  <2>1. \A o : o \in Outcomes(B) <=> \E x \in B : o = HomeSide(x) \/ o = AwaySide(x)
    BY OutcomesAre
  <2>2. \A o : o \in Outcomes(A) <=> \E x \in A : o = HomeSide(x) \/ o = AwaySide(x)
    BY OutcomesAre
  <2> QED
    BY <2>1, <2>2 DEF h, a
<1>3. \A o \in Outcomes(B) : o.own \in Nat /\ o.other \in Nat
  BY <1>1, OutcomesAre
<1>4. h \notin Outcomes(A) /\ a \notin Outcomes(A)
  <2>1. \A o \in Outcomes(A) : o.match \in A
    BY <1>1, OutcomesAre
  <2> QED
    BY <1>1, <2>1
<1>5. home \in Participants /\ away \in Participants /\ home # away
  BY DEF Meets
<1>6. h.team = home /\ a.team = away
  BY <1>1
<1> HIDE DEF h, a, home, away
<1>7. /\ SidesOf(B, home) = SidesOf(A, home) \cup {h} /\ h \notin SidesOf(A, home)
      /\ SidesOf(B, away) = SidesOf(A, away) \cup {a} /\ a \notin SidesOf(A, away)
      /\ \A m : m # home /\ m # away => SidesOf(B, m) = SidesOf(A, m)
  BY <1>2, <1>4, <1>5, <1>6 DEF SidesOf
<1>8. \A m : IsFiniteSet(SidesOf(A, m)) /\ SidesOf(B, m) \subseteq Outcomes(B)
  <2>1. \A m : SidesOf(A, m) \in SUBSET Outcomes(A)
    BY DEF SidesOf
  <2>2. IsFiniteSet(Outcomes(A))
    BY OutcomesFinite
  <2>3. \A m : IsFiniteSet(SidesOf(A, m))
    BY <2>1, <2>2, FS_Subset
  <2> QED
    BY <2>3 DEF SidesOf
<1>9. /\ RowOf(home, SidesOf(B, home)) = AddMatch(RowOf(home, SidesOf(A, home)), h.own, h.other)
      /\ RowOf(away, SidesOf(B, away)) = AddMatch(RowOf(away, SidesOf(A, away)), a.own, a.other)
  <2>1. \A x \in SidesOf(A, home) \cup {h} : x.own \in Nat /\ x.other \in Nat
    BY <1>3, <1>7, <1>8
  <2>2. \A x \in SidesOf(A, away) \cup {a} : x.own \in Nat /\ x.other \in Nat
    BY <1>3, <1>7, <1>8
  <2>3. RowOf(home, SidesOf(A, home) \cup {h}) = AddMatch(RowOf(home, SidesOf(A, home)), h.own, h.other)
    BY <1>7, <1>8, <2>1, RowGrows
  <2>4. RowOf(away, SidesOf(A, away) \cup {a}) = AddMatch(RowOf(away, SidesOf(A, away)), a.own, a.other)
    BY <1>7, <1>8, <2>2, RowGrows
  <2> QED
    BY <1>7, <2>3, <2>4
<1> DEFINE gh == Goals(e[2].result.home)
           ga == Goals(e[2].result.away)
<1>10. h.own = gh /\ h.other = ga /\ a.own = ga /\ a.other = gh
  BY <1>1 DEF h, a
<1>11. Tally(e, RowsOf(A)) =
         [RowsOf(A) EXCEPT ![home] = AddMatch(@, gh, ga), ![away] = AddMatch(@, ga, gh)]
  BY DEF Tally, home, away
<1> HIDE DEF gh, ga, B
<1>12. /\ RowsOf(A) = [m \in Participants |-> RowsOf(A)[m]]
       /\ \A m \in Participants : RowsOf(A)[m] = RowOf(m, SidesOf(A, m))
       /\ RowsOf(B) = [m \in Participants |-> RowsOf(B)[m]]
       /\ \A m \in Participants : RowsOf(B)[m] = RowOf(m, SidesOf(B, m))
  BY DEF RowsOf
<1>13. \A m \in Participants :
         RowsOf(B)[m] = CASE m = home -> AddMatch(RowsOf(A)[m], gh, ga)
                          [] m = away -> AddMatch(RowsOf(A)[m], ga, gh)
                          [] m # home /\ m # away -> RowsOf(A)[m]
  BY <1>5, <1>7, <1>9, <1>10, <1>12
<1>14. Tally(e, RowsOf(A)) = RowsOf(B)
  BY <1>5, <1>11, <1>12, <1>13
<1> QED
  BY <1>14 DEF B
Records == [team : Nat, won : Nat, drawn : Nat, lost : Nat, for : Nat, against : Nat]

LEMMA TallyKeeps ==
  ASSUME Participants \subseteq Nat, NEW e, Meets(e), NEW records \in [Participants -> Records]
  PROVE  Tally(e, records) \in [Participants -> Records]
<1> DEFINE gh == Goals(e[2].result.home)
           ga == Goals(e[2].result.away)
           home == e[2].home
           away == e[2].away
<1>1. gh \in Nat /\ ga \in Nat /\ home \in Participants /\ away \in Participants
  BY ReachedAreGoals DEF Meets
<1>2. Tally(e, records) = [records EXCEPT ![home] = AddMatch(@, gh, ga), ![away] = AddMatch(@, ga, gh)]
  BY DEF Tally
<1> HIDE DEF gh, ga, home, away
<1>3. ASSUME NEW r \in Records, NEW a \in Nat, NEW b \in Nat
      PROVE  AddMatch(r, a, b) \in Records
  BY DEF AddMatch, Records
<1> QED
  BY <1>1, <1>2, <1>3

LEMMA NoRecordIs ==
  ASSUME NEW m
  PROVE  RowOf(m, {}) = NoRecord(m)
<1>1. UNION {{o} \X (1..o.own) : o \in {}} = {} /\ UNION {{o} \X (1..o.other) : o \in {}} = {}
  OBVIOUS
<1>2. {o \in {} : o.own > o.other} = {} /\ {o \in {} : o.own = o.other} = {} /\ {o \in {} : o.own < o.other} = {}
  OBVIOUS
<1> QED
  BY <1>1, <1>2, FS_EmptySet DEF RowOf, NoRecord

\* The records are those of the matches that count.
LEMMA RecordsAre ==
  ASSUME NEW days, IsFiniteSet(Counted(days)), \A e \in Counted(days) : Meets(e), Participants \subseteq Nat
  PROVE  BuildStandings(days) = RowsOf(Counted(days))
<1> DEFINE T == Counted(days)
           S == [Participants -> Records]
           none == [m \in Participants |-> NoRecord(m)]
           step == [p \in T \X S |-> Tally(p[1], p[2])]
           body(g) == [A \in SUBSET T |-> IF A = {} THEN none ELSE Tally(First(A), g[A \ {First(A)}])]
<1>1. none \in S
  BY DEF NoRecord, Records
<1>2. \A e \in T, r \in S : Tally(e, r) \in S
  BY TallyKeeps
<1> HIDE DEF S, none, T
<1>3. step \in [T \X S -> S] /\ \A e \in T, r \in S : step[<<e, r>>] = Tally(e, r)
  BY <1>2
<1> HIDE DEF step
<1>4. PICK f \in [SUBSET T -> S] : FoldsTo(f, T, none, step)
  <2>1. IsFiniteSet(T)
    BY DEF T
  <2> QED
    BY <1>1, <1>3, <2>1, SetRecursion
<1>5. f = body(f)
  <2>1. \A A \in SUBSET T : A # {} => First(A) \in T /\ A \ {First(A)} \in SUBSET T
    BY FirstIs
  <2>2. \A A \in SUBSET T : f[A] = IF A = {} THEN none ELSE step[<<First(A), f[A \ {First(A)}]>>]
    BY <1>4 DEF FoldsTo
  <2>3. ASSUME NEW A \in SUBSET T, A # {}
        PROVE  f[A] = Tally(First(A), f[A \ {First(A)}])
    BY <1>3, <2>1, <2>2, <2>3
  <2>4. \A A \in SUBSET T : f[A] = body(f)[A]
    BY <2>2, <2>3
  <2> QED
    BY <2>4
<1> DEFINE line == CHOOSE g : g = body(g)
<1>6. line = body(line)
  BY <1>5, Zenon
<1>7. BuildStandings(days) = line[T]
  BY Zenon DEF BuildStandings, FoldSet, MapThenFoldSet, First, T, none
<1> HIDE DEF line
<1>8. \A A \in SUBSET T : line[A] = IF A = {} THEN none ELSE Tally(First(A), line[A \ {First(A)}])
  BY <1>6
<1> DEFINE G == {A \in SUBSET T : line[A] = RowsOf(A)}
<1>9. {} \in G
  <2>1. \A m : SidesOf({}, m) = {}
    BY DEF SidesOf, Outcomes
  <2>2. RowsOf({}) = none
    BY <2>1, NoRecordIs DEF RowsOf, none
  <2> QED
    BY <1>8, <2>2
<1>10. ASSUME NEW A \in SUBSET T, A # {}, A \ {First(A)} \in G
       PROVE  A \in G
  <2> DEFINE e == First(A)
             B == A \ {e}
  <2>1. e \in A /\ e \notin B /\ B \cup {e} = A /\ B \in SUBSET T
    BY <1>10, FirstIs
  <2>2. IsFiniteSet(B)
    BY <2>1, FS_Subset DEF T
  <2>3. \A x \in B \cup {e} : Meets(x)
    BY <2>1 DEF T
  <2>4. line[B] = RowsOf(B)
    BY <1>10
  <2>5. line[A] = Tally(e, line[B])
    BY <1>8, <1>10
  <2> HIDE DEF e, B
  <2>6. Tally(e, RowsOf(B)) = RowsOf(B \cup {e})
    BY <2>1, <2>2, <2>3, TallyIs
  <2> QED
    BY <2>1, <2>4, <2>5, <2>6
<1>11. T \in G
  <2> HIDE DEF G
  <2>1. IsFiniteSet(T)
    BY DEF T
  <2> QED
    BY <1>9, <1>10, <2>1, SubsetInduction
<1> QED
  BY <1>7, <1>11 DEF T
(***************************************************************************)
(* The order of the rows                                                   *)
(***************************************************************************)
LEMMA AheadIsOrder ==
  ASSUME NEW a \in Records, NEW b \in Records, NEW c \in Records
  PROVE  /\ ~Ahead(a, a)
         /\ Ahead(a, b) /\ Ahead(b, c) => Ahead(a, c)
         /\ a.team # b.team => Ahead(a, b) \/ Ahead(b, a)
<1>1. ASSUME NEW r \in Records
      PROVE  Points(r) \in Int /\ Difference(r) \in Int /\ r.for \in Int /\ r.team \in Int
  BY DEF Points, Difference, Records
<1> QED
  BY <1>1 DEF Ahead

\* How many of the rows are ahead of a row.
Rank(rows, row) == Cardinality({other \in rows : Ahead(other, row)})

LEMMA RanksFollow ==
  ASSUME NEW rows \in SUBSET Records, IsFiniteSet(rows), NEW a \in rows, NEW b \in rows
  PROVE  /\ Rank(rows, b) \in 0..(Cardinality(rows) - 1)
         /\ Ahead(a, b) => Rank(rows, a) < Rank(rows, b)
<1> DEFINE before(r) == {other \in rows : Ahead(other, r)}
<1>1. before(b) \in SUBSET (rows \ {b}) /\ before(a) \in SUBSET rows
  BY AheadIsOrder
<1>2. IsFiniteSet(rows \ {b}) /\ Cardinality(rows \ {b}) = Cardinality(rows) - 1 /\ Cardinality(rows) \in Nat
  BY FS_RemoveElement, FS_CardinalityType
<1>3. IsFiniteSet(before(b)) /\ Cardinality(before(b)) <= Cardinality(rows) - 1
  BY <1>1, <1>2, FS_Subset
<1>4. IsFiniteSet(before(a)) /\ Cardinality(before(a)) \in Nat /\ Cardinality(before(b)) \in Nat
  BY <1>1, <1>3, FS_Subset, FS_CardinalityType
<1>5. ASSUME Ahead(a, b)
      PROVE  Cardinality(before(a)) < Cardinality(before(b))
  <2>1. before(a) \in SUBSET before(b)
    BY <1>5, AheadIsOrder
  <2>2. a \in before(b) /\ a \notin before(a)
    BY <1>5, AheadIsOrder
  <2> HIDE DEF before
  <2>3. Cardinality(before(a)) <= Cardinality(before(b)) /\ Cardinality(before(a)) # Cardinality(before(b))
    BY <1>3, <2>1, <2>2, FS_Subset
  <2> QED
    BY <1>4, <2>3
<1>6. Rank(rows, a) = Cardinality(before(a)) /\ Rank(rows, b) = Cardinality(before(b))
  BY DEF Rank
<1> HIDE DEF before
<1> QED
  BY <1>2, <1>3, <1>4, <1>5, <1>6

AreRecords(n, records) == records \in [1..n -> Records] /\ \A m \in 1..n : records[m].team = m
RowsIn(n, records) == {records[m] : m \in 1..n}
Sorted(n, records) ==
  [i \in 1..n |-> CHOOSE row \in RowsIn(n, records) : Rank(RowsIn(n, records), row) = i - 1]

\* A sorted table has all records, each behind those that are ahead of it.
LEMMA TableIsSorted ==
  ASSUME NEW n \in Nat, NEW r, AreRecords(n, r)
  PROVE  /\ {Sorted(n, r)[i] : i \in 1..n} = RowsIn(n, r) /\ \A i \in 1..n : Sorted(n, r)[i] \in Records
         /\ \A i, j \in 1..n : i < j => Ahead(Sorted(n, r)[i], Sorted(n, r)[j])
<1> DEFINE rows == RowsIn(n, r)
           sorted == Sorted(n, r)
<1>1. r \in [1..n -> Records] /\ (\A m \in 1..n : r[m].team = m) /\ rows = {r[m] : m \in 1..n}
  BY DEF AreRecords, RowsIn
<1>2. \A i \in 1..n : sorted[i] = CHOOSE row \in rows : Rank(rows, row) = i - 1
  BY DEF Sorted
<1> HIDE DEF rows, sorted
<1>3. rows \in SUBSET Records /\ \A a, b \in rows : a.team = b.team => a = b
  BY <1>1
<1>4. IsFiniteSet(rows) /\ Cardinality(rows) = n
  <2>1. IsFiniteSet(1..n) /\ Cardinality(1..n) = n
    BY FS_Interval
  <2>2. r \in Bijection(1..n, rows)
    BY <1>1 DEF Bijection, Injection, IsInjective, Surjection
  <2>3. ExistsBijection(1..n, rows)
    BY <2>2 DEF ExistsBijection
  <2> QED
    BY <2>1, <2>3, FS_Bijection
<1>5. \A a, b \in rows : Rank(rows, a) = Rank(rows, b) => a = b
  <2> SUFFICES ASSUME NEW a \in rows, NEW b \in rows, a # b
               PROVE  Rank(rows, a) # Rank(rows, b)
    OBVIOUS
  <2>1. Ahead(a, b) \/ Ahead(b, a)
    BY <1>3, AheadIsOrder
  <2>2. /\ Ahead(a, b) => Rank(rows, a) < Rank(rows, b)
        /\ Ahead(b, a) => Rank(rows, b) < Rank(rows, a)
        /\ Rank(rows, a) \in Int /\ Rank(rows, b) \in Int
    <3>1. Rank(rows, b) \in 0..(n - 1) /\ (Ahead(a, b) => Rank(rows, a) < Rank(rows, b))
      BY <1>3, <1>4, RanksFollow
    <3>2. Rank(rows, a) \in 0..(n - 1) /\ (Ahead(b, a) => Rank(rows, b) < Rank(rows, a))
      BY <1>3, <1>4, RanksFollow
    <3> QED
      BY <3>1, <3>2
  <2> QED
    BY <2>1, <2>2
<1>6. \A i \in 1..n : \E row \in rows : Rank(rows, row) = i - 1
  <2> DEFINE place == [m \in 1..n |-> Rank(rows, r[m]) + 1]
  <2>1. ASSUME NEW m \in 1..n
        PROVE  r[m] \in rows /\ Rank(rows, r[m]) \in 0..(n - 1)
    <3>1. r[m] \in rows
      BY <1>1
    <3> QED
      BY <1>3, <1>4, <3>1, RanksFollow
  <2>2. place \in [1..n -> 1..n]
    BY <2>1
  <2>3. ASSUME NEW m \in 1..n, NEW o \in 1..n, place[m] = place[o]
        PROVE  m = o
    <3>1. Rank(rows, r[m]) = Rank(rows, r[o])
      BY <2>1, <2>3
    <3>2. r[m] = r[o]
      BY <1>5, <2>1, <3>1
    <3> QED
      BY <1>1, <3>2
  <2>4. \A m \in 1..n : place[m] = Rank(rows, r[m]) + 1
    OBVIOUS
  <2> HIDE DEF place
  <2>5. place \in Injection(1..n, 1..n)
    BY <2>2, <2>3 DEF Injection, IsInjective
  <2>6. IsFiniteSet(1..n)
    BY FS_Interval
  <2>7. place \in Surjection(1..n, 1..n)
    BY <2>5, <2>6, FS_Injection
  <2>8. \A i \in 1..n : \E m \in 1..n : place[m] = i
    BY <2>7 DEF Surjection
  <2> QED
    <3> SUFFICES ASSUME NEW i \in 1..n
                 PROVE  \E row \in rows : Rank(rows, row) = i - 1
      OBVIOUS
    <3>1. PICK m \in 1..n : place[m] = i
      BY <2>8
    <3>2. r[m] \in rows /\ Rank(rows, r[m]) \in 0..(n - 1) /\ i = Rank(rows, r[m]) + 1
      BY <2>1, <2>4, <3>1
    <3>3. Rank(rows, r[m]) = i - 1
      BY <3>2
    <3> QED
      BY <3>2, <3>3
<1>7. \A i \in 1..n : sorted[i] \in rows /\ Rank(rows, sorted[i]) = i - 1
  BY <1>6, <1>2
<1>8. ASSUME NEW row \in rows
      PROVE  \E i \in 1..n : sorted[i] = row
  <2>1. Rank(rows, row) \in 0..(n - 1)
    BY <1>3, <1>4, RanksFollow
  <2>2. Rank(rows, row) + 1 \in 1..n /\ (Rank(rows, row) + 1) - 1 = Rank(rows, row)
    BY <2>1
  <2> DEFINE i == Rank(rows, row) + 1
  <2>3. sorted[i] \in rows /\ Rank(rows, sorted[i]) = i - 1 /\ i \in 1..n
    BY <1>7, <2>2
  <2>4. sorted[i] = row
    BY <1>5, <2>2, <2>3
  <2> QED
    BY <2>3, <2>4
<1>9. ASSUME NEW i \in 1..n, NEW j \in 1..n, i < j
      PROVE  Ahead(sorted[i], sorted[j])
  <2> DEFINE a == sorted[i]
             b == sorted[j]
  <2>1. a \in rows /\ b \in rows /\ Rank(rows, a) = i - 1 /\ Rank(rows, b) = j - 1
    BY <1>7
  <2> HIDE DEF a, b
  <2>2. a # b
    BY <1>9, <2>1
  <2>3. Ahead(a, b) \/ Ahead(b, a)
    BY <1>3, <2>1, <2>2, AheadIsOrder
  <2>4. Ahead(b, a) => Rank(rows, b) < Rank(rows, a)
    BY <1>3, <1>4, <2>1, RanksFollow
  <2>5. Ahead(a, b)
    BY <1>9, <2>1, <2>3, <2>4
  <2> QED
    BY <2>5 DEF a, b
<1>10. {sorted[i] : i \in 1..n} = rows
  <2>1. ASSUME NEW x \in {sorted[i] : i \in 1..n}
        PROVE  x \in rows
    <3>1. PICK i \in 1..n : x = sorted[i]
      BY <2>1, Zenon
    <3> QED
      BY <1>7, <3>1
  <2>2. ASSUME NEW x \in rows
        PROVE  x \in {sorted[i] : i \in 1..n}
    <3>1. PICK i \in 1..n : sorted[i] = x
      BY <1>8
    <3> QED
      BY <3>1, Zenon
  <2> QED
    BY <2>1, <2>2
<1> QED
  BY <1>3, <1>7, <1>9, <1>10 DEF rows, sorted

LEMMA CountedMeet ==
  ASSUME size \in Sizes, NEW days, AreDays(size, days)
  PROVE  IsFiniteSet(Counted(days)) /\ \A e \in Counted(days) : Meets(e)
<1> DEFINE parts == [w \in Window |-> {w} \X days[w]]
<1>1. IsFiniteSet({parts[w] : w \in Window})
  <2>1. DOMAIN parts = Window /\ parts = [w \in Window |-> parts[w]]
    OBVIOUS
  <2>2. IsFiniteSet(Window)
    BY SeasonAssumption, FS_Interval DEF Window
  <2> HIDE DEF parts
  <2> QED
    BY <2>1, <2>2, ImageFinite
<1>2. ASSUME NEW w \in Window
      PROVE  IsFiniteSet(parts[w])
  <2>1. IsFiniteSet({w}) /\ IsFiniteSet(days[w])
    BY FS_Singleton DEF AreDays
  <2>2. IsFiniteSet({w} \X days[w])
    BY <2>1, FS_Product
  <2> QED
    BY <2>2
<1>3. IsFiniteSet(UNION {parts[w] : w \in Window})
  <2> HIDE DEF parts
  <2> QED
    BY <1>1, <1>2, FS_UNION
<1>4. UNION {parts[w] : w \in Window} = UNION {{w} \X days[w] : w \in Window}
  OBVIOUS
<1>5. Counted(days) \in SUBSET UNION {parts[w] : w \in Window}
  BY <1>4 DEF Counted
<1>6. IsFiniteSet(Counted(days))
  BY <1>3, <1>5, FS_Subset
<1>7. ASSUME NEW e \in Counted(days)
      PROVE  Meets(e)
  <2>1. PICK w \in Window : e \in {w} \X days[w]
    BY DEF Counted
  <2>2. e[2] \in days[w] /\ ~IsBye(e[2]) /\ Played(e[2])
    BY <2>1 DEF Counted
  <2>3. IsMatch(size, e[2])
    BY <2>2 DEF AreDays
  <2>4. size \in Nat
    BY SeasonAssumption
  <2> QED
    BY <2>2, <2>3, <2>4 DEF IsMatch, IsBye, NoOne, Meets, Participants, Scores
<1> QED
  BY <1>6, <1>7

LEMMA StandingsFollow ==
  ASSUME size \in Sizes, NEW days, AreDays(size, days)
  PROVE  TableIsResults(Standings(days), days)
<1> DEFINE T == Counted(days)
           r == BuildStandings(days)
           rows == RowsIn(size, r)
           sorted == Standings(days)
<1>1. IsFiniteSet(T) /\ \A e \in T : Meets(e)
  BY CountedMeet
<1>2. size \in Nat /\ Participants = 1..size /\ Participants \subseteq Nat
  BY SeasonAssumption DEF Participants
<1>3. r = [m \in 1..size |-> RowOf(m, SidesOf(T, m))]
  BY <1>1, <1>2, RecordsAre DEF RowsOf
<1>4. ASSUME NEW m \in 1..size
      PROVE  RowOf(m, SidesOf(T, m)) \in Records /\ RowOf(m, SidesOf(T, m)).team = m
  <2> DEFINE F == SidesOf(T, m)
             own == [o \in F |-> o.own]
             other == [o \in F |-> o.other]
  <2>1. IsFiniteSet(F)
    <3>1. IsFiniteSet(Outcomes(T)) /\ F \in SUBSET Outcomes(T)
      BY <1>1, OutcomesFinite DEF SidesOf
    <3> QED
      BY <3>1, FS_Subset
  <2>2. \A o \in F : o.own \in Nat /\ o.other \in Nat
    <3>1. \A e \in T : HomeSide(e).own \in Nat /\ HomeSide(e).other \in Nat
                       /\ AwaySide(e).own \in Nat /\ AwaySide(e).other \in Nat
      BY <1>1, ReachedAreGoals DEF Meets, HomeSide, AwaySide
    <3> QED
      BY <3>1, OutcomesAre DEF SidesOf
  <2> HIDE DEF F
  <2>3. \A G \in SUBSET F : Cardinality(G) \in Nat
    BY <2>1, FS_Subset, FS_CardinalityType
  <2>4. /\ Cardinality({o \in F : o.own > o.other}) \in Nat /\ Cardinality({o \in F : o.own = o.other}) \in Nat
        /\ Cardinality({o \in F : o.own < o.other}) \in Nat
    BY <2>3
  <2>5. Cardinality(Spread(own, F)) \in Nat /\ Cardinality(Spread(other, F)) \in Nat
    <3>1. \A o \in F : own[o] \in Nat /\ other[o] \in Nat
      BY <2>2
    <3> HIDE DEF own, other
    <3> QED
      BY <2>1, <3>1, SpreadFinite
  <2>6. /\ Spread(own, F) = UNION {{o} \X (1..o.own) : o \in F}
        /\ Spread(other, F) = UNION {{o} \X (1..o.other) : o \in F}
    BY DEF Spread
  <2>7. m \in Nat
    BY <1>2
  <2> HIDE DEF own, other
  <2>8. RowOf(m, F) \in Records /\ RowOf(m, F).team = m
    BY <2>4, <2>5, <2>6, <2>7 DEF RowOf, Records
  <2> QED
    BY <2>8 DEF F
<1>5. r \in [1..size -> Records] /\ \A m \in 1..size : r[m].team = m
  BY <1>3, <1>4
<1>6. sorted = Sorted(size, r)
  BY DEF Standings, Sorted, RowsIn, Rank, Participants
<1> HIDE DEF r, sorted
<1>7. /\ {sorted[i] : i \in 1..size} = rows /\ \A i \in 1..size : sorted[i] \in Records
      /\ \A i, j \in 1..size : i < j => Ahead(sorted[i], sorted[j])
  BY <1>2, <1>5, <1>6, TableIsSorted DEF AreRecords
<1>8. DOMAIN sorted = 1..size
  BY <1>6 DEF Sorted
<1>9. rows = {RowOf(m, {o \in Outcomes(T) : o.team = m}) : m \in Participants}
  BY <1>2, <1>3 DEF SidesOf, RowsIn
<1>10. ASSUME NEW a \in Records, NEW b \in Records, Ahead(a, b)
       PROVE  LET gap == [points |-> 3 * (a.won - b.won) + a.drawn - b.drawn,
                          goals |-> (a.for - a.against) - (b.for - b.against), for |-> a.for - b.for]
              IN /\ gap.points >= 0
                 /\ gap.points = 0 => gap.goals >= 0
                 /\ gap.points = 0 /\ gap.goals = 0 => gap.for >= 0
                 /\ gap.points = 0 /\ gap.goals = 0 /\ gap.for = 0 => a.team < b.team
  <2>1. /\ a.won \in Nat /\ a.drawn \in Nat /\ a.for \in Nat /\ a.against \in Nat /\ a.team \in Nat
        /\ b.won \in Nat /\ b.drawn \in Nat /\ b.for \in Nat /\ b.against \in Nat /\ b.team \in Nat
    BY DEF Records
  <2> QED
    BY <1>10, <2>1 DEF Ahead, Points, Difference
<1> HIDE DEF rows, T
<1>11. TableIsResults(sorted, days)
  <2>1. {sorted[i] : i \in DOMAIN sorted} = {RowOf(m, {o \in Outcomes(T) : o.team = m}) : m \in Participants}
    BY <1>7, <1>8, <1>9
  <2>2. \A i, j \in DOMAIN sorted : i < j => sorted[i] \in Records /\ sorted[j] \in Records /\ Ahead(sorted[i], sorted[j])
    BY <1>7, <1>8
  <2>3. ASSUME NEW i \in DOMAIN sorted, NEW j \in DOMAIN sorted, i < j
        PROVE  LET gap == [points |-> 3 * (sorted[i].won - sorted[j].won) + sorted[i].drawn - sorted[j].drawn,
                           goals |-> (sorted[i].for - sorted[i].against) - (sorted[j].for - sorted[j].against),
                           for |-> sorted[i].for - sorted[j].for]
               IN /\ gap.points >= 0
                  /\ gap.points = 0 => gap.goals >= 0
                  /\ gap.points = 0 /\ gap.goals = 0 => gap.for >= 0
                  /\ gap.points = 0 /\ gap.goals = 0 /\ gap.for = 0 => sorted[i].team < sorted[j].team
    BY <1>10, <2>2, <2>3
  <2> QED
    BY <2>1, <2>3, Zenon DEF TableIsResults, T
<1> QED
  BY <1>11 DEF sorted

\* Only a calculation counts as one, and it writes the table.
LEMMA CalculationSorts ==
  ASSUME SeasonNext, calculations' # calculations
  PROVE  table' = Standings(day') /\ size' = size
<1>1. PICK w \in Window : CalculateRound(w) \/ ComputeRoundResults(w)
  BY DEF SeasonNext, GenerateChecks, GenerateWrites, RefreshExtends, RefreshGenerates, TurnAppears, TurnPruned,
         TurnEnds, ComputeEffectiveLineups, ApplyRoundCorrection, UnchangedResults
<1>2. \E lineups, form : Compute(w, lineups, form)
  BY <1>1 DEF CalculateRound, ComputeRoundResults
<1> QED
  BY <1>2 DEF Compute

\* The table that a calculation writes is what the final results say: each match
\* counts once, with one goal for each threshold its points reach, and the rows
\* are in a strict order by points, difference, goals and name (build_standings,
\* rank_standings), however many teams and matches there are.
THEOREM TableAlwaysFollows == SeasonSpec => TableFollowsResults
<1> DEFINE Body == calculations' # calculations => TableIsResults(table', day')
<1>1. SeasonInit => SeasonInv
  BY SeasonAssumption, FS_EmptySet DEF SeasonInit, SeasonInv, AreDays
<1>2. SeasonInv /\ [SeasonNext]_seasonVars => SeasonInv'
  BY SeasonStep
<1>3. SeasonInv /\ [SeasonNext]_seasonVars => [Body]_seasonVars
  <2> SUFFICES ASSUME SeasonInv, SeasonNext, calculations' # calculations
               PROVE  TableIsResults(table', day')
    OBVIOUS
  <2>1. table' = Standings(day') /\ size' = size
    BY CalculationSorts
  <2>2. size \in Sizes /\ AreDays(size, day')
    BY <1>2, <2>1 DEF SeasonInv
  <2>3. TableIsResults(Standings(day'), day')
    BY <2>2, StandingsFollow
  <2> QED
    BY <2>1, <2>3
<1>4. SeasonSpec => [][Body]_seasonVars
  <2> HIDE DEF Body
  <2> QED
    BY <1>1, <1>2, <1>3, PTL DEF SeasonSpec
<1> QED
  BY <1>4, PTL DEF TableFollowsResults
=============================================================================
