------------------------------- MODULE League -------------------------------
(***************************************************************************)
(* A league around its season (leagues): who is in it and with which role, *)
(* open and named invites, the rules, the head-to-head calendar and the    *)
(* states of the league from its creation to its archive.                  *)
(*                                                                         *)
(* Handlers take the row of the league FOR UPDATE, but the permission      *)
(* check (authorization) has already loaded the league into the session,   *)
(* and a lock does not refresh a loaded row: a handler decides on the      *)
(* state the league had when its request began, and on counts, roles and   *)
(* calendar read under the lock.  A request is therefore two steps: Begin, *)
(* which notes what it has seen, and the handler.                          *)
(***************************************************************************)
EXTENDS Integers, FiniteSets

CONSTANTS
  Users,            \* fantasy coaches
  Owner,            \* the one who creates the league
  Robots,           \* coaches played by the program (UserType.AI)
  MinParticipants,  \* least members of a league that is played
  Counts,           \* values participant_count may take
  FirstCount,       \* participant_count of the standard rules
  Invites,          \* bound: ids of named invites, 1..n
  Requests,         \* bound: requests under way at a time
  MaxRequests,      \* bound: requests begun in all
  None

ASSUME LeagueAssumption ==
  /\ IsFiniteSet(Users) /\ Owner \in Users /\ Robots \subseteq Users \ {Owner}
  /\ MinParticipants \in Nat /\ Counts \subseteq Nat /\ FirstCount \in Counts
  /\ Invites \subseteq Nat \ {0} /\ IsFiniteSet(Invites)
  /\ Requests # {} /\ MaxRequests \in Nat /\ None \notin Users

VARIABLES league, named, open, request, begun

leagueVars == <<league, named, open, request, begun>>

Configurable == {"draft", "configuring"}
Closed == {"concluded", "archived"}
Transitions == [draft |-> {"configuring"}, configuring |-> {"auction", "active"},
                auction |-> {"configuring", "active"}, active |-> {"concluded"},
                concluded |-> {"archived"}, archived |-> {}, deleted |-> {}]

Members(l) == {u \in Users : l.role[u] # "none"}
Admins(l) == {u \in Users : l.role[u] = "admin"}
NoCalendar == [status |-> "none", members |-> {}, played |-> "none"]

(***************************************************************************)
(* What stands between a league and its season                             *)
(***************************************************************************)
ConfigurationBlocked(l, count) == Cardinality(Members(l)) # count \/ Admins(l) = {}

\* A mutant of the definition that follows.
ConfirmedOnly(l) == l.calendar.status = "confirmed"

\* The fingerprint of a calendar is the set of memberships it was made for.
CalendarConfigured(l) == l.calendar.status = "confirmed" /\ l.calendar.members = Members(l)

RostersComplete(l) == Members(l) \subseteq l.complete

ActivationBlocked(l) == ~CalendarConfigured(l) \/ ~RostersComplete(l)

\* The end of several handlers: the season starts by itself once nothing
\* stands in the way.  State and count are those the session holds.
TryAdvance(l, state, count) ==
  IF state \in {"configuring", "auction"} /\ ~ConfigurationBlocked(l, count) /\ ~ActivationBlocked(l)
  THEN [l EXCEPT !.state = "active"]
  ELSE l

AllowedTransitions(l, state) ==
  {t \in Transitions[state] :
     /\ t # "concluded"
     /\ state = "configuring" => ~ConfigurationBlocked(l, l.count)
     /\ t = "active" => ~ActivationBlocked(l)}

(***************************************************************************)
(* Seats and invites                                                       *)
(***************************************************************************)
Pending(i) == named[i].status = "pending"
Live == {i \in Invites : Pending(i) /\ ~named[i].late}
Join(l, u) == [l EXCEPT !.role[u] = "member"]

\* A mutant of the definition that follows.
SeatLeftOrOne(l, reserved, count) == Cardinality(Members(l)) + reserved <= count

SeatLeft(l, reserved, count) == Cardinality(Members(l)) + reserved < count

\* A mutant of the definition that follows.
KeepInvites(u) == named

ReleaseAccepted(u) ==
  [i \in Invites |-> IF named[i].to = u /\ named[i].status = "accepted"
                     THEN [named[i] EXCEPT !.status = "revoked"] ELSE named[i]]

\* The check constraints of the table: responded_at and revoked_at follow the
\* status, and a request that holds an old copy of the row writes one of them.
Writable(i, status) ==
  IF status = "expired" THEN named[i].status \in {"pending", "expired"}
  ELSE named[i].status # "revoked"

LeagueInit ==
  /\ league = [state |-> "configuring", count |-> FirstCount,
               role |-> [u \in Users |-> IF u = Owner THEN "admin" ELSE "none"],
               complete |-> {}, calendar |-> NoCalendar]
  /\ named = [i \in Invites |-> [to |-> None, status |-> "none", late |-> FALSE]]
  /\ open = FALSE
  /\ request = [r \in Requests |-> None]
  /\ begun = 0

(***************************************************************************)
(* Requests                                                                *)
(***************************************************************************)
Seen(u, i) == [actor |-> u, state |-> league.state, count |-> league.count, invite |-> i]

Begin(r, u, i) ==
  /\ request[r] = None /\ league.state # "deleted" /\ begun < MaxRequests
  /\ request' = [request EXCEPT ![r] = Seen(u, i)]
  /\ begun' = begun + 1
  /\ UNCHANGED <<league, named, open>>

BeginAdmin(r, u) == u \in Admins(league) /\ Begin(r, u, 0)

BeginReply(r, i) == Pending(i) /\ Begin(r, named[i].to, i)

SeasonComplete == league.calendar.status = "confirmed" /\ league.calendar.played = "all"

\* The homologation that completes the days of the calendar.
BeginConclusion(r) == league.state = "active" /\ SeasonComplete /\ Begin(r, None, 0)

\* A request that is refused, or fails and is rolled back.
Refuse(r) ==
  /\ request[r] # None
  /\ request' = [request EXCEPT ![r] = None]
  /\ UNCHANGED <<league, named, open, begun>>

\* The handler of r runs, on the row of a league that still exists.
Handles(r) ==
  /\ request[r] # None /\ league.state # "deleted"
  /\ request' = [request EXCEPT ![r] = None]
  /\ UNCHANGED begun

ByAdmin(r) == Handles(r) /\ request[r].invite = 0 /\ request[r].actor # None
InSetup(r) == ByAdmin(r) /\ request[r].state \in Configurable

(***************************************************************************)
(* Members and roles (membership_service.py)                               *)
(***************************************************************************)

\* _sync_participant_count_after_removal
Lowered(l) ==
  LET left == Cardinality(Members(l))
  IN IF left >= MinParticipants /\ left < l.count THEN [l EXCEPT !.count = left] ELSE l

\* A draft calendar is deleted; a confirmed one keeps the days of the seat.
CalendarWithout(c, u) ==
  IF c.status = "draft" THEN NoCalendar
  ELSE [c EXCEPT !.members = IF u \in @ THEN (@ \ {u}) \cup {None} ELSE @]

RemoveMember(r, u) ==
  /\ InSetup(r) /\ league.role[u] = "member"
  /\ league' = [Lowered([league EXCEPT !.role[u] = "none", !.complete = @ \ {u}])
                  EXCEPT !.calendar = CalendarWithout(@, u)]
  /\ named' = ReleaseAccepted(u)
  /\ UNCHANGED open

\* The newcomer takes over the membership: team, days and points go with it.
Replace(r, u, v) ==
  LET Moved(S) == IF u \in S THEN (S \ {u}) \cup {v} ELSE S
  IN /\ ByAdmin(r) /\ league.role[u] = "member" /\ league.role[v] = "none"
     /\ league' = [league EXCEPT !.role = [@ EXCEPT ![u] = "none", ![v] = "member"],
                                 !.complete = Moved(@), !.calendar.members = Moved(@)]
     /\ named' = ReleaseAccepted(u)
     /\ UNCHANGED open

TransferAdmin(r, u, keep) ==
  LET actor == request[r].actor
  IN /\ ByAdmin(r) /\ actor \in Admins(league) /\ league.role[u] = "member"
     /\ league' = [league EXCEPT !.role = [@ EXCEPT ![u] = "admin",
                                                    ![actor] = IF keep THEN "admin" ELSE "member"]]
     /\ UNCHANGED <<named, open>>

\* A mutant of the definition that follows.
AnotherMember(u) == Members(league) \ {u} # {}

AnotherAdmin(u) == Admins(league) \ {u} # {}

RevokeAdmin(r, u) ==
  /\ ByAdmin(r) /\ u \in Admins(league) /\ AnotherAdmin(u)
  /\ league' = [league EXCEPT !.role[u] = "member"]
  /\ UNCHANGED <<named, open>>

(***************************************************************************)
(* Named invites (named_invite_service.py)                                 *)
(***************************************************************************)
CreateNamed(r, u, i) ==
  /\ InSetup(r) /\ u # request[r].actor /\ league.role[u] = "none"
  /\ named[i].to = None /\ \A j \in Invites : j < i => named[j].to # None
  /\ ~\E j \in Live : named[j].to = u
  /\ SeatLeft(league, Cardinality(Live), league.count)
  /\ named' = [j \in Invites |->
       IF j = i THEN [to |-> u, status |-> IF u \in Robots THEN "accepted" ELSE "pending", late |-> FALSE]
       ELSE IF named[j].to = u /\ Pending(j) THEN [named[j] EXCEPT !.status = "expired"] ELSE named[j]]
  /\ league' = IF u \in Robots THEN Join(league, u) ELSE league
  /\ UNCHANGED open

RevokeNamed(r, i) ==
  /\ ByAdmin(r) /\ Pending(i)
  /\ named' = [named EXCEPT ![i].status = "revoked"]
  /\ UNCHANGED <<league, open>>

\* The row of the invite, like that of the league, is the copy loaded first:
\* that it was pending is what BeginReply saw.
Respond(r, status, l) ==
  LET i == request[r].invite
  IN /\ Handles(r) /\ i # 0 /\ ~named[i].late /\ request[r].state \in Configurable
     /\ Writable(i, status)
     /\ named' = [named EXCEPT ![i].status = status]
     /\ league' = l
     /\ UNCHANGED open

AcceptNamed(r) ==
  LET u == request[r].actor
  IN /\ request[r] # None /\ request[r].invite # 0
     /\ league.role[u] = "none" => SeatLeft(league, 0, request[r].count)
     /\ Respond(r, "accepted", IF league.role[u] = "none" THEN Join(league, u) ELSE league)

DeclineNamed(r) == request[r] # None /\ Respond(r, "declined", league)

AnswerTooLate(r) ==
  LET i == request[r].invite
  IN /\ Handles(r) /\ i # 0 /\ named[i].late /\ Writable(i, "expired")
     /\ named' = [named EXCEPT ![i].status = "expired"]
     /\ UNCHANGED <<league, open>>

NamedRunsOut(i) ==
  /\ Pending(i) /\ ~named[i].late
  /\ named' = [named EXCEPT ![i].late = TRUE]
  /\ UNCHANGED <<league, open, request, begun>>

\* Badge, inbox and directory write off the invites that ran out.
ExpireNamed(i) ==
  /\ Pending(i) /\ named[i].late
  /\ named' = [named EXCEPT ![i].status = "expired"]
  /\ UNCHANGED <<league, open, request, begun>>

(***************************************************************************)
(* Open invites (invite_service.py)                                        *)
(***************************************************************************)
CreateOpen(r) ==
  /\ InSetup(r) /\ ~open
  /\ open' = TRUE
  /\ UNCHANGED <<league, named>>

RevokeOpen(r) ==
  /\ InSetup(r) /\ open
  /\ open' = FALSE
  /\ UNCHANGED <<league, named>>

OpenRunsOut ==
  /\ open
  /\ open' = FALSE
  /\ UNCHANGED <<league, named, request, begun>>

\* Loads the league under its lock and refreshes the invite: one step.
AcceptOpen(u) ==
  LET own == {i \in Live : named[i].to = u}
      taken == Cardinality(Live) - (IF own = {} THEN 0 ELSE 1)
  IN /\ league.state \in Configurable /\ open
     /\ u \notin Robots /\ league.role[u] = "none"
     /\ SeatLeft(league, taken, league.count)
     /\ league' = TryAdvance(Join(league, u), league.state, league.count)
     /\ named' = [i \in Invites |-> IF i \in own THEN [named[i] EXCEPT !.status = "accepted"] ELSE named[i]]
     /\ UNCHANGED <<open, request, begun>>

(***************************************************************************)
(* Rules, rosters, calendar and states                                     *)
(***************************************************************************)
\* Reads the rules before it has the lock, and writes the columns that differ
\* from what it read.
UpdateRules(r, n) ==
  /\ InSetup(r)
  /\ league' = TryAdvance([league EXCEPT !.count = IF n = request[r].count THEN @ ELSE n],
                          request[r].state, n)
  /\ UNCHANGED <<named, open>>

\* Assigning, importing or releasing athletes; see FantasyTeams.
EditRoster(u) ==
  /\ league.state # "deleted" /\ league.role[u] # "none"
  /\ league' = [league EXCEPT !.complete = IF u \in @ THEN @ \ {u} ELSE @ \cup {u}]
  /\ UNCHANGED <<named, open, request, begun>>

RandomRoster(r, u) ==
  /\ ByAdmin(r) /\ u \in Robots /\ league.role[u] # "none"
  /\ league' = TryAdvance([league EXCEPT !.complete = @ \cup {u}], request[r].state, league.count)
  /\ UNCHANGED <<named, open>>

GenerateCalendar(r) ==
  /\ ByAdmin(r) /\ request[r].state \notin Closed
  /\ Cardinality(Members(league)) = league.count /\ RostersComplete(league)
  /\ league.calendar.played = "none"
  /\ league' = [league EXCEPT !.calendar = [status |-> "draft", members |-> Members(league), played |-> "none"]]
  /\ UNCHANGED <<named, open>>

ConfirmCalendar(r) ==
  /\ ByAdmin(r) /\ request[r].state \notin Closed
  /\ RostersComplete(league)
  /\ league.calendar.status # "none" /\ league.calendar.members = Members(league)
  /\ league' = TryAdvance([league EXCEPT !.calendar.status = "confirmed"], request[r].state, league.count)
  /\ UNCHANGED <<named, open>>

\* Results of days, and the verdict on all of them; see Turns.
PlayDays ==
  /\ league.state = "active" /\ league.calendar.status = "confirmed"
  /\ league.calendar.played # "all"
  /\ league' = [league EXCEPT !.calendar.played = IF @ = "none" THEN "some" ELSE "all"]
  /\ UNCHANGED <<named, open, request, begun>>

Conclude(r) ==
  /\ Handles(r) /\ request[r].actor = None
  /\ league' = [league EXCEPT !.state = "concluded"]
  /\ UNCHANGED <<named, open>>

Transition(r, t) ==
  /\ ByAdmin(r) /\ t \in AllowedTransitions(league, request[r].state)
  /\ league' = [league EXCEPT !.state = t]
  /\ UNCHANGED <<named, open>>

Delete(r) ==
  /\ InSetup(r)
  /\ league' = [league EXCEPT !.state = "deleted"]
  /\ UNCHANGED <<named, open>>

LeagueNext ==
  \/ \E r \in Requests, u \in Users :
       \/ BeginAdmin(r, u)
       \/ RemoveMember(r, u)
       \/ \E v \in Users : Replace(r, u, v)
       \/ \E keep \in BOOLEAN : TransferAdmin(r, u, keep)
       \/ RevokeAdmin(r, u)
       \/ \E i \in Invites : CreateNamed(r, u, i)
       \/ RandomRoster(r, u)
  \/ \E r \in Requests, i \in Invites : BeginReply(r, i) \/ RevokeNamed(r, i)
  \/ \E r \in Requests :
       \/ BeginConclusion(r) \/ Refuse(r) \/ Conclude(r)
       \/ AcceptNamed(r) \/ DeclineNamed(r) \/ AnswerTooLate(r)
       \/ CreateOpen(r) \/ RevokeOpen(r)
       \/ \E n \in Counts : UpdateRules(r, n)
       \/ GenerateCalendar(r) \/ ConfirmCalendar(r)
       \/ \E t \in DOMAIN Transitions : Transition(r, t)
       \/ Delete(r)
  \/ \E i \in Invites : NamedRunsOut(i) \/ ExpireNamed(i)
  \/ \E u \in Users : AcceptOpen(u) \/ EditRoster(u)
  \/ OpenRunsOut \/ PlayDays

LeagueSpec == LeagueInit /\ [][LeagueNext]_leagueVars

(***************************************************************************)
(* Properties                                                              *)
(***************************************************************************)
\* Types: roles, invites and calendar are those of the tables.
LeagueTypeOK ==
  /\ league \in [state : DOMAIN Transitions, count : Counts \cup (MinParticipants..Cardinality(Users)),
                 role : [Users -> {"none", "member", "admin"}], complete : SUBSET Users,
                 calendar : [status : {"none", "draft", "confirmed"},
                             members : SUBSET (Users \cup {None}),
                             played : {"none", "some", "all"}]]
  /\ named \in [Invites -> [to : Users \cup {None},
                            status : {"none", "pending", "accepted", "declined", "revoked", "expired"},
                            late : BOOLEAN]]
  /\ open \in BOOLEAN /\ begun \in 0..MaxRequests
  /\ request \in [Requests -> {None} \cup [actor : Users \cup {None}, state : DOMAIN Transitions,
                                           count : Nat, invite : Invites \cup {0}]]

\* Whatever admins do to one another at the same time, with permissions
\* checked before the lock, the league keeps an administrator
\* (revoke_admin: "ne resta almeno uno").
AdminRemains == Admins(league) # {}

\* An invite that reads "accepted" is one of a member: removals and
\* replacements release it, and answers given twice, or after the invite
\* changed, leave it so (_release_accepted_named_invites).
AcceptedIsMember ==
  \A i \in Invites : named[i].status = "accepted" => named[i].to \in Members(league)

\* A season starts, by command or by itself, with a confirmed calendar made
\* for exactly the members of that moment and with every roster complete.
SeasonStartsReady ==
  [][league'.state = "active" /\ league.state # "active"
       => /\ league'.calendar.status = "confirmed"
          /\ league'.calendar.members = Members(league')
          /\ Members(league') \subseteq league'.complete
          /\ Admins(league') # {}]_leagueVars

\* No join takes the members beyond every participant count that was current
\* since the join began (_require_capacity, projected_occupancy).
JoinsFit ==
  [][Cardinality(Members(league')) > Cardinality(Members(league))
       => \E n \in {league.count} \cup {request[r].count : r \in {q \in Requests : request[q] # None}} :
            Cardinality(Members(league')) <= n]_leagueVars

=============================================================================
