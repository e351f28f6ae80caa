---------------------------- MODULE TradesProofs ----------------------------
(***************************************************************************)
(* Theorems about Trades for every number of teams, slots, athletes,       *)
(* proposals and approval modes: a trade is carried out entirely, as       *)
(* proposed and once, whatever happened since it was proposed.             *)
(***************************************************************************)
EXTENDS Trades, FantasyTeamsProofs

-----------------------------------------------------------------------------
(* Incoming athletes take the free slots in index order *)

\* The position of a free slot among the free slots.
Place(sl, s) == Cardinality({r \in FreeSlots(sl) : r <= s})

LEMMA PlaceType ==
    ASSUME NEW sl, NEW s \in FreeSlots(sl)
    PROVE  /\ IsFiniteSet(FreeSlots(sl)) /\ Cardinality(FreeSlots(sl)) \in Nat
           /\ Place(sl, s) \in 1..Cardinality(FreeSlots(sl))
<1> DEFINE upTo == {r \in FreeSlots(sl) : r <= s}
<1>1. IsFiniteSet(FreeSlots(sl)) /\ FreeSlots(sl) \subseteq Nat
  <2>1. FreeSlots(sl) \subseteq Slots
    BY DEF FreeSlots
  <2> QED BY <2>1, RosterAssumption, FS_Subset
<1>2. Cardinality(FreeSlots(sl)) \in Nat
  BY <1>1, FS_CardinalityType
<1>3. IsFiniteSet(upTo) /\ Cardinality(upTo) <= Cardinality(FreeSlots(sl))
  BY <1>1, FS_Subset
<1>4. s \in upTo
  BY <1>1
<1>5. Cardinality(upTo) \in Nat /\ Cardinality(upTo) # 0
  BY <1>3, <1>4, FS_CardinalityType, FS_EmptySet
<1> QED BY <1>1, <1>2, <1>3, <1>5 DEF Place

\* Two free slots have different positions.
LEMMA PlaceInjective ==
    ASSUME NEW sl, NEW s \in FreeSlots(sl), NEW r \in FreeSlots(sl), r < s
    PROVE  Place(sl, r) < Place(sl, s)
<1> DEFINE upTo(q) == {p \in FreeSlots(sl) : p <= q}
<1>1. IsFiniteSet(FreeSlots(sl)) /\ FreeSlots(sl) \subseteq Nat
  BY PlaceType, RosterAssumption DEF FreeSlots
<1>2. upTo(r) \subseteq upTo(s) /\ s \in upTo(s) /\ s \notin upTo(r)
  BY <1>1
<1>3. IsFiniteSet(upTo(s))
  BY <1>1, FS_Subset
<1>4. /\ IsFiniteSet(upTo(r)) /\ Cardinality(upTo(r)) <= Cardinality(upTo(s))
      /\ Cardinality(upTo(s)) = Cardinality(upTo(r)) => upTo(s) = upTo(r)
  BY <1>2, <1>3, FS_Subset
<1>5. Cardinality(upTo(r)) \in Nat /\ Cardinality(upTo(s)) \in Nat
  BY <1>3, <1>4, FS_CardinalityType
<1> QED BY <1>2, <1>4, <1>5 DEF Place

\* Every position is taken by a free slot.
LEMMA PlaceSurjective ==
    ASSUME NEW sl, IsFiniteSet(FreeSlots(sl)), NEW n \in 1..Cardinality(FreeSlots(sl))
    PROVE  \E s \in FreeSlots(sl) : Place(sl, s) = n
<1> DEFINE free == FreeSlots(sl)
           c == Cardinality(free)
           f == [s \in free |-> Place(sl, s)]
<1>1. c \in Nat /\ free \subseteq Nat
  BY FS_CardinalityType, RosterAssumption DEF FreeSlots
<1>2. \A s \in free : Place(sl, s) \in 1..c
  BY PlaceType
<1>3. \A s, r \in free : Place(sl, s) = Place(sl, r) => s = r
  <2> SUFFICES ASSUME NEW s \in free, NEW r \in free, s # r PROVE Place(sl, s) # Place(sl, r)
    OBVIOUS
  <2>1. Place(sl, s) \in Nat /\ Place(sl, r) \in Nat
    BY <1>1, <1>2
  <2>2. s < r \/ r < s
    BY <1>1
  <2> QED BY <2>1, <2>2, PlaceInjective
<1>4. f \in Injection(free, 1..c)
  BY <1>2, <1>3 DEF Injection, IsInjective
<1>5. IsFiniteSet(1..c) /\ Cardinality(1..c) = c
  BY <1>1, FS_Interval
<1> HIDE DEF f, c
<1>6. f \in Surjection(free, 1..c)
  BY <1>4, <1>5, FS_Injection DEF c
<1> QED BY <1>6 DEF Surjection, f, c

\* What Filled does to a slot.
LEMMA FilledFacts ==
    ASSUME NEW sl \in TeamSlots, NEW in \in Seq(Athletes)
    PROVE  /\ Filled(sl, in) \in TeamSlots
           /\ \A s \in Slots : sl[s] # NoAthlete => Filled(sl, in)[s] = sl[s]
           /\ \A s \in FreeSlots(sl) : Filled(sl, in)[s] =
                  IF Place(sl, s) <= Len(in) THEN in[Place(sl, s)] ELSE NoAthlete
<1>1. ASSUME NEW s \in Slots
      PROVE  /\ sl[s] # NoAthlete => Filled(sl, in)[s] = sl[s]
             /\ s \in FreeSlots(sl) => Filled(sl, in)[s] =
                    IF Place(sl, s) <= Len(in) THEN in[Place(sl, s)] ELSE NoAthlete
             /\ Filled(sl, in)[s] \in Athletes \cup {NoAthlete}
  <2>1. Filled(sl, in)[s] = IF s \in FreeSlots(sl) /\ Place(sl, s) <= Len(in)
                            THEN in[Place(sl, s)] ELSE sl[s]
    BY DEF Filled, Place
  <2>2. s \in FreeSlots(sl) <=> sl[s] = NoAthlete
    BY DEF FreeSlots
  <2>3. s \in FreeSlots(sl) /\ Place(sl, s) <= Len(in) => in[Place(sl, s)] \in Athletes
    <3> SUFFICES ASSUME s \in FreeSlots(sl), Place(sl, s) <= Len(in)
                 PROVE  in[Place(sl, s)] \in Athletes
      OBVIOUS
    <3>1. Place(sl, s) \in Nat /\ Place(sl, s) >= 1
      BY PlaceType
    <3> QED BY <3>1
  <2>4. sl[s] \in Athletes \cup {NoAthlete}
    BY DEF TeamSlots
  <2> QED BY <2>1, <2>2, <2>3, <2>4
<1>2. Filled(sl, in) = [s \in Slots |-> Filled(sl, in)[s]]
  BY DEF Filled
<1> HIDE DEF Filled
<1> QED BY <1>1, <1>2 DEF TeamSlots, FreeSlots

LEMMA EmptiedFacts ==
    ASSUME NEW sl \in TeamSlots, NEW out
    PROVE  /\ Emptied(sl, out) \in TeamSlots
           /\ \A s \in Slots : Emptied(sl, out)[s] =
                  IF sl[s] \in Listed(out) THEN NoAthlete ELSE sl[s]
BY DEF Emptied, TeamSlots

\* Filled puts athletes that are listed once into one slot each ...
LEMMA FilledOnce ==
    ASSUME NEW sl \in TeamSlots, NEW in \in Seq(Athletes), Distinct(in),
           NEW s \in FreeSlots(sl), NEW r \in FreeSlots(sl), s # r,
           Filled(sl, in)[s] # NoAthlete
    PROVE  Filled(sl, in)[s] # Filled(sl, in)[r]
<1>1. s \in Nat /\ r \in Nat
  BY RosterAssumption DEF FreeSlots
<1>2. Place(sl, s) \in Nat \ {0} /\ Place(sl, r) \in Nat \ {0}
  BY PlaceType
<1>3. Place(sl, s) # Place(sl, r)
  BY <1>1, <1>2, PlaceInjective
<1>4. CASE Place(sl, r) <= Len(in)
  <2>1. Place(sl, s) <= Len(in)
    BY FilledFacts
  <2>2. Place(sl, s) \in DOMAIN in /\ Place(sl, r) \in DOMAIN in
    BY <1>2, <1>4, <2>1
  <2>3. in[Place(sl, s)] # in[Place(sl, r)]
    BY <1>3, <2>2 DEF Distinct
  <2> QED BY <1>4, <2>1, <2>3, FilledFacts
<1>5. CASE ~(Place(sl, r) <= Len(in))
  BY <1>5, FilledFacts
<1> QED BY <1>4, <1>5

\* ... and puts all of them when there is room.
LEMMA FilledHolds ==
    ASSUME NEW sl \in TeamSlots, NEW in \in Seq(Athletes),
           Cardinality(FreeSlots(sl)) >= Len(in)
    PROVE  HeldBy(Filled(sl, in)) = HeldBy(sl) \cup Listed(in)
<1>1. Filled(sl, in) \in TeamSlots
  BY FilledFacts
<1>2. IsFiniteSet(FreeSlots(sl)) /\ Cardinality(FreeSlots(sl)) \in Nat
  <2>1. FreeSlots(sl) \subseteq Slots
    BY DEF FreeSlots
  <2> QED BY <2>1, RosterAssumption, FS_Subset, FS_CardinalityType
<1>3. ASSUME NEW a \in HeldBy(Filled(sl, in))
      PROVE  a \in HeldBy(sl) \cup Listed(in)
  <2>1. PICK s \in Slots : Filled(sl, in)[s] # NoAthlete /\ a = Filled(sl, in)[s]
    BY <1>3 DEF HeldBy, Occupied
  <2>2. CASE sl[s] # NoAthlete
    BY <2>1, <2>2, FilledFacts DEF HeldBy, Occupied
  <2>3. CASE s \in FreeSlots(sl)
    <3>1. Place(sl, s) <= Len(in) /\ a = in[Place(sl, s)]
      BY <2>1, <2>3, FilledFacts
    <3>2. Place(sl, s) \in DOMAIN in
      BY <2>3, <3>1, PlaceType
    <3> QED BY <3>1, <3>2 DEF Listed
  <2> QED BY <2>2, <2>3 DEF FreeSlots
<1>4. ASSUME NEW a \in HeldBy(sl)
      PROVE  a \in HeldBy(Filled(sl, in))
  BY <1>4, FilledFacts DEF HeldBy, Occupied
<1>5. ASSUME NEW k \in DOMAIN in
      PROVE  in[k] \in HeldBy(Filled(sl, in))
  <2>1. k \in 1..Cardinality(FreeSlots(sl)) /\ k <= Len(in)
    BY <1>2
  <2>2. PICK s \in FreeSlots(sl) : Place(sl, s) = k
    BY <1>2, <2>1, PlaceSurjective
  <2>3. Filled(sl, in)[s] = in[k] /\ in[k] \in Athletes /\ s \in Slots
    BY <2>1, <2>2, FilledFacts DEF FreeSlots
  <2> QED BY <2>3, NoAthleteAssumption DEF HeldBy, Occupied
<1> QED BY <1>3, <1>4, <1>5 DEF Listed

-----------------------------------------------------------------------------
(* What a trade posts *)

\* What an account has booked for trades.
TradePrefixes == {"trade-sent", "trade-received"}
TradeBookings(acc) == BookedUnder(acc, TradePrefixes)

\* The two transaction ids of a proposal are its own.
LEMMA TradeTxs ==
    ASSUME NEW i \in Nat
    PROVE  /\ SentTx(i) \in TxIds /\ ReceivedTx(i) \in TxIds
           /\ SentTx(i)[1] \in TradePrefixes /\ ReceivedTx(i)[1] \in TradePrefixes
           /\ SentTx(i) # ReceivedTx(i)
           /\ \A j \in Nat : j # i => {SentTx(i), ReceivedTx(i)} \cap {SentTx(j), ReceivedTx(j)} = {}
<1>1. SentTx(i) \in TxIds /\ ReceivedTx(i) \in TxIds
  BY TxIdType DEF SentTx, ReceivedTx, TxPrefixes
<1>2. SentTx(i)[1] \in TradePrefixes /\ ReceivedTx(i)[1] \in TradePrefixes
  BY DEF SentTx, ReceivedTx, TradePrefixes
<1>3. \A j \in Nat : /\ SentTx(i) = SentTx(j) => i = j
                     /\ ReceivedTx(i) = ReceivedTx(j) => i = j
                     /\ SentTx(i) # ReceivedTx(j) /\ SentTx(j) # ReceivedTx(i)
  BY DEF SentTx, ReceivedTx
<1> QED BY <1>1, <1>2, <1>3

\* One side of a settlement.
LEMMA PostIfFacts ==
    ASSUME NEW acc \in Accounts, NEW tx \in TxIds, NEW amount \in Int,
           ~Posted(acc, tx), acc.balance + amount >= 0
    PROVE  LET new == PostIf(acc, tx, amount)
           IN  /\ new \in Accounts
               /\ new.balance = acc.balance + amount
               /\ Bookings(new) = Bookings(acc) \cup {x \in {<<tx, amount>>} : x[2] # 0}
               /\ Sound(acc) => Sound(new)
<1>1. CanPost(acc, tx, amount) /\ acc.balance \in Nat
  BY DEF CanPost, Accounts
<1>2. <<tx, amount>>[2] = amount
  OBVIOUS
<1>3. CASE amount = 0
  BY <1>1, <1>2, <1>3 DEF PostIf
<1>4. CASE amount # 0
  <2>1. PostIf(acc, tx, amount) = Post(acc, tx, amount)
    BY <1>4 DEF PostIf
  <2>2. Post(acc, tx, amount) \in Accounts /\ (Sound(acc) => Sound(Post(acc, tx, amount)))
    BY <1>1, PostType, PostSound DEF Sound
  <2>3. Post(acc, tx, amount).balance = acc.balance + amount
    BY DEF Post
  <2>4. Bookings(Post(acc, tx, amount)) = Bookings(acc) \cup {<<tx, amount>>}
    BY PostBooks
  <2> QED BY <1>2, <1>4, <2>1, <2>2, <2>3, <2>4
<1> QED BY <1>3, <1>4

-----------------------------------------------------------------------------
(* What a trade does to a team *)

LEMMA ProposalFacts ==
    ASSUME TradesTypeOK, NEW i \in DOMAIN proposals, NEW t \in Teams
    PROVE  /\ i \in Nat /\ proposals[i] \in Proposals
           /\ Gives(proposals[i], t) \in Seq(Athletes) /\ Gets(proposals[i], t) \in Seq(Athletes)
           /\ Sends(proposals[i], t) \in Nat /\ Receives(proposals[i], t) \in Nat
<1>1. i \in Nat /\ proposals[i] \in Proposals
  BY DEF TradesTypeOK
<1>2. << >> \in Seq(Athletes)
  OBVIOUS
<1> QED BY <1>1, <1>2 DEF Proposals, Gives, Gets, Sends, Receives

\* The fresh ids of a proposal that has not been carried out.
Fresh(i, t) == ~Posted(account[t], SentTx(i)) /\ ~Posted(account[t], ReceivedTx(i))

\* Each account moves by the difference and books what was promised.
LEMMA SettledFacts ==
    ASSUME TradesTypeOK, NEW i \in DOMAIN proposals, NEW t \in Teams,
           Executable(proposals[i]), Fresh(i, t)
    PROVE  /\ Settled(i, t) \in Accounts
           /\ Settled(i, t).balance = account[t].balance + Net(proposals[i], t)
           /\ Bookings(Settled(i, t)) = Bookings(account[t]) \cup Promised(i, t)
           /\ Sound(account[t]) => Sound(Settled(i, t))
<1> DEFINE p == proposals[i]
           acc == account[t]
           sent == 0 - Sends(p, t)
           got == Receives(p, t)
           stx == SentTx(i)
           rtx == ReceivedTx(i)
<1>1. acc \in Accounts /\ acc.balance \in Nat
  BY DEF TradesTypeOK, TypeOK, Accounts
<1>2. i \in Nat /\ Sends(p, t) \in Nat /\ got \in Nat /\ sent \in Int
  BY ProposalFacts
<1>3. acc.balance + sent >= 0
  <2>1. CASE t \in {p.proposer, p.recipient}
    BY <1>1, <1>2, <2>1 DEF Executable
  <2>2. CASE t \notin {p.proposer, p.recipient}
    BY <1>1, <2>2 DEF Sends
  <2> QED BY <2>1, <2>2
<1>4. stx \in TxIds /\ rtx \in TxIds /\ stx # rtx
  BY <1>2, TradeTxs
<1>5. ~Posted(acc, stx) /\ ~Posted(acc, rtx)
  BY DEF Fresh
<1>6. Promised(i, t) = {x \in {<<stx, sent>>} : x[2] # 0} \cup {x \in {<<rtx, got>>} : x[2] # 0}
  BY DEF Promised
<1>7. Net(p, t) = got + sent
  BY <1>2 DEF Net
<1>8. \A amount : <<stx, amount>>[1] = stx /\ <<rtx, amount>>[1] = rtx
  OBVIOUS
<1> HIDE DEF stx, rtx, sent, got, acc
<1>9. CASE t = p.recipient
  <2> DEFINE mid == PostIf(acc, rtx, got)
  <2>1. /\ mid \in Accounts /\ mid.balance = acc.balance + got
        /\ Bookings(mid) = Bookings(acc) \cup {x \in {<<rtx, got>>} : x[2] # 0}
        /\ Sound(acc) => Sound(mid)
    BY <1>1, <1>2, <1>4, <1>5, PostIfFacts
  <2>2. ~Posted(mid, stx)
    BY <1>1, <1>4, <1>5, <1>8, <2>1, PostedIsBooked
  <2>3. Settled(i, t) = PostIf(mid, stx, sent)
    BY <1>9 DEF Settled, acc, rtx, stx, got, sent
  <2> HIDE DEF mid
  <2>4. mid.balance + sent >= 0
    BY <1>1, <1>2, <1>3, <2>1
  <2> DEFINE new == PostIf(mid, stx, sent)
  <2>5. /\ new \in Accounts /\ new.balance = mid.balance + sent
        /\ Bookings(new) = Bookings(mid) \cup {x \in {<<stx, sent>>} : x[2] # 0}
        /\ Sound(mid) => Sound(new)
    BY <1>2, <1>4, <2>1, <2>2, <2>4, PostIfFacts
  <2> HIDE DEF new
  <2>6. new.balance = acc.balance + Net(p, t)
    BY <1>1, <1>2, <1>7, <2>1, <2>5
  <2> QED BY <1>6, <2>1, <2>3, <2>5, <2>6 DEF new, acc
<1>10. CASE t # p.recipient
  <2> DEFINE mid == PostIf(acc, stx, sent)
  <2>1. /\ mid \in Accounts /\ mid.balance = acc.balance + sent
        /\ Bookings(mid) = Bookings(acc) \cup {x \in {<<stx, sent>>} : x[2] # 0}
        /\ Sound(acc) => Sound(mid)
    BY <1>1, <1>2, <1>3, <1>4, <1>5, PostIfFacts
  <2>2. ~Posted(mid, rtx)
    BY <1>1, <1>4, <1>5, <1>8, <2>1, PostedIsBooked
  <2>3. Settled(i, t) = PostIf(mid, rtx, got)
    BY <1>10 DEF Settled, acc, rtx, stx, got, sent
  <2> HIDE DEF mid
  <2>4. mid.balance + got >= 0
    BY <1>1, <1>2, <1>3, <2>1
  <2> DEFINE new == PostIf(mid, rtx, got)
  <2>5. /\ new \in Accounts /\ new.balance = mid.balance + got
        /\ Bookings(new) = Bookings(mid) \cup {x \in {<<rtx, got>>} : x[2] # 0}
        /\ Sound(mid) => Sound(new)
    BY <1>2, <1>4, <2>1, <2>2, <2>4, PostIfFacts
  <2> HIDE DEF new
  <2>6. new.balance = acc.balance + Net(p, t)
    BY <1>1, <1>2, <1>7, <2>1, <2>5
  <2> QED BY <1>6, <2>1, <2>3, <2>5, <2>6 DEF new, acc
<1> QED BY <1>9, <1>10

\* Who is in a slot after the exchange: one who stays, or one who comes in.
LEMMA SwappedFacts ==
    ASSUME TradesTypeOK, NEW i \in DOMAIN proposals, NEW t \in Teams
    PROVE  LET p == proposals[i]
               rest == Emptied(slot[t], Gives(p, t))
           IN  /\ rest \in TeamSlots /\ Swapped(p, t) \in TeamSlots
               /\ HeldBy(rest) = HeldBy(slot[t]) \ Listed(Gives(p, t))
               /\ \A s \in Slots : Swapped(p, t)[s] # NoAthlete =>
                      \/ /\ Swapped(p, t)[s] = slot[t][s]
                         /\ slot[t][s] \notin Listed(Gives(p, t))
                      \/ s \in FreeSlots(rest) /\ Swapped(p, t)[s] \in Listed(Gets(p, t))
<1> DEFINE p == proposals[i]
           rest == Emptied(slot[t], Gives(p, t))
<1>1. slot[t] \in TeamSlots
  BY DEF TradesTypeOK, TypeOK
<1>2. Gives(p, t) \in Seq(Athletes) /\ Gets(p, t) \in Seq(Athletes)
  BY ProposalFacts
<1>3. rest \in TeamSlots
  BY <1>1, EmptiedFacts
<1>4. Swapped(p, t) \in TeamSlots /\ Swapped(p, t) = Filled(rest, Gets(p, t))
  BY <1>2, <1>3, FilledFacts DEF Swapped
<1>5. \A s \in Slots : rest[s] = IF slot[t][s] \in Listed(Gives(p, t)) THEN NoAthlete ELSE slot[t][s]
  BY <1>1, EmptiedFacts
<1>6. HeldBy(rest) = HeldBy(slot[t]) \ Listed(Gives(p, t))
  BY <1>5 DEF HeldBy, Occupied
<1> HIDE DEF rest
<1>7. ASSUME NEW s \in Slots, Swapped(p, t)[s] # NoAthlete
      PROVE  \/ /\ Swapped(p, t)[s] = slot[t][s]
                /\ slot[t][s] \notin Listed(Gives(p, t))
             \/ s \in FreeSlots(rest) /\ Swapped(p, t)[s] \in Listed(Gets(p, t))
  <2>1. CASE rest[s] # NoAthlete
    BY <1>2, <1>3, <1>4, <1>5, <2>1, FilledFacts
  <2>2. CASE s \in FreeSlots(rest)
    <3>1. Place(rest, s) <= Len(Gets(p, t)) /\ Swapped(p, t)[s] = Gets(p, t)[Place(rest, s)]
      BY <1>2, <1>3, <1>4, <1>7, <2>2, FilledFacts
    <3>2. Place(rest, s) \in Nat /\ Place(rest, s) >= 1
      BY <2>2, PlaceType
    <3>3. Place(rest, s) \in DOMAIN Gets(p, t)
      BY <1>2, <3>1, <3>2
    <3> QED BY <2>2, <3>1, <3>3 DEF Listed
  <2> QED BY <2>1, <2>2 DEF FreeSlots
<1> QED BY <1>3, <1>4, <1>6, <1>7 DEF rest

\* Every team gives and gets what was proposed and keeps the others.
LEMMA SwappedHolds ==
    ASSUME TradesTypeOK, NEW i \in DOMAIN proposals, NEW t \in Teams, Executable(proposals[i])
    PROVE  HeldBy(Swapped(proposals[i], t)) =
               (HeldBy(slot[t]) \ Listed(Gives(proposals[i], t))) \cup Listed(Gets(proposals[i], t))
<1> DEFINE p == proposals[i]
           rest == Emptied(slot[t], Gives(p, t))
<1>1. rest \in TeamSlots /\ HeldBy(rest) = HeldBy(slot[t]) \ Listed(Gives(p, t))
  BY SwappedFacts
<1>2. Gets(p, t) \in Seq(Athletes)
  BY ProposalFacts
<1>3. Cardinality(FreeSlots(rest)) >= Len(Gets(p, t))
  <2>1. CASE t \in {p.proposer, p.recipient}
    BY <2>1 DEF Executable
  <2>2. CASE t \notin {p.proposer, p.recipient}
    <3>1. Len(Gets(p, t)) = 0
      BY <2>2 DEF Gets
    <3>2. FreeSlots(rest) \subseteq Slots
      BY DEF FreeSlots
    <3>3. Cardinality(FreeSlots(rest)) \in Nat
      BY <3>2, RosterAssumption, FS_Subset, FS_CardinalityType
    <3> QED BY <3>1, <3>3
  <2> QED BY <2>1, <2>2
<1> QED BY <1>1, <1>2, <1>3, FilledHolds DEF Swapped

\* What a proposal may be: two teams, two lists without a common athlete.
WellFormed(p) ==
    /\ p.proposer # p.recipient
    /\ Distinct(p.offered) /\ Distinct(p.requested)
    /\ Listed(p.offered) \cap Listed(p.requested) = {}

\* Athletes that are moved out and in again end up in one slot each.
LEMMA SwappedExclusive ==
    ASSUME TradesTypeOK, NEW i \in DOMAIN proposals, WellFormed(proposals[i]),
           Executable(proposals[i]), Exclusive(slot)
    PROVE  Exclusive([t \in Teams |-> Swapped(proposals[i], t)])
<1> DEFINE p == proposals[i]
<1>1. p.proposer \in Teams /\ p.recipient \in Teams /\ p.proposer # p.recipient
  BY ProposalFacts DEF WellFormed, Proposals, TradesTypeOK
<1>2. SUFFICES ASSUME NEW t \in Teams, NEW u \in Teams, NEW s \in Slots, NEW r \in Slots,
                      Swapped(p, t)[s] # NoAthlete, Swapped(p, t)[s] = Swapped(p, u)[r]
               PROVE  t = u /\ s = r
  BY DEF Exclusive
<1> DEFINE a == Swapped(p, t)[s]
           stays(v, q) == a = slot[v][q] /\ a \notin Listed(Gives(p, v))
           comes(v, q) == q \in FreeSlots(Emptied(slot[v], Gives(p, v))) /\ a \in Listed(Gets(p, v))
<1>3. (stays(t, s) \/ comes(t, s)) /\ (stays(u, r) \/ comes(u, r))
  BY <1>2, SwappedFacts
\* One who comes in was held by the other team, which gives him away.
<1>4. ASSUME NEW v \in Teams, a \in Listed(Gets(p, v))
      PROVE  \E w \in Teams, q \in Slots : slot[w][q] = a /\ a \in Listed(Gives(p, w))
  <2>1. v \in {p.proposer, p.recipient}
    BY <1>4 DEF Gets, Listed
  <2>2. PICK w \in {p.proposer, p.recipient} : Gets(p, v) = Gives(p, w)
    BY <1>1, <2>1 DEF Gets, Gives
  <2>3. a \in HeldBy(slot[w])
    BY <1>4, <2>2 DEF Executable
  <2> QED BY <1>1, <1>4, <2>2, <2>3 DEF HeldBy, Occupied
<1>5. ASSUME NEW v \in Teams, NEW w \in Teams, NEW q \in Slots, NEW x \in Slots,
             stays(v, q), comes(w, x)
      PROVE  FALSE
  <2>1. PICK g \in Teams, y \in Slots : slot[g][y] = a /\ a \in Listed(Gives(p, g))
    BY <1>4, <1>5
  <2>2. g = v
    BY <1>2, <1>5, <2>1 DEF Exclusive
  <2> QED BY <1>5, <2>1, <2>2
<1>6. CASE stays(t, s) /\ stays(u, r)
  <2>1. slot[t][s] # NoAthlete /\ slot[t][s] = slot[u][r]
    BY <1>2, <1>6
  <2> QED BY <2>1 DEF Exclusive
<1>7. CASE comes(t, s) /\ comes(u, r)
  <2>1. t = u
    <3>1. t \in {p.proposer, p.recipient} /\ u \in {p.proposer, p.recipient}
      BY <1>7 DEF Gets, Listed
    <3>2. Listed(Gets(p, p.proposer)) \cap Listed(Gets(p, p.recipient)) = {}
      BY <1>1 DEF WellFormed, Gets
    <3> QED BY <1>7, <3>1, <3>2
  <2>2. s = r
    <3> DEFINE rest == Emptied(slot[t], Gives(p, t))
    <3>1. rest \in TeamSlots /\ Gets(p, t) \in Seq(Athletes)
      BY SwappedFacts, ProposalFacts
    <3>2. Distinct(Gets(p, t))
      BY <1>1 DEF WellFormed, Gets, Distinct
    <3>3. Swapped(p, t) = Filled(rest, Gets(p, t))
      BY DEF Swapped
    <3>4. s \in FreeSlots(rest) /\ r \in FreeSlots(rest)
      BY <1>7, <2>1
    <3> HIDE DEF rest
    <3> QED BY <1>2, <2>1, <3>1, <3>2, <3>3, <3>4, FilledOnce
  <2> QED BY <2>1, <2>2
<1> HIDE DEF stays, comes, a
<1> QED BY <1>3, <1>5, <1>6, <1>7

\* The quota, which execute_trade only looks at for the roles that come in.
LEMMA SwappedQuota ==
    ASSUME TradesTypeOK, NEW i \in DOMAIN proposals, NEW t \in Teams,
           Executable(proposals[i]), RespectsQuota(slot[t])
    PROVE  RespectsQuota(Swapped(proposals[i], t))
<1> DEFINE p == proposals[i]
<1>1. SUFFICES ASSUME NEW r \in Roles
               PROVE  Cardinality(SlotsOfRole(Swapped(p, t), r)) <= Limit[r]
  BY DEF RespectsQuota
<1>2. CASE \E k \in DOMAIN Gets(p, t) : Role[Gets(p, t)[k]] = r
  <2>1. t \in {p.proposer, p.recipient}
    BY <1>2 DEF Gets
  <2> QED BY <1>2, <2>1 DEF Executable, SwapWithinQuota
<1>3. CASE \A k \in DOMAIN Gets(p, t) : Role[Gets(p, t)[k]] # r
  <2>1. SlotsOfRole(Swapped(p, t), r) \subseteq SlotsOfRole(slot[t], r)
    <3> SUFFICES ASSUME NEW s \in Slots, Swapped(p, t)[s] # NoAthlete, Role[Swapped(p, t)[s]] = r
                 PROVE  slot[t][s] # NoAthlete /\ Role[slot[t][s]] = r
      BY DEF SlotsOfRole, Occupied
    <3>1. Swapped(p, t)[s] \notin Listed(Gets(p, t))
      BY <1>3 DEF Listed
    <3>2. Swapped(p, t)[s] = slot[t][s]
      BY <3>1, SwappedFacts
    <3> QED BY <3>2
  <2>2. Cardinality(SlotsOfRole(Swapped(p, t), r)) <= Cardinality(SlotsOfRole(slot[t], r))
    BY <2>1, SlotsOfRoleFinite, FS_Subset
  <2>3. Cardinality(SlotsOfRole(slot[t], r)) <= Limit[r] /\ Limit[r] \in Nat
    BY RosterAssumption DEF RespectsQuota
  <2> QED BY <2>2, <2>3, SlotsOfRoleFinite
<1> QED BY <1>2, <1>3

-----------------------------------------------------------------------------
(* The inductive invariant *)

Executed == {i \in DOMAIN proposals : Done(proposals[i])}

\* The trades an account has booked are those that were carried out.
Booked == \A t \in Teams : TradeBookings(account[t]) = UNION {Promised(i, t) : i \in Executed}

\* Nothing here starts a job; every proposal is one that was validated.
TradesInv ==
    /\ TradesTypeOK /\ job = Idle
    /\ Exclusive(slot)
    /\ \A t \in Teams : RespectsQuota(slot[t]) /\ Sound(account[t])
    /\ \A i \in DOMAIN proposals : WellFormed(proposals[i])
    /\ Booked

\* What a proposal promises is on its own ids.
LEMMA PromisedTx ==
    ASSUME NEW i, NEW t, NEW x \in Promised(i, t)
    PROVE  x[1] \in {SentTx(i), ReceivedTx(i)}
<1>1. \A n : <<SentTx(i), n>>[1] = SentTx(i) /\ <<ReceivedTx(i), n>>[1] = ReceivedTx(i)
  OBVIOUS
<1> QED BY <1>1 DEF Promised

\* A proposal that has not been carried out has booked nothing.
LEMMA NotYetBooked ==
    ASSUME TradesInv, NEW i \in DOMAIN proposals, ~Done(proposals[i]), NEW t \in Teams
    PROVE  Fresh(i, t)
<1>1. account[t] \in Accounts /\ DOMAIN proposals \subseteq Nat
  BY DEF TradesInv, TradesTypeOK, TypeOK
<1>2. ASSUME NEW tx \in {SentTx(i), ReceivedTx(i)}, Posted(account[t], tx)
      PROVE  FALSE
  <2>1. PICK x \in Bookings(account[t]) : x[1] = tx
    BY <1>1, <1>2, PostedIsBooked
  <2>2. x \in TradeBookings(account[t])
    BY <1>1, <2>1, TradeTxs DEF TradeBookings, BookedUnder
  <2>3. PICK j \in Executed : x \in Promised(j, t)
    BY <2>2 DEF TradesInv, Booked
  <2>4. tx \in {SentTx(j), ReceivedTx(j)}
    BY <2>1, <2>3, PromisedTx
  <2>5. j = i
    BY <1>1, <2>4, TradeTxs DEF Executed
  <2> QED BY <2>5 DEF Executed
<1> QED BY <1>2 DEF Fresh

SameTerms(p, q) ==
    /\ p.proposer = q.proposer /\ p.recipient = q.recipient
    /\ p.offered = q.offered /\ p.requested = q.requested
    /\ p.give = q.give /\ p.take = q.take

TermsKept ==
    /\ proposals' \in Seq(Proposals)
    /\ \A i \in DOMAIN proposals : i \in DOMAIN proposals' /\ SameTerms(proposals'[i], proposals[i])

\* Proposals come and are decided, but none is carried out.
QuietStep ==
    /\ TermsKept
    /\ \A i \in DOMAIN proposals : Done(proposals'[i]) <=> Done(proposals[i])
    /\ \A i \in DOMAIN proposals' \ DOMAIN proposals :
          WellFormed(proposals'[i]) /\ ~Done(proposals'[i])

LEMMA DecideFacts ==
    ASSUME TradesTypeOK, NEW i \in DOMAIN proposals, NEW status \in TradeStatuses,
           Decide(i, status)
    PROVE  /\ TermsKept /\ DOMAIN proposals' = DOMAIN proposals
           /\ proposals'[i].status = status
           /\ \A j \in DOMAIN proposals : j # i => proposals'[j] = proposals[j]
<1>1. proposals \in Seq(Proposals) /\ proposals[i] \in Proposals
  BY DEF TradesTypeOK
<1>2. [proposals[i] EXCEPT !.status = status] \in Proposals
  BY <1>1 DEF Proposals
<1>3. proposals' = [proposals EXCEPT ![i] = [proposals[i] EXCEPT !.status = status]]
  BY DEF Decide
<1>4. proposals' \in Seq(Proposals)
  BY <1>1, <1>2, <1>3
<1>5. \A j \in DOMAIN proposals : SameTerms(proposals'[j], proposals[j])
  BY <1>1, <1>3 DEF SameTerms, Proposals
<1>6. proposals'[i].status = status
  BY <1>1, <1>3 DEF Proposals
<1> QED BY <1>1, <1>3, <1>4, <1>5, <1>6 DEF TermsKept

LEMMA ValidOffer ==
    ASSUME NEW t \in Teams, NEW u \in Teams, NEW offer \in Offers, NEW deadline \in Deadlines,
           NEW k \in Nat, Valid(t, u, offer)
    PROVE  LET p == Proposal(t, u, offer, deadline, k)
           IN  p \in Proposals /\ WellFormed(p) /\ ~Done(p)
<1>1. /\ offer.offered \in Seq(Athletes) /\ offer.requested \in Seq(Athletes)
      /\ offer.give \in Nat /\ offer.take \in Nat /\ deadline \in {"none", "ahead", "past"}
  BY TradesAssumption
<1>2. "proposed" \in TradeStatuses
  BY DEF TradeStatuses
<1>3. Proposal(t, u, offer, deadline, k) \in Proposals
  BY <1>1, <1>2 DEF Proposal, Proposals
<1>4. WellFormed(Proposal(t, u, offer, deadline, k))
  BY DEF Valid, WellFormed, Proposal
<1>5. ~Done(Proposal(t, u, offer, deadline, k))
  BY DEF Done, Proposal
<1> QED BY <1>3, <1>4, <1>5

LEMMA QuietSteps ==
    ASSUME TradesTypeOK, TradesNext, ~RosterStep,
           \A i \in DOMAIN proposals : ~AcceptProposal(i) /\ ~ApproveProposal(i)
    PROVE  QuietStep /\ UNCHANGED rosters
<1>1. proposals \in Seq(Proposals) /\ \A i \in DOMAIN proposals : i \in Nat /\ proposals[i] \in Proposals
  BY DEF TradesTypeOK
\* A decision other than an execution.
<1>2. ASSUME NEW i \in DOMAIN proposals, ~Done(proposals[i]),
             NEW status \in TradeStatuses \ {"accepted", "executed"}, Decide(i, status)
      PROVE  QuietStep
  <2>1. /\ TermsKept /\ DOMAIN proposals' = DOMAIN proposals
        /\ proposals'[i].status = status
        /\ \A j \in DOMAIN proposals : j # i => proposals'[j] = proposals[j]
    BY <1>2, DecideFacts
  <2>2. ~Done(proposals'[i])
    BY <1>2, <2>1 DEF Done
  <2> QED BY <1>2, <2>1, <2>2 DEF QuietStep
\* A proposal that is added after such a decision, or alone.
<1>3. ASSUME NEW old \in Seq(Proposals), NEW new \in Proposals, WellFormed(new), ~Done(new),
             DOMAIN old = DOMAIN proposals, proposals' = Append(old, new),
             \A i \in DOMAIN proposals : /\ SameTerms(old[i], proposals[i])
                                         /\ Done(old[i]) <=> Done(proposals[i])
      PROVE  QuietStep
  <2>1. proposals' \in Seq(Proposals)
    BY <1>3
  <2>2. \A i \in DOMAIN proposals : i \in DOMAIN proposals' /\ proposals'[i] = old[i]
    BY <1>1, <1>3
  <2>3. \A i \in DOMAIN proposals' \ DOMAIN proposals : proposals'[i] = new
    BY <1>1, <1>3
  <2> QED BY <1>3, <2>1, <2>2, <2>3 DEF QuietStep, TermsKept
<1>4. ASSUME NEW t \in Teams, NEW u \in Teams, NEW offer \in Offers, NEW deadline \in Deadlines,
             CreateProposal(t, u, offer, deadline)
      PROVE  QuietStep /\ UNCHANGED rosters
  <2> DEFINE new == Proposal(t, u, offer, deadline, 0)
  <2>1. new \in Proposals /\ WellFormed(new) /\ ~Done(new)
    BY <1>4, ValidOffer DEF CreateProposal
  <2>2. proposals' = Append(proposals, new) /\ UNCHANGED rosters
    BY <1>4 DEF CreateProposal
  <2>3. \A i \in DOMAIN proposals : SameTerms(proposals[i], proposals[i])
    BY DEF SameTerms
  <2> HIDE DEF new
  <2> QED BY <1>1, <1>3, <2>1, <2>2, <2>3
<1>5. ASSUME NEW i \in DOMAIN proposals, NEW offer \in Offers, NEW deadline \in Deadlines,
             CounterProposal(i, offer, deadline)
      PROVE  QuietStep /\ UNCHANGED rosters
  <2> DEFINE p == proposals[i]
             new == Proposal(p.recipient, p.proposer, offer, deadline, i)
             old == [proposals EXCEPT ![i] = [p EXCEPT !.status = "countered"]]
  <2>1. p \in Proposals /\ p.recipient \in Teams /\ p.proposer \in Teams /\ i \in Nat
    BY <1>1 DEF Proposals
  <2>2. new \in Proposals /\ WellFormed(new) /\ ~Done(new)
    BY <1>5, <2>1, ValidOffer DEF CounterProposal
  <2>3. proposals' = Append(old, new) /\ UNCHANGED rosters /\ Actionable(p)
    BY <1>5 DEF CounterProposal
  <2>4. [p EXCEPT !.status = "countered"] \in Proposals
    BY <2>1 DEF Proposals, TradeStatuses
  <2>5. old \in Seq(Proposals) /\ DOMAIN old = DOMAIN proposals
    BY <1>1, <2>4
  <2>6. ~Done(p) /\ ~Done(old[i])
    BY <1>1, <2>1, <2>3 DEF Done, Actionable, Proposals
  <2>7. \A j \in DOMAIN proposals : SameTerms(old[j], proposals[j])
    BY <1>1, <2>1 DEF SameTerms, Proposals
  <2>8. \A j \in DOMAIN proposals : Done(old[j]) <=> Done(proposals[j])
    BY <1>1, <2>6
  <2> HIDE DEF new, old
  <2> QED BY <1>3, <2>2, <2>3, <2>5, <2>7, <2>8
<1>6. ASSUME NEW i \in DOMAIN proposals, DecisionStep(i)
      PROVE  QuietStep /\ UNCHANGED rosters
  <2>1. ~Done(proposals[i])
    BY <1>6 DEF DecisionStep, Done, Actionable, Pending, CancelProposal, RejectProposal, PassDeadline,
                AcceptProposal, DeferToAdmin, ApproveProposal, RejectAdminProposal
  <2>2. CASE CancelProposal(i) \/ RejectProposal(i) \/ DeferToAdmin(i) \/ RejectAdminProposal(i)
    BY <1>2, <2>1, <2>2 DEF CancelProposal, RejectProposal, DeferToAdmin, RejectAdminProposal, TradeStatuses
  <2>3. CASE PassDeadline(i)
    <3>1. proposals' = [proposals EXCEPT ![i] = [proposals[i] EXCEPT !.deadline = "past"]]
      BY <2>3 DEF PassDeadline
    <3>2. proposals[i] \in Proposals /\ [proposals[i] EXCEPT !.deadline = "past"] \in Proposals
      BY <1>1 DEF Proposals
    <3>3. proposals' \in Seq(Proposals) /\ DOMAIN proposals' = DOMAIN proposals
      BY <1>1, <3>1, <3>2
    <3>4. \A j \in DOMAIN proposals : /\ SameTerms(proposals'[j], proposals[j])
                                      /\ proposals'[j].status = proposals[j].status
      BY <1>1, <3>1, <3>2 DEF SameTerms, Proposals
    <3> QED BY <2>3, <3>3, <3>4 DEF QuietStep, TermsKept, Done, PassDeadline
  <2> QED BY <1>6, <2>2, <2>3 DEF DecisionStep
<1> QED BY <1>4, <1>5, <1>6 DEF TradesNext

\* Roster handlers post under other ids, and leave the proposals alone.
LEMMA RosterSteps ==
    ASSUME TradesTypeOK, job = Idle, RosterStep
    PROVE  /\ StepOK /\ job' = job /\ proposals' = proposals
           /\ \A t \in Teams : TradeBookings(account'[t]) = TradeBookings(account[t])
<1>1. proposals' = proposals /\ TypeOK
  BY DEF RosterStep, TradesTypeOK
<1>2. TradePrefixes \cap RosterPrefixes = {}
  BY DEF TradePrefixes, RosterPrefixes
<1>3. ASSUME NEW t \in Teams, NEW id \in AdminIds, NEW amount \in AdminAmounts,
             AdminPostCreditMovement(t, id, amount)
      PROVE  StepOK /\ job' = job /\ SameBooked(TradePrefixes)
  BY <1>1, <1>2, <1>3, CreditSteps, RosterBooks DEF AdminPostCreditMovement
<1>4. ASSUME NEW t \in Teams, NEW s \in Slots, NEW a \in Athletes, NEW p \in Prices,
             AssignRequest(t, s, a, p)
      PROVE  StepOK /\ job' = job /\ SameBooked(TradePrefixes)
  <2>1. job' = job
    BY <1>4 DEF AssignRequest, AssignSlot, AssignSlotOverdrawn, AssignSlotDuplicate
  <2> QED BY <1>1, <1>2, <1>4, <2>1, AssignSteps, RosterBooks
<1>5. ASSUME NEW t \in Teams, NEW s \in Slots, ReleaseSlot(t, s)
      PROVE  StepOK /\ job' = job /\ SameBooked(TradePrefixes)
  BY <1>1, <1>2, <1>5, ReleaseSteps, RosterBooks DEF ReleaseSlot
<1> QED BY <1>1, <1>3, <1>4, <1>5 DEF RosterStep, SameBooked, TradeBookings

\* The tables after an execution.
LEMMA ExecutionSteps ==
    ASSUME TradesInv, NEW i \in DOMAIN proposals, ~Done(proposals[i]), ExecuteTrade(i)
    PROVE  /\ TypeOK' /\ job' = Idle /\ Exclusive(slot')
           /\ \A t \in Teams :
                 /\ RespectsQuota(slot'[t]) /\ Sound(account'[t])
                 /\ HeldBy(slot'[t]) = (HeldBy(slot[t]) \ Listed(Gives(proposals[i], t)))
                                           \cup Listed(Gets(proposals[i], t))
                 /\ account'[t].balance = account[t].balance + Net(proposals[i], t)
                 /\ Bookings(account'[t]) = Bookings(account[t]) \cup Promised(i, t)
<1> DEFINE p == proposals[i]
<1>1. TradesTypeOK /\ TypeOK /\ job = Idle /\ Exclusive(slot) /\ WellFormed(p) /\ Executable(p)
  BY DEF TradesInv, TradesTypeOK, ExecuteTrade
<1>2. /\ slot' = [t \in Teams |-> Swapped(p, t)] /\ account' = [t \in Teams |-> Settled(i, t)]
      /\ job' = job
  BY DEF ExecuteTrade
<1>3. \A t \in Teams : /\ Swapped(p, t) \in TeamSlots
                        /\ Settled(i, t) \in Accounts
                        /\ Settled(i, t).balance = account[t].balance + Net(p, t)
                        /\ Bookings(Settled(i, t)) = Bookings(account[t]) \cup Promised(i, t)
                        /\ Sound(Settled(i, t))
                        /\ RespectsQuota(Swapped(p, t))
  BY <1>1, NotYetBooked, SettledFacts, SwappedFacts, SwappedQuota DEF TradesInv
<1>4. /\ slot' \in [Teams -> TeamSlots] /\ account' \in [Teams -> Accounts]
  BY <1>2, <1>3
<1>5. paid' \in [Teams -> [Slots -> Nat]]
  BY <1>1 DEF ExecuteTrade, TypeOK
<1>6. active' \in [Teams -> TeamSlots]
  BY <1>1, <1>3 DEF ExecuteTrade, TypeOK, TeamSlots
<1>7. composition' \in [Teams -> {"incomplete", "validated", "invalid"}]
  BY <1>1 DEF ExecuteTrade, TypeOK, CompositionStatus
<1>8. TypeOK'
  BY <1>1, <1>4, <1>5, <1>6, <1>7 DEF ExecuteTrade, TypeOK
<1>9. Exclusive(slot')
  BY <1>1, <1>2, SwappedExclusive
<1> QED BY <1>1, <1>2, <1>3, <1>8, <1>9, SwappedHolds

\* Bookings of trades are bookings on the ids of trades.
LEMMA BookedForTrades ==
    ASSUME NEW i \in Nat, NEW t, NEW old, NEW new, Bookings(new) = Bookings(old) \cup Promised(i, t)
    PROVE  TradeBookings(new) = TradeBookings(old) \cup Promised(i, t)
<1>1. \A x \in Promised(i, t) : x[1][1] \in TradePrefixes
  BY PromisedTx, TradeTxs
<1> QED BY <1>1 DEF TradeBookings, BookedUnder

\* Promises depend on the terms of a proposal only.
LEMMA PromisesKept ==
    ASSUME TermsKept, NEW i \in DOMAIN proposals, NEW t
    PROVE  Promised(i, t)' = Promised(i, t)
BY DEF TermsKept, SameTerms, Promised, Sends, Receives, SentTx, ReceivedTx

LEMMA WellFormedKept ==
    ASSUME NEW p, NEW q, SameTerms(p, q), WellFormed(q)
    PROVE  WellFormed(p)
BY DEF SameTerms, WellFormed

\* An accepted or approved proposal is executed and recorded in one step.
Executes(i) == AcceptProposal(i) \/ ApproveProposal(i)

LEMMA ExecutesFacts ==
    ASSUME TradesTypeOK, NEW i \in DOMAIN proposals, Executes(i)
    PROVE  /\ ExecuteTrade(i) /\ ~Done(proposals[i]) /\ TermsKept
           /\ DOMAIN proposals' = DOMAIN proposals /\ Executed' = Executed \cup {i}
<1>1. ExecuteTrade(i) /\ ~Done(proposals[i])
  BY DEF Executes, AcceptProposal, ApproveProposal, Actionable, Pending, Done
<1>2. PICK status \in {"accepted", "executed"} : Decide(i, status)
  BY DEF Executes, AcceptProposal, ApproveProposal
<1>3. status \in TradeStatuses
  BY DEF TradeStatuses
<1>4. /\ TermsKept /\ DOMAIN proposals' = DOMAIN proposals
      /\ proposals'[i].status = status
      /\ \A j \in DOMAIN proposals : j # i => proposals'[j] = proposals[j]
  BY <1>2, <1>3, DecideFacts
<1>5. Executed' = Executed \cup {i}
  BY <1>4 DEF Executed, Done
<1> QED BY <1>1, <1>4, <1>5

LEMMA TradesInvStep ==
    ASSUME TradesInv, [TradesNext]_tradeVars
    PROVE  TradesInv'
<1>1. TradesTypeOK /\ TypeOK /\ job = Idle /\ \A i \in DOMAIN proposals : i \in Nat
  BY DEF TradesInv, TradesTypeOK
<1>2. CASE RosterStep
  <2>1. /\ StepOK /\ job' = job /\ proposals' = proposals
        /\ \A t \in Teams : TradeBookings(account'[t]) = TradeBookings(account[t])
    BY <1>1, <1>2, RosterSteps
  <2>2. TradesTypeOK' /\ job' = Idle
    BY <1>1, <2>1 DEF StepOK, TradesTypeOK
  <2>3. OwnerInv /\ QuotaInv /\ LedgerInv
    BY <1>1 DEF TradesInv, OwnerInv, QuotaInv, LedgerInv, Idle
  <2>4. OwnerInv' /\ QuotaInv' /\ LedgerInv'
    BY <1>1, <2>1, <2>3, OwnerStep, QuotaStep, LedgerStep
  <2>5. Exclusive(slot') /\ \A t \in Teams : RespectsQuota(slot'[t]) /\ Sound(account'[t])
    BY <2>4 DEF OwnerInv, QuotaInv, LedgerInv
  <2>6. Booked'
    <3>1. Executed' = Executed /\ \A i, t : Promised(i, t)' = Promised(i, t)
      BY <2>1 DEF Executed, Promised, Sends, Receives, SentTx, ReceivedTx
    <3> QED BY <2>1, <3>1 DEF TradesInv, Booked
  <2>7. \A i \in DOMAIN proposals' : WellFormed(proposals'[i])
    BY <2>1 DEF TradesInv
  <2> QED BY <2>2, <2>5, <2>6, <2>7 DEF TradesInv
<1>3. ASSUME NEW i \in DOMAIN proposals, Executes(i)
      PROVE  TradesInv'
  <2>1. /\ ExecuteTrade(i) /\ ~Done(proposals[i]) /\ TermsKept
        /\ DOMAIN proposals' = DOMAIN proposals /\ Executed' = Executed \cup {i}
    BY <1>1, <1>3, ExecutesFacts
  <2>2. /\ TypeOK' /\ job' = Idle /\ Exclusive(slot')
        /\ \A t \in Teams : RespectsQuota(slot'[t]) /\ Sound(account'[t])
        /\ \A t \in Teams : Bookings(account'[t]) = Bookings(account[t]) \cup Promised(i, t)
    BY <2>1, ExecutionSteps
  <2>3. TradesTypeOK'
    BY <2>1, <2>2 DEF TradesTypeOK, TermsKept
  <2>4. \A j \in DOMAIN proposals' : WellFormed(proposals'[j])
    BY <2>1, WellFormedKept DEF TradesInv, TermsKept
  <2>5. Booked'
    <3> SUFFICES ASSUME NEW t \in Teams
                 PROVE  TradeBookings(account'[t]) = UNION {Promised(j, t)' : j \in Executed'}
      BY DEF Booked
    <3>1. TradeBookings(account'[t]) = TradeBookings(account[t]) \cup Promised(i, t)
      BY <1>1, <2>2, BookedForTrades
    <3>2. \A j \in DOMAIN proposals : Promised(j, t)' = Promised(j, t)
      BY <2>1, PromisesKept
    <3>3. TradeBookings(account[t]) = UNION {Promised(j, t) : j \in Executed}
      BY DEF TradesInv, Booked
    <3>4. Executed \subseteq DOMAIN proposals
      BY DEF Executed
    <3> DEFINE P(j) == Promised(j, t)
               Q(j) == Promised(j, t)'
    <3>5. \A j \in DOMAIN proposals : Q(j) = P(j)
      BY <3>2
    <3>6. TradeBookings(account[t]) = UNION {P(j) : j \in Executed}
      BY <3>3
    <3>7. TradeBookings(account'[t]) = TradeBookings(account[t]) \cup P(i)
      BY <3>1
    <3> HIDE DEF P, Q
    <3>8. UNION {Q(j) : j \in Executed \cup {i}} = (UNION {P(j) : j \in Executed}) \cup P(i)
      <4>1. \A x : x \in UNION {Q(j) : j \in Executed \cup {i}} <=> \E j \in Executed \cup {i} : x \in Q(j)
        OBVIOUS
      <4>2. \A x : x \in UNION {P(j) : j \in Executed} <=> \E j \in Executed : x \in P(j)
        OBVIOUS
      <4> QED BY <3>4, <3>5, <4>1, <4>2
    <3>9. TradeBookings(account'[t]) = UNION {Q(j) : j \in Executed \cup {i}}
      BY <3>6, <3>7, <3>8
    <3> QED BY <2>1, <3>9 DEF Q
  <2> QED BY <2>2, <2>3, <2>4, <2>5 DEF TradesInv
<1>4. CASE /\ TradesNext /\ ~RosterStep
           /\ \A i \in DOMAIN proposals : ~AcceptProposal(i) /\ ~ApproveProposal(i)
  <2>1. QuietStep /\ UNCHANGED rosters
    BY <1>1, <1>4, QuietSteps
  <2>2. TypeOK' /\ job' = job /\ slot' = slot /\ account' = account
    BY <1>1, <2>1 DEF rosters, TypeOK
  <2>3. TradesTypeOK' /\ Exclusive(slot') /\ \A t \in Teams : RespectsQuota(slot'[t]) /\ Sound(account'[t])
    BY <2>1, <2>2 DEF TradesInv, TradesTypeOK, QuietStep, TermsKept
  <2>4. \A j \in DOMAIN proposals' : WellFormed(proposals'[j])
    BY <2>1, WellFormedKept DEF TradesInv, QuietStep, TermsKept
  <2>5. Executed' = Executed
    BY <2>1 DEF Executed, QuietStep, TermsKept
  <2>6. \A t \in Teams, j \in Executed : Promised(j, t)' = Promised(j, t)
    BY <2>1, PromisesKept DEF QuietStep, Executed
  <2>7. Booked'
    BY <2>2, <2>5, <2>6 DEF TradesInv, Booked
  <2> QED BY <1>1, <2>2, <2>3, <2>4, <2>7 DEF TradesInv
<1>5. CASE UNCHANGED tradeVars
  <2>1. /\ proposals' = proposals /\ slot' = slot /\ account' = account /\ job' = job
        /\ TypeOK'
    BY <1>1, <1>5 DEF tradeVars, rosters, TypeOK
  <2>2. Booked'
    BY <2>1 DEF TradesInv, Booked, Executed, Promised, Sends, Receives, SentTx, ReceivedTx
  <2> QED BY <2>1, <2>2 DEF TradesInv, TradesTypeOK
<1> QED BY <1>2, <1>3, <1>4, <1>5 DEF Executes

LEMMA TradesInvInit ==
    ASSUME TradesInit
    PROVE  TradesInv
<1>1. TypeOK
  <2>1. composition \in [Teams -> {"incomplete", "validated", "invalid"}]
    BY DEF TradesInit, CompositionStatus
  <2>2. draft \in [status : {"none", "draft", "confirmed"}, rows : Seq(Rows)]
    BY DEF TradesInit
  <2> QED BY <2>1, <2>2, OpenAccountFacts, BlankType DEF TradesInit, TypeOK, Tables
<1>2. proposals \in Seq(Proposals) /\ DOMAIN proposals = {}
  BY DEF TradesInit
<1>3. \A t \in Teams : Sound(account[t])
  BY OpenAccountFacts DEF TradesInit, Sound
<1>4. Booked
  <2> SUFFICES ASSUME NEW t \in Teams PROVE TradeBookings(OpenAccount(TotalCredits)) = {}
    BY <1>2 DEF Booked, Executed, TradesInit
  <2>1. "initial" \notin TradePrefixes
    BY DEF TradePrefixes
  <2> QED BY <2>1, OpenBooksNothing DEF TradeBookings
<1> QED BY <1>1, <1>2, <1>3, <1>4 DEF TradesInv, TradesTypeOK, TradesInit

-----------------------------------------------------------------------------
(* Theorems *)

(* Proposals, rosters and credits are well typed: no trade overdraws an    *)
(* account, however long after its proposal it is executed.                *)
THEOREM TradesTypeCorrect == TradesSpec => []TradesTypeOK
<1>1. TradesInv => TradesTypeOK
  BY DEF TradesInv
<1> QED BY <1>1, TradesInvInit, TradesInvStep, PTL DEF TradesSpec

(* No athlete is on two rosters, whatever trades compete for him and       *)
(* whatever the rosters do between proposal and execution.                 *)
THEOREM TradesExclusivity == TradesSpec => []OneOwner
<1>1. TradesInv => OneOwner
  BY DEF TradesInv, OneOwner
<1> QED BY <1>1, TradesInvInit, TradesInvStep, PTL DEF TradesSpec

(* A trade brings no roster over the limit of a role, although only the    *)
(* roles of the incoming athletes are counted.                             *)
THEOREM TradesQuotaKept == TradesSpec => []QuotaRespected
<1>1. TradesInv => QuotaRespected
  BY DEF TradesInv, QuotaRespected
<1> QED BY <1>1, TradesInvInit, TradesInvStep, PTL DEF TradesSpec

(* With trades, every account is still the sum of its ledger.              *)
THEOREM TradesLedgerSound == TradesSpec => []LedgerChain
<1>1. TradesInv => LedgerChain
  BY DEF TradesInv, LedgerChain, Sound
<1> QED BY <1>1, TradesInvInit, TradesInvStep, PTL DEF TradesSpec

(* The ledgers know exactly the proposals that were carried out, each      *)
(* once and with its amounts, on both sides.                               *)
THEOREM CreditsFollow == TradesSpec => []CreditsFollowTrades
<1>1. ASSUME TradesInv
      PROVE  CreditsFollowTrades
  <2> SUFFICES ASSUME NEW i \in DOMAIN proposals, NEW t \in Teams
               PROVE  PostedBy(i, t) = IF Done(proposals[i]) THEN Promised(i, t) ELSE {}
    BY DEF CreditsFollowTrades
  <2>1. i \in Nat /\ Executed \subseteq Nat
    BY <1>1 DEF TradesInv, TradesTypeOK, Executed
  <2> DEFINE acc == account[t]
             booking(e) == <<e.tx, e.amount>>
             own == {SentTx(i), ReceivedTx(i)}
  <2>2. \A e : booking(e)[1] = e.tx
    OBVIOUS
  <2>3. PostedBy(i, t) = {booking(acc.entries[k]) : k \in {j \in DOMAIN acc.entries : acc.entries[j].tx \in own}}
    BY DEF PostedBy
  <2>4. Bookings(acc) = {booking(acc.entries[k]) : k \in DOMAIN acc.entries}
    BY DEF Bookings
  <2> HIDE DEF booking
  <2>5. PostedBy(i, t) = {x \in Bookings(acc) : x[1] \in own}
    BY <2>2, <2>3, <2>4
  <2>6. PostedBy(i, t) = {x \in TradeBookings(acc) : x[1] \in own}
    BY <2>1, <2>5, TradeTxs DEF TradeBookings, BookedUnder
  <2>7. TradeBookings(acc) = UNION {Promised(j, t) : j \in Executed}
    BY <1>1 DEF TradesInv, Booked
  <2>8. \A j \in Executed : \A x \in Promised(j, t) : x[1] \in own => j = i
    BY <2>1, PromisedTx, TradeTxs
  <2>9. \A x \in Promised(i, t) : x[1] \in own
    BY PromisedTx
  <2>10. i \in Executed <=> Done(proposals[i])
    BY DEF Executed
  <2> HIDE DEF own, acc
  <2>11. PostedBy(i, t) = IF i \in Executed THEN Promised(i, t) ELSE {}
    BY <2>6, <2>7, <2>8, <2>9
  <2> QED BY <2>10, <2>11
<1> QED BY <1>1, TradesInvInit, TradesInvStep, PTL DEF TradesSpec

(* A trade is carried out entirely and as proposed: every team loses what  *)
(* it gives, gets what was promised, keeps the others and pays the         *)
(* difference, in the step that records it.                                *)
THEOREM TradesHappenAsProposed == TradesSpec => TradesAsProposed
<1> DEFINE Kept == \A i \in DOMAIN proposals :
                      ~Done(proposals[i]) /\ Done(proposals'[i]) =>
                        \A t \in Teams :
                          /\ HeldBy(slot'[t]) = (HeldBy(slot[t]) \ Listed(Gives(proposals[i], t)))
                                                    \cup Listed(Gets(proposals[i], t))
                          /\ account'[t].balance = account[t].balance + Net(proposals[i], t)
<1>1. ASSUME TradesInv, [TradesNext]_tradeVars
      PROVE  [Kept]_tradeVars
  <2>1. TradesTypeOK /\ job = Idle
    BY <1>1 DEF TradesInv
  <2>2. CASE UNCHANGED tradeVars
    BY <2>2
  <2>3. CASE RosterStep
    BY <2>1, <2>3, RosterSteps
  <2>4. CASE /\ TradesNext /\ ~RosterStep
             /\ \A i \in DOMAIN proposals : ~AcceptProposal(i) /\ ~ApproveProposal(i)
    BY <2>1, <2>4, QuietSteps DEF QuietStep
  <2>5. ASSUME NEW i \in DOMAIN proposals, Executes(i)
        PROVE  Kept
    <3>1. /\ ExecuteTrade(i) /\ ~Done(proposals[i])
          /\ DOMAIN proposals' = DOMAIN proposals /\ Executed' = Executed \cup {i}
      BY <2>1, <2>5, ExecutesFacts
    <3>2. \A j \in DOMAIN proposals : ~Done(proposals[j]) /\ Done(proposals'[j]) => j = i
      BY <3>1 DEF Executed
    <3>3. \A t \in Teams :
             /\ HeldBy(slot'[t]) = (HeldBy(slot[t]) \ Listed(Gives(proposals[i], t)))
                                       \cup Listed(Gets(proposals[i], t))
             /\ account'[t].balance = account[t].balance + Net(proposals[i], t)
      BY <1>1, <3>1, ExecutionSteps
    <3> QED BY <3>2, <3>3
  <2> QED BY <1>1, <2>2, <2>3, <2>4, <2>5 DEF Executes
<1>2. TradesInv /\ [TradesNext]_tradeVars => [Kept]_tradeVars
  BY <1>1
<1>3. TradesSpec => [][Kept]_tradeVars
  BY <1>2, TradesInvInit, TradesInvStep, PTL DEF TradesSpec
<1> QED BY <1>3 DEF TradesAsProposed
=============================================================================
