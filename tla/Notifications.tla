---------------------------- MODULE Notifications ----------------------------
(***************************************************************************)
(* The producers of notifications: the broadcasts of the operators, sent   *)
(* at once or by a periodic job, and the reminders before the cut-off of a *)
(* turn (notifications).                                                   *)
(*                                                                         *)
(* Two tasks may run at a time, each in one transaction.  A notification   *)
(* is the key <<source, user>>, unique in its table; its push is handed to *)
(* the queue while the transaction is still open, so that it goes out even *)
(* if the transaction is rolled back.                                      *)
(***************************************************************************)
EXTENDS Integers, FiniteSets

CONSTANTS
  Users,         \* the audience of every broadcast, and the teams of the turn
  Muted,         \* users who switched the category off
  Pushable,      \* users with a device, push switched on and no quiet hours
  Broadcasts,
  Reminder,      \* source of the reminders of the turn
  Workers,
  MaxCrashes,    \* bound: transactions that die
  MaxFailures    \* bound: deliveries that raise

ASSUME NotificationsAssumption ==
  /\ IsFiniteSet(Users) /\ Muted \subseteq Users /\ Pushable \subseteq Users
  /\ Reminder \notin Broadcasts /\ MaxCrashes \in Nat /\ MaxFailures \in Nat

VARIABLES
  status,      \* status[b]: committed status of broadcast b
  due,         \* due[b]: its time has come
  rows,        \* committed notifications
  pushes,      \* pushes[k]: pushes queued for k since it was last rolled back
  open,        \* open[w]: the transaction of worker w
  cancelling,  \* broadcasts an operator found scheduled and is cancelling
  crashes, failures

notificationsVars ==
  <<status, due, rows, pushes, open, cancelling, crashes, failures>>

Sources == Broadcasts \cup {Reminder}
Keys == Sources \X Users
Idle == [taken |-> {}, failed |-> {}, todo |-> {}, written |-> {}]

Busy(w) == open[w].taken # {}
Locked(b) == \E w \in Workers : b \in open[w].taken

\* A mutant of Known.
KnownOwn(w) == open[w].written

\* What a transaction sees: the committed rows and its own.
Known(w) == rows \cup open[w].written

\* A mutant of Outcome.
OutcomeSending(b, failed) == IF b \in failed THEN "sending" ELSE "sent"
\* A mutant of Outcome.
OutcomeSent(b, failed) == "sent"

\* The status a broadcast is left in.
Outcome(b, failed) == IF b \in failed THEN "scheduled" ELSE "sent"

(***************************************************************************)
(* Transactions                                                            *)
(***************************************************************************)
UnchangedFaults == UNCHANGED <<crashes, failures>>

Begin(w, sources, keys) ==
  /\ ~Busy(w) /\ sources # {}
  /\ open' = [open EXCEPT ![w] = [Idle EXCEPT !.taken = sources, !.todo = keys]]
  /\ UNCHANGED <<rows, pushes, cancelling>> /\ UnchangedFaults

\* create_notification: a key another transaction has written is waited for.
Notify(w, k) ==
  /\ k \in open[w].todo
  /\ k \notin Known(w) => \A v \in Workers \ {w} : k \notin open[v].written
  /\ LET new == k \notin Known(w) /\ k[2] \notin Muted
     IN /\ open' = [open EXCEPT ![w].todo = @ \ {k}, ![w].written = IF new THEN @ \cup {k} ELSE @]
        /\ pushes' = [pushes EXCEPT ![k] = IF new /\ k[2] \in Pushable THEN @ + 1 ELSE @]
  /\ UNCHANGED <<status, due, rows, cancelling>> /\ UnchangedFaults

Commit(w) ==
  /\ Busy(w) /\ open[w].todo = {}
  /\ rows' = rows \cup open[w].written
  /\ status' = [b \in Broadcasts |-> IF b \in open[w].taken THEN Outcome(b, open[w].failed) ELSE status[b]]
  /\ open' = [open EXCEPT ![w] = Idle]
  /\ UNCHANGED <<due, pushes, cancelling>> /\ UnchangedFaults

Rollback(w) ==
  /\ pushes' = [k \in Keys |-> IF k \in open[w].written THEN 0 ELSE pushes[k]]
  /\ open' = [open EXCEPT ![w] = Idle]
  /\ UNCHANGED <<status, due, rows, cancelling>>

Crash(w) ==
  /\ Busy(w) /\ crashes < MaxCrashes /\ crashes' = crashes + 1
  /\ Rollback(w) /\ UNCHANGED failures

\* Two transactions wait for each other's keys: the database ends one.
DeadlockEnds(w) ==
  /\ \E v \in Workers \ {w} : /\ open[w].todo \cap open[v].written # {}
                               /\ open[v].todo \cap open[w].written # {}
  /\ Rollback(w) /\ UnchangedFaults

(***************************************************************************)
(* Broadcasts                                                              *)
(***************************************************************************)
\* Sent at once, in the request of the operator.
CreateBroadcast(w, b) ==
  /\ status[b] = "none" /\ ~Locked(b)
  /\ Begin(w, {b}, {b} \X Users)
  /\ UNCHANGED <<status, due>>

ScheduleBroadcast(b) ==
  /\ status[b] = "none" /\ ~Locked(b)
  /\ status' = [status EXCEPT ![b] = "scheduled"]
  /\ UNCHANGED <<due, rows, pushes, open, cancelling>> /\ UnchangedFaults

TimeComes(b) ==
  /\ status[b] = "scheduled" /\ ~due[b]
  /\ due' = [due EXCEPT ![b] = TRUE]
  /\ UNCHANGED <<status, rows, pushes, open, cancelling>> /\ UnchangedFaults

\* A mutant of Due.
DueAnyway(b) == due[b] /\ status[b] # "sent" /\ ~Locked(b)

\* FOR UPDATE SKIP LOCKED.
Due(b) == due[b] /\ status[b] = "scheduled" /\ ~Locked(b)

DispatchDue(w) ==
  LET taken == {b \in Broadcasts : Due(b)}
  IN Begin(w, taken, taken \X Users) /\ UNCHANGED <<status, due>>

\* A delivery raises: the job puts the broadcast back and keeps what it wrote,
\* a request is rolled back.
DeliveryRaises(w, b) ==
  /\ failures < MaxFailures /\ failures' = failures + 1
  /\ b \in open[w].taken \cap Broadcasts /\ open[w].todo \cap ({b} \X Users) # {}
  /\ IF status[b] = "none"
     THEN Rollback(w)
     ELSE /\ open' = [open EXCEPT ![w].todo = @ \ ({b} \X Users), ![w].failed = @ \cup {b}]
          /\ UNCHANGED <<status, due, rows, pushes, cancelling>>
  /\ UNCHANGED crashes

\* cancel_scheduled reads without a lock and writes when the row is free.
CancelReads(b) ==
  /\ status[b] = "scheduled" /\ b \notin cancelling
  /\ cancelling' = cancelling \cup {b}
  /\ UNCHANGED <<status, due, rows, pushes, open>> /\ UnchangedFaults

CancelWrites(b) ==
  /\ b \in cancelling /\ ~Locked(b)
  /\ cancelling' = cancelling \ {b}
  /\ status' = [status EXCEPT ![b] = "cancelled"]
  /\ UNCHANGED <<due, rows, pushes, open>> /\ UnchangedFaults

(***************************************************************************)
(* Reminders                                                               *)
(***************************************************************************)
\* Every beat reminds the teams without a line-up, whoever they are by then:
\* the beats of two workers may overlap.
SendReminders(w) ==
  /\ \E pending \in SUBSET Users : Begin(w, {Reminder}, {Reminder} \X pending)
  /\ UNCHANGED <<status, due>>

(***************************************************************************)
(* Specification                                                           *)
(***************************************************************************)
NotificationsInit ==
  /\ status = [b \in Broadcasts |-> "none"] /\ due = [b \in Broadcasts |-> FALSE]
  /\ rows = {} /\ pushes = [k \in Keys |-> 0]
  /\ open = [w \in Workers |-> Idle]
  /\ cancelling = {} /\ crashes = 0 /\ failures = 0

TaskNext(w) ==
  \/ Commit(w) \/ Crash(w) \/ DeadlockEnds(w) \/ DispatchDue(w) \/ SendReminders(w)
  \/ \E k \in Keys : Notify(w, k)
  \/ \E b \in Broadcasts : CreateBroadcast(w, b) \/ DeliveryRaises(w, b)

OperatorNext == \E b \in Broadcasts : ScheduleBroadcast(b) \/ TimeComes(b) \/ CancelReads(b) \/ CancelWrites(b)

NotificationsNext ==
  \/ \E w \in Workers : TaskNext(w)
  \/ OperatorNext

\* A task that runs goes on, the database breaks deadlocks, and the queue is
\* served in its order: the job runs however often the workers are taken.
Goes(w) == Commit(w) \/ DeadlockEnds(w) \/ \E k \in Keys : Notify(w, k)

NotificationsSpec ==
  /\ NotificationsInit /\ [][NotificationsNext]_notificationsVars
  /\ \A w \in Workers : WF_notificationsVars(Goes(w))
  /\ SF_notificationsVars(\E w \in Workers : DispatchDue(w))

(***************************************************************************)
(* Properties                                                              *)
(***************************************************************************)
\* A broadcast that is sent has notified its whole audience, except those who
\* switched the category off, also when deliveries raised half way and were
\* made again by another worker (deliver, dispatch_due).
SentReachesAll ==
  \A b \in Broadcasts : status[b] = "sent" => {b} \X (Users \ Muted) \subseteq rows

\* A notification is pushed again only if the transaction that wrote it was
\* rolled back: not by a delivery made again, an overlapping beat or a
\* broadcast found twice (create_notification).
PushedOncePerRow == \A k \in Keys : pushes[k] <= 1

\* Once a cancellation is committed nobody is notified any more, whoever was
\* dispatching while the operator cancelled (dispatch_due, cancel_scheduled).
CancelledIsQuiet ==
  [][\A b \in Broadcasts : status[b] = "cancelled" =>
       /\ \A u \in Users : <<b, u>> \in rows' => <<b, u>> \in rows
       /\ \A u \in Users : pushes'[<<b, u>>] = pushes[<<b, u>>]]_notificationsVars

\* A scheduled broadcast whose time has come is sent or cancelled in the end,
\* whatever transactions die and whatever deliveries raise.
DueIsSettled ==
  \A b \in Broadcasts : (status[b] = "scheduled" /\ due[b]) ~> status[b] \in {"sent", "cancelled"}

=============================================================================
