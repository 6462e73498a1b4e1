----------------------------- MODULE MailIntake -----------------------------
(***************************************************************************)
(* Tickets from e-mail: the worker asks the IMAP server of each mailbox for*)
(* the first unread messages, files each one in a transaction of its own,  *)
(* and marks it read afterwards.  The server keeps the flag, the database  *)
(* the rows: between the two stand failed calls and crashes.  Parsing is   *)
(* abstracted to what a message is (Automatic, Refs, Token); the IMAP      *)
(* server is external.                                                     *)
(***************************************************************************)
EXTENDS Integers, Sequences, SequencesExt, FiniteSetsExt

CONSTANTS
    Mails,         \* messages, each in one mailbox
    Boxes,         \* active mailboxes, of one tenant
    BoxOf,
    IdOf,          \* the Message-ID, or the digest of the content; copies share it
    SenderOf,
    Refs,          \* the Message-IDs in In-Reply-To and References
    Token,         \* the tickets whose number is in the subject (at most one)
    Automatic,     \* automatic messages, and those without a sender
    Manual,        \* tickets agents have created: they have no mailbox
    Limit,         \* messages per poll
    RateLimit,     \* messages per sender and window
    MaxFaults,     \* bound: failed calls and crashes
    MaxChanges     \* bound: changes of the configuration, new windows, solved tickets

Ids == {IdOf[m] : m \in Mails}
Senders == {SenderOf[m] : m \in Mails}
\* A ticket opened by a message is named by the message and its mailbox.
Tickets == (Ids \X Boxes) \cup Manual

VARIABLES
    inbox,      \* what has arrived in each mailbox, oldest first
    seen,       \* messages with the \Seen flag
    filed,      \* filed[m][t]: client_ticket_message rows made of message m in ticket t
    status,     \* client_ticket.status, "none" when there is no such ticket
    known,      \* [contacts, count]: client_contact and route_rate_limit_window rows
    session,    \* the same with what the worker's session has flushed
    org,        \* mailboxes for which an organization can be found
    team,       \* whether the tenant has a client support team
    pc,         \* where the worker is
    left,       \* mailboxes the pass has still to poll
    list,       \* messages of the poll, the first in work
    plan,       \* the ticket the message in work goes to, and its new status
    dropped,    \* messages dropped on purpose
    faults, changes

vars == <<inbox, seen, filed, status, known, session, org, team, pc, left, list, plan, dropped, faults, changes>>
worker == <<session, pc, left, list, plan>>

\* A message with that Message-ID is in the ticket.
Holds(t, i) == \E m \in Mails : IdOf[m] = i /\ filed[m][t] > 0
MailboxIs(t, b) == t \notin Manual /\ t[2] = b
NoPlan == [ticket |-> <<>>, status |-> "none"]

Init ==
    /\ inbox = [b \in Boxes |-> <<>>] /\ seen = {}
    /\ filed = [m \in Mails |-> [t \in Tickets |-> 0]]
    /\ status = [t \in Tickets |-> IF t \in Manual THEN "Open" ELSE "none"]
    /\ known = [contacts |-> {}, count |-> [s \in Senders |-> 0]]
    /\ session = known
    /\ org = Boxes /\ team = TRUE
    /\ pc = "boxes" /\ left = {} /\ list = <<>> /\ plan = NoPlan
    /\ dropped = {} /\ faults = 0 /\ changes = 0

-----------------------------------------------------------------------------
\* The world outside of the worker.
Arrive(m) ==
    /\ m \notin ToSet(inbox[BoxOf[m]])
    /\ inbox' = [inbox EXCEPT ![BoxOf[m]] = Append(@, m)]
    /\ UNCHANGED <<seen, filed, status, known, org, team, dropped, faults, changes, worker>>

\* The page of the ticket sets it Solved.
Solve(t) ==
    /\ status[t] \notin {"none", "Solved"}
    /\ status' = [status EXCEPT ![t] = "Solved"]
    /\ UNCHANGED <<inbox, seen, filed, known, org, team, dropped, faults, worker>>

\* An administrator takes away or gives the organization of a mailbox, or the
\* team; a new window of the rate limit begins.
Configure ==
    /\ \/ \E b \in Boxes : org' = SymDiff(org, {b}) /\ UNCHANGED <<team, known, session>>
       \/ team' = ~team /\ UNCHANGED <<org, known, session>>
       \/ /\ known' = [known EXCEPT !.count = [s \in Senders |-> 0]]
          /\ session' = [session EXCEPT !.count = [s \in Senders |-> 0]]
          /\ UNCHANGED <<org, team>>
    /\ UNCHANGED <<inbox, seen, filed, status, pc, left, list, plan, dropped, faults>>

-----------------------------------------------------------------------------
\* process_client_email_inbox: the active mailboxes, one after the other.
StartPass ==
    /\ pc = "boxes" /\ left = {}
    /\ left' = Boxes
    /\ UNCHANGED <<inbox, seen, filed, status, known, session, org, team, pc, list, plan, dropped, faults, changes>>

Unseen(b) == SelectSeq(inbox[b], LAMBDA m : m \notin seen)
FirstOf(s) == SubSeq(s, 1, Min({Limit, Len(s)}))

\* _poll_client_mailbox: the first unread messages.
Poll(b) ==
    /\ pc = "boxes" /\ b \in left
    /\ left' = left \ {b}
    /\ list' = FirstOf(Unseen(b)) /\ pc' = "next"
    /\ UNCHANGED <<inbox, seen, filed, status, known, session, org, team, plan, dropped, faults, changes>>

\* The mailbox cannot be opened or searched: it is left for this pass.
PollFails(b) ==
    /\ pc = "boxes" /\ b \in left
    /\ left' = left \ {b}
    /\ UNCHANGED <<inbox, seen, filed, status, known, session, org, team, pc, list, plan, dropped, changes>>

\* The plausible mistake: only the message that opened a ticket is recognized.
OpenedBy(m) == status[<<IdOf[m], BoxOf[m]>>] # "none"
\* The message is already in a ticket of its mailbox.
Existing(m) == \E t \in Tickets : MailboxIs(t, BoxOf[m]) /\ Holds(t, IdOf[m])

\* _match_existing_client_ticket: by the headers, else by the subject.
Threads(m) == {t \in Tickets : \E i \in Refs[m] : Holds(t, i)}
Matching(m) == IF Threads(m) # {} THEN Threads(m) ELSE {t \in Token[m] : status[t] # "none"}

\* route_rate_limit: one more message of the sender in this window.
Counted(m) == [session EXCEPT !.count[SenderOf[m]] = @ + 1]

NextMail == list' = Tail(list) /\ pc' = "next" /\ plan' = NoPlan

\* The message is dropped on purpose; it will be marked read.
Drop(m) == dropped' = dropped \cup {m} /\ pc' = "acknowledge" /\ UNCHANGED <<list, plan>>

\* _create_client_ticket_from_email: the contact is flushed, and stays so when
\* there is no team; without an organization or a team the message is left.
CreateTicket(m, counted) ==
    LET s == SenderOf[m]
        contact == s \in counted.contacts \/ BoxOf[m] \in org
    IN /\ session' = IF contact THEN [counted EXCEPT !.contacts = @ \cup {s}] ELSE counted
       /\ IF contact /\ team
          THEN plan' = [ticket |-> <<IdOf[m], BoxOf[m]>>, status |-> "New"] /\ pc' = "file" /\ UNCHANGED list
          ELSE NextMail
       /\ UNCHANGED <<known, dropped>>

\* A message of a ticket that was solved opens it again.
Reply(t, counted) ==
    /\ session' = counted
    /\ plan' = [ticket |-> t, status |-> IF status[t] = "Solved" THEN "Open" ELSE "none"]
    /\ pc' = "file"
    /\ UNCHANGED <<known, list, dropped>>

\* _process_one_inbound_email, up to what it will write.
Process ==
    /\ pc = "next" /\ list # <<>>
    /\ LET m == Head(list)
           counted == Counted(m)
       IN \/ m \in Automatic /\ Drop(m) /\ UNCHANGED <<known, session>>
          \/ /\ m \notin Automatic /\ Existing(m)
             /\ pc' = "acknowledge"
             /\ UNCHANGED <<known, session, list, plan, dropped>>
          \/ /\ m \notin Automatic /\ ~Existing(m)
             /\ \/ /\ counted.count[SenderOf[m]] > RateLimit
                   /\ Drop(m) /\ known' = counted /\ session' = counted
                \/ /\ counted.count[SenderOf[m]] <= RateLimit
                   /\ \/ Matching(m) = {} /\ CreateTicket(m, counted)
                      \/ \E t \in Matching(m) : Reply(t, counted)
    /\ UNCHANGED <<inbox, seen, filed, status, org, team, left, faults, changes>>

\* The message, its ticket and whatever the session has flushed are committed.
File ==
    /\ pc = "file"
    /\ filed' = [filed EXCEPT ![Head(list)][plan.ticket] = @ + 1]
    /\ status' = [status EXCEPT ![plan.ticket] = IF plan.status = "none" THEN @ ELSE plan.status]
    /\ known' = session
    /\ pc' = "acknowledge"
    /\ UNCHANGED <<inbox, seen, session, org, team, left, list, plan, dropped, faults, changes>>

\* _acknowledge_inbound_email.
Acknowledge ==
    /\ pc = "acknowledge"
    /\ seen' = seen \cup {Head(list)}
    /\ NextMail
    /\ UNCHANGED <<inbox, filed, status, known, session, org, team, left, dropped, faults, changes>>

\* The end of a poll commits what undeliverable messages have left flushed.
EndPoll ==
    /\ pc = "next" /\ list = <<>>
    /\ known' = session
    /\ pc' = "boxes"
    /\ UNCHANGED <<inbox, seen, filed, status, session, org, team, left, list, plan, dropped, faults, changes>>

\* The server does not hand out a message: it is passed over.
FetchFails ==
    /\ pc = "next" /\ list # <<>>
    /\ NextMail
    /\ UNCHANGED <<inbox, seen, filed, status, known, session, org, team, left, dropped, changes>>

\* An exception, before the commit or by the acknowledgement: rollback.
Raise ==
    /\ pc \in {"next", "file", "acknowledge"} /\ list # <<>>
    /\ session' = known
    /\ NextMail
    /\ UNCHANGED <<inbox, seen, filed, status, known, org, team, left, dropped, changes>>

\* The worker dies and is started again.
Crash ==
    /\ pc # "boxes" \/ left # {}
    /\ session' = known /\ pc' = "boxes" /\ left' = {} /\ list' = <<>> /\ plan' = NoPlan
    /\ UNCHANGED <<inbox, seen, filed, status, known, org, team, dropped, changes>>

-----------------------------------------------------------------------------
Work ==
    \/ StartPass \/ Process \/ File \/ Acknowledge \/ EndPoll
    \/ \E b \in Boxes : Poll(b)

Fault ==
    /\ faults < MaxFaults /\ faults' = faults + 1
    /\ FetchFails \/ Raise \/ Crash \/ \E b \in Boxes : PollFails(b)

Change ==
    /\ changes < MaxChanges /\ changes' = changes + 1
    /\ Configure \/ \E t \in Tickets : Solve(t)

Next == Work \/ Fault \/ Change \/ \E m \in Mails : Arrive(m)

Spec == Init /\ [][Next]_vars

\* The loop of outbox_worker.py polls again and again; windows are longer than
\* the polls it takes to reach the limit of one (their changes are bounded).
Fairness == WF_vars(Work)

-----------------------------------------------------------------------------
TypeOK ==
    /\ seen \cup dropped \subseteq Mails
    /\ \A b \in Boxes : ToSet(inbox[b]) \subseteq {m \in Mails : BoxOf[m] = b}
    /\ status \in [Tickets -> {"none", "New", "Open", "Solved"}]
    /\ pc \in {"boxes", "next", "file", "acknowledge"}
    /\ plan.ticket \in Tickets \cup {<<>>}

\* How often the message, or a copy of it, was filed from mailbox b in its tickets.
Rows(i, b) ==
    LET copies == {m \in Mails : IdOf[m] = i /\ BoxOf[m] = b}
    IN MapThenSumSet(LAMBDA x : filed[x[1]][x[2]], copies \X {t \in Tickets : MailboxIs(t, b)})

(* "It is marked read only once it has been saved, or deliberately dropped *)
(* below, so a failure in between is retried on the next poll instead of   *)
(* being lost", and "the committed message will be deduplicated on retry": *)
(* every message that arrives is in the end marked read, and is then in a  *)
(* ticket, unless it was dropped on purpose, and not twice in the tickets  *)
(* of its mailbox (the code's search for a duplicate does not look into    *)
(* others).  Messages that cannot be delivered do not hold up the rest:    *)
(* the rate limit of their sender takes them away.                         *)
Settled(m) ==
    /\ m \in seen
    /\ Rows(IdOf[m], BoxOf[m]) <= 1
    /\ m \in dropped \/ \E t \in Tickets : Holds(t, IdOf[m])
EveryMailIsFiledOnce ==
    <>[](\A b \in Boxes : \A m \in ToSet(inbox[b]) : Settled(m))
=============================================================================
