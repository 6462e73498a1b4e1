----------------------------- MODULE MCServices -----------------------------
(* What goes on beside the pages as time passes: in some behaviours the    *)
(* service-level clocks of a record, in others the live events, and in the *)
(* rest the e-mail of the clients.                                         *)
EXTENDS SlaClock

CONSTANTS Browsers, UserOf, Watches, Records, QueueSize, MaxConnections, MaxPerUser, MaxDelay,
          MaxSignals, MaxLosses
VARIABLES pc, queue, due, stalled, allowed, conn, listening, delay, wire, signals, losses, missed, excused
CONSTANTS Mails, Boxes, BoxOf, IdOf, SenderOf, Refs, Token, Automatic, Manual, Limit, RateLimit, MaxFaults,
          MaxChanges
VARIABLES inbox, seen, filed, status, known, session, org, team, at, left, list, plan, dropped, faults, changes
VARIABLE subject   \* what this behaviour is about: "clocks", "events" or "mail"

Events == INSTANCE EventsServer
Mail == INSTANCE MailIntake WITH pc <- at

\* listen() doubles its pause up to 30 seconds.
ASSUME EventsAssumption == MaxDelay \in Nat \ {0}

eventVars == <<pc, queue, due, stalled, allowed, conn, listening, delay, wire, signals, losses, missed,
               excused>>
mailVars == <<inbox, seen, filed, status, known, session, org, team, at, left, list, plan, dropped, faults,
              changes>>
allVars == <<vars, eventVars, mailVars, subject>>

\* An urgent priority, a normal one, and a definition for every record.
MCPriorityOf == [urgent |-> "P1", normal |-> "P4", every |-> "any"]
MCDuration == [urgent |-> 1, normal |-> 3, every |-> 2]

\* Two tabs of one user, with the same record on the page.
MCUserOf == [b \in Browsers |-> "ann"]
MCWatches == [b \in Browsers |-> Records]

\* Two mailboxes: a question, an answer to it that names a ticket of an agent in
\* its subject, and a bounce.
MCBoxOf == <<"support", "support", "sales">>
MCIdOf == <<"question", "answer", "bounce">>
MCSenderOf == [m \in Mails |-> "ann"]
MCRefs == <<{}, {"question"}, {}>>
MCManual == {<<"agent", "none">>}
MCToken == <<{}, MCManual, {}>>

MCInit ==
    /\ Init /\ Events!Init /\ Mail!Init
    /\ subject \in {"clocks", "events", "mail"}
    /\ subject # "clocks" => priority = "P4"

OfClocks(A) == subject = "clocks" /\ A /\ UNCHANGED <<eventVars, mailVars, subject>>
OfEvents(A) == subject = "events" /\ A /\ UNCHANGED <<vars, mailVars, subject>>
OfMail(A) == subject = "mail" /\ A /\ UNCHANGED <<vars, eventVars, subject>>
Clocks == OfClocks(Next)
LiveEvents == OfEvents(Events!Next)
ClientMail == OfMail(Mail!Next)

MCSpec ==
    /\ MCInit /\ [][Clocks \/ LiveEvents \/ ClientMail]_allVars
    /\ WF_allVars(OfEvents(Events!Listener))
    /\ \A b \in Browsers : WF_allVars(OfEvents(Events!Handle(b))) /\ WF_allVars(OfEvents(Events!Due(b)))
    /\ WF_allVars(OfMail(Mail!Work))

(* Signals lost with the connection are made up for: EventsServer's        *)
(* MissedIsResynced.                                                       *)
MissedIsResynced == Events!MissedIsResynced

(* A signed-out account loses its streams: EventsServer's                  *)
(* SignedOutIsClosed.                                                      *)
SignedOutIsClosed == Events!SignedOutIsClosed

(* No message is lost, filed twice in its mailbox, or held up:             *)
(* MailIntake's EveryMailIsFiledOnce.                                      *)
EveryMailIsFiledOnce == Mail!EveryMailIsFiledOnce
=============================================================================
