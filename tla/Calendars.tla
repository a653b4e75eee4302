----------------------------- MODULE Calendars ------------------------------
(***************************************************************************)
(* The operator calendar with its sync, then the AI room's calendar.       *)
(***************************************************************************)
EXTENDS Sequences, FiniteSets, Integers
LOCAL INSTANCE SequencesExt

(***************************************************************************)
(* The operator calendar (server/api/calendar.ts): events that people make *)
(* and close, and the sync that makes one for every open invoice and every *)
(* active contract.  Every query is a transaction of its own: a sync may   *)
(* fail between two, and syncs, people and the billing rooms interleave.   *)
(*                                                                         *)
(* An event is "pending" when it is scheduled or due, and "closed" when it *)
(* is completed or blocked: nothing here tells those apart.                *)
(***************************************************************************)

CONSTANTS
  Entities,     \* invoices and contracts
  Invoices,
  DueAt,        \* for each entity: period_end or renews_at
  Syncs,        \* POST /api/calendar/sync
  Manual,       \* an event that is about no entity
  Changing,     \* the entities the billing rooms change
  Topics,       \* what the events that people make are about
  MaxManual,    \* events that people make (bound)
  MaxDay        \* (bound)

ASSUME CalendarSyncAssumption ==
  /\ Invoices \cup Changing \subseteq Entities /\ Manual \notin Entities /\ Topics \subseteq Entities \cup {Manual}
  /\ {MaxManual, MaxDay} \subseteq Nat /\ DueAt \in [Entities -> Nat]

VARIABLES
  open,         \* the entities the sync's queries find: issued or overdue, active
  events,       \* calendar_events: [about, status, starts, maker]
  sync,         \* for each sync: where it is, and the rows it still has to look at
  today,
  together      \* history: two syncs were under way at the same time

calendarVars == <<open, events, sync, today, together>>

NoSync == [at |-> "new", left |-> {}, entity |-> Manual]

CalendarInit ==
  /\ open = Entities
  /\ events = <<>>
  /\ sync = [s \in Syncs |-> NoSync]
  /\ today = 0 /\ together = FALSE

CalendarTypeOK ==
  /\ open \subseteq Entities /\ today \in 0 .. MaxDay /\ together \in BOOLEAN
  /\ events \in Seq([about : Entities \cup {Manual}, maker : {"sync", "people"}, starts : Nat,
                     status : {"pending", "overdue", "closed"}])
  /\ sync \in [Syncs -> [at : {"new", "invoices", "contracts", "ended"}, left : SUBSET Entities,
                         entity : Entities \cup {Manual}]]

-----------------------------------------------------------------------------
UnderWay == {s \in Syncs : sync[s].at \notin {"new", "ended"}}
About(e) == {i \in 1 .. Len(events) : events[i].about = e}

(* The sync begins with the invoices ...                                   *)
SyncInvoices(s) ==
  /\ sync[s].at = "new"
  /\ sync' = [sync EXCEPT ![s] = [at |-> "invoices", left |-> open \cap Invoices, entity |-> Manual]]
  /\ together' = (together \/ UnderWay # {})
  /\ UNCHANGED <<open, events, today>>

(* ... and goes on with the contracts, once those are done.                *)
SyncContracts(s) ==
  /\ sync[s].at = "invoices" /\ sync[s].left = {} /\ sync[s].entity = Manual
  /\ sync' = [sync EXCEPT ![s].at = "contracts", ![s].left = open \ Invoices]
  /\ UNCHANGED <<open, events, today, together>>

(* Mutant: only an event that is still open counts.                        *)
LookForOpen(s, e) ==
  /\ sync[s].at \in {"invoices", "contracts"} /\ sync[s].entity = Manual /\ e \in sync[s].left
  /\ sync' = [sync EXCEPT ![s].left = @ \ {e},
                          ![s].entity = IF {i \in About(e) : events[i].status # "closed"} = {} THEN e ELSE Manual]
  /\ UNCHANGED <<open, events, today, together>>

(* Is there an event about the row?                                        *)
LookFor(s, e) ==
  /\ sync[s].at \in {"invoices", "contracts"} /\ sync[s].entity = Manual /\ e \in sync[s].left
  /\ sync' = [sync EXCEPT ![s].left = @ \ {e}, ![s].entity = IF About(e) = {} THEN e ELSE Manual]
  /\ UNCHANGED <<open, events, today, together>>

SyncInserts(s) ==
  LET e == sync[s].entity
  IN /\ e # Manual
     /\ events' = Append(events, [about |-> e, maker |-> "sync", starts |-> DueAt[e],
          status |-> IF e \in Invoices /\ DueAt[e] < today THEN "overdue" ELSE "pending"])
     /\ sync' = [sync EXCEPT ![s].entity = Manual]
     /\ UNCHANGED <<open, today, together>>

(* Mutant: every event of the past is overdue.                             *)
MarkAllOverdue(s) ==
  /\ sync[s].at = "contracts" /\ sync[s].left = {} /\ sync[s].entity = Manual
  /\ events' = [i \in 1 .. Len(events) |->
       IF events[i].starts < today THEN [events[i] EXCEPT !.status = "overdue"] ELSE events[i]]
  /\ sync' = [sync EXCEPT ![s].at = "ended"]
  /\ UNCHANGED <<open, today, together>>

MarkOverdue(s) ==
  /\ sync[s].at = "contracts" /\ sync[s].left = {} /\ sync[s].entity = Manual
  /\ events' = [i \in 1 .. Len(events) |->
       IF events[i].status = "pending" /\ events[i].starts < today
       THEN [events[i] EXCEPT !.status = "overdue"] ELSE events[i]]
  /\ sync' = [sync EXCEPT ![s].at = "ended"]
  /\ UNCHANGED <<open, today, together>>

(* A query fails: what was inserted stays.                                 *)
SyncFails(s) ==
  /\ s \in UnderWay
  /\ sync' = [sync EXCEPT ![s] = [NoSync EXCEPT !.at = "ended"]]
  /\ UNCHANGED <<open, events, today, together>>

-----------------------------------------------------------------------------
MadeBy(maker) == {i \in 1 .. Len(events) : events[i].maker = maker}

(* POST /api/calendar/events: what people make is scheduled for now unless *)
(* they say otherwise, and may be about an entity, too.                    *)
CreateEvent(about) ==
  /\ Cardinality(MadeBy("people")) < MaxManual
  /\ events' = Append(events, [about |-> about, maker |-> "people", starts |-> today, status |-> "pending"])
  /\ UNCHANGED <<open, sync, today, together>>

(* .../complete and .../block: from any status.                            *)
CloseEvent(i) ==
  /\ i \in 1 .. Len(events)
  /\ events' = [events EXCEPT ![i].status = "closed"]
  /\ UNCHANGED <<open, sync, today, together>>

(* The billing rooms: an invoice is issued or paid, a contract begins or   *)
(* ends.                                                                   *)
Billing(e) ==
  /\ open' = IF e \in open THEN open \ {e} ELSE open \cup {e}
  /\ UNCHANGED <<events, sync, today, together>>

NextDay ==
  /\ today < MaxDay /\ today' = today + 1
  /\ UNCHANGED <<open, events, sync, together>>

CalendarNext ==
  \/ \E s \in Syncs :
       \/ SyncInvoices(s) \/ SyncContracts(s) \/ SyncInserts(s) \/ MarkOverdue(s) \/ SyncFails(s)
       \/ \E e \in Entities : LookFor(s, e)
  \/ \E about \in Topics : CreateEvent(about)
  \/ \E i \in 1 .. Len(events) : CloseEvent(i)
  \/ \E e \in Changing : Billing(e)
  \/ NextDay

CalendarSpec == CalendarInit /\ [][CalendarNext]_calendarVars

-----------------------------------------------------------------------------
(* Unless two syncs were under way at the same time, an invoice or a       *)
(* contract gets at most one event of a sync, however often the sync fails *)
(* and is repeated and whatever people do to the first                     *)
(* (calendar.ts:208-246).                                                  *)
OneEventEach == ~together => \A e \in Entities : Cardinality(About(e) \cap MadeBy("sync")) <= 1

(* What people have closed no sync opens again (calendar.ts:194-253).      *)
ClosedStaysClosed ==
  [][\A i \in 1 .. Len(events) : events[i].status = "closed" => events'[i].status = "closed"]_calendarVars

(* Whatever is synced is synced once.                                      *)
SyncSound == CalendarTypeOK /\ OneEventEach

-----------------------------------------------------------------------------
(***************************************************************************)
(* The AI room's calendar (vyrden-airoom/src/ai/calendar/engine.ts) behind *)
(* its routes (routes/api.ts:420-541): people make, change and delete      *)
(* events at any time, whether they overlap or not, and ask for the events *)
(* of some days, those to come, those overdue, their numbers and the free  *)
(* slots; scheduleAuto and the reminders have no caller.                   *)
(*                                                                         *)
(* Time is counted in hours from the start of the first day; a search has  *)
(* a duration of at least one: a shorter one keeps it where it is.  People *)
(* may write times as of a zone that is some hours ahead of UTC; some      *)
(* comparisons are of the moments, and some of the texts.                  *)
(***************************************************************************)

CONSTANTS
  Slots,            \* event ids
  DayHours,         \* hours of a day
  WorkStart, WorkEnd,
  Days,             \* (bound)
  Weekend,          \* the days that are skipped
  MaxDuration,      \* (bound)
  EventTimes        \* for each event: the starts, ends and zones that people give it

ASSUME AgentCalendarAssumption ==
  /\ {DayHours, WorkStart, WorkEnd, Days, MaxDuration} \subseteq Nat
  /\ \A e \in Slots : EventTimes[e] \subseteq Nat \X Nat \X Nat
  /\ WorkStart < WorkEnd /\ WorkEnd <= DayHours /\ Weekend \subseteq 0 .. Days

VARIABLE calendar   \* for each event: its times, their zone and its status, or NoEvent

Horizon == Days * DayHours
NoEvent == [start |-> 0, end |-> 0, zone |-> 0, status |-> "none"]
Made == {e \in Slots : calendar[e] # NoEvent}

AgentCalendarInit == calendar = [e \in Slots |-> NoEvent]

-----------------------------------------------------------------------------
(* Mutant: an event that begins as the slot ends is taken for a conflict   *)
(* and one that spans it is not.                                           *)
ConflictsAtTheEdges(start, end) ==
  {e \in Slots : calendar[e].status \notin {"none", "cancelled"}
     /\ (calendar[e].start \in start .. end \/ calendar[e].end \in start .. end)}

(* findConflicts *)
Conflicts(start, end) ==
  {e \in Slots : calendar[e].status \notin {"none", "cancelled"} /\ start < calendar[e].end /\ end > calendar[e].start}

DayOf(t) == t \div DayHours
Morning(day) == day * DayHours + WorkStart

(* findAvailableSlots: from the morning of the first day, also when the    *)
(* search begins later than that, in steps of the duration.                *)
SlotsFrom(from, to, hours) ==
  LET Walk[t \in 0 .. Horizon + DayHours + MaxDuration] ==
        IF t >= to THEN {}
        ELSE IF DayOf(t) \in Weekend \/ t + hours > DayOf(t) * DayHours + WorkEnd THEN Walk[Morning(DayOf(t) + 1)]
        ELSE {t} \cup Walk[t + hours]
  IN Walk[Morning(DayOf(from))]

(* POST /api/calendar/events; an event without an end takes an hour.       *)
AddEvent(e) ==
  /\ calendar[e] = NoEvent
  /\ \E time \in EventTimes[e], given \in BOOLEAN :
       calendar' = [calendar EXCEPT ![e] = [start |-> time[1], end |-> IF given THEN time[2] ELSE time[1] + 1,
                                            zone |-> time[3], status |-> "scheduled"]]

(* PUT /api/calendar/events/:id: whatever fields it is given.              *)
UpdateEvent(e) ==
  /\ calendar[e] # NoEvent
  /\ \E time \in EventTimes[e], status \in {calendar[e].status, "completed", "cancelled"} :
       calendar' = [calendar EXCEPT ![e] = [start |-> time[1], end |-> time[2], zone |-> time[3], status |-> status]]

DeleteEvent(e) ==
  /\ calendar[e] # NoEvent
  /\ calendar' = [calendar EXCEPT ![e] = NoEvent]

(* POST /api/calendar/slots: the starts it answers.                        *)
OfferedStarts(from, to, hours) == {t \in SlotsFrom(from, to, hours) : Conflicts(t, t + hours) = {}}

-----------------------------------------------------------------------------
(* query, of moments: the events that start no earlier and end no later.   *)
ListEvents(from, to, statuses) ==
  {e \in Made : calendar[e].start >= from /\ calendar[e].end <= to /\ calendar[e].status \in statuses}

CalendarHours == 0 .. Horizon
ByStart(listed) == SetToSortSeq(listed, LAMBDA d, e : calendar[d].start < calendar[e].start)

(* Mutant: the latest events first.                                        *)
UpcomingLast(now, limit) ==
  LET listed == ByStart(ListEvents(now, 2 * Horizon, {"scheduled"}))
  IN IF limit < Len(listed) THEN SubSeq(listed, Len(listed) - limit + 1, Len(listed)) ELSE listed

(* getUpcoming; a negative limit leaves out the last ones.                 *)
UpcomingEvents(now, limit) ==
  LET listed == ByStart(ListEvents(now, 2 * Horizon, {"scheduled"}))
  IN SubSeq(listed, 1, IF limit < 0 THEN Len(listed) + limit ELSE IF limit < Len(listed) THEN limit ELSE Len(listed))

(* The order of the texts: an hour of another zone sorts before the same   *)
(* hour that is written in UTC, with its fraction of a second.             *)
TextBefore(hour, zone, now) == hour + zone < now \/ (zone # 0 /\ hour + zone = now)
TextAfter(hour, zone, now) == hour + zone > now

(* Mutant: what began in the past is overdue.                              *)
OverdueSinceStart(now) ==
  {e \in Made : calendar[e].status = "scheduled" /\ TextBefore(calendar[e].start, calendar[e].zone, now)}

(* getOverdue                                                              *)
OverdueEvents(now) ==
  {e \in Made : calendar[e].status = "scheduled" /\ TextBefore(calendar[e].end, calendar[e].zone, now)}

(* getStats                                                                *)
CalendarStats(now) ==
  LET scheduled == {e \in Made : calendar[e].status = "scheduled"}
      upcoming == {e \in scheduled : TextAfter(calendar[e].start, calendar[e].zone, now)}
  IN [upcoming |-> Cardinality(upcoming),
      overdue |-> Cardinality({e \in scheduled \ upcoming : TextBefore(calendar[e].end, calendar[e].zone, now)})]

AgentCalendarNext == \E e \in Slots : AddEvent(e) \/ UpdateEvent(e) \/ DeleteEvent(e)

AgentCalendarSpec == AgentCalendarInit /\ [][AgentCalendarNext]_calendar

-----------------------------------------------------------------------------
HoursOf(t, hours) == t .. t + hours - 1
Working(day) == Morning(day) .. day * DayHours + WorkEnd - 1
Free(e) == calendar[e].status \in {"none", "cancelled"}
Busy == UNION {calendar[e].start .. calendar[e].end - 1 : e \in {e \in Slots : ~Free(e)}}

(* Whatever is searched for in whatever calendar, the slots offered are    *)
(* disjoint, lie in the working hours of working days, and no hour of them *)
(* belongs to an event that is not cancelled; and when nothing is busy     *)
(* they leave less than one slot of each whole working day                 *)
(* (engine.ts:146-207).                                                    *)
OffersAreFree ==
  \A from, to \in CalendarHours, hours \in 1 .. MaxDuration :
    LET starts == OfferedStarts(from, to, hours)
    IN /\ \A t \in starts :
            /\ DayOf(t) \notin Weekend /\ HoursOf(t, hours) \subseteq Working(DayOf(t)) \ Busy
            /\ \A u \in starts \ {t} : HoursOf(t, hours) \cap HoursOf(u, hours) = {}
       /\ \A day \in DayOf(from) .. Days - 1 :
            day \notin Weekend /\ (day + 1) * DayHours <= to /\ (\A e \in Slots : Free(e)) =>
              Cardinality({t \in starts : DayOf(t) = day}) = (WorkEnd - WorkStart) \div hours

(* At any hour a scheduled event that ends no sooner than it starts is to  *)
(* come, overdue or under way, and one of them only, as long as its times  *)
(* are written in UTC; one of a zone ahead is called overdue too late, and *)
(* never while it has not ended.  The numbers agree with the lists but for *)
(* what starts this hour and for what ends before it starts, and the list  *)
(* of those to come ends at its limit, the next ones first.  What is in    *)
(* the lists of two adjoining times ends no later than it starts           *)
(* (engine.ts:93-144,300-339).                                             *)
ListsAgree ==
  /\ \A now \in CalendarHours :
       LET coming == ListEvents(now, 2 * Horizon, {"scheduled"})
           overdue == OverdueEvents(now)
           stats == CalendarStats(now)
           orderly == {e \in Made : calendar[e].status = "scheduled" /\ calendar[e].start <= calendar[e].end}
           inUTC == {e \in orderly : calendar[e].zone = 0}
           underWay == {e \in inUTC : calendar[e].start < now /\ now <= calendar[e].end}
           startsNow == {e \in inUTC : calendar[e].start = now}
       IN /\ inUTC \subseteq coming \cup overdue \cup underWay
          /\ inUTC \cap coming \cap overdue = {} /\ underWay \cap (coming \cup overdue) = {}
          /\ \A e \in overdue : calendar[e].end <= now
          /\ (\A e \in Made : calendar[e].status = "scheduled" => e \in inUTC) =>
               /\ stats.overdue = Cardinality(overdue)
               /\ stats.upcoming = Cardinality(coming \ startsNow)
          /\ \A limit \in 0 .. Cardinality(Slots) :
               LET answer == UpcomingEvents(now, limit)
               IN /\ Len(answer) = limit \/ ToSet(answer) = coming
                  /\ \A e \in ToSet(answer), d \in coming \ ToSet(answer) : calendar[e].start <= calendar[d].start
  /\ \A from, border, to \in CalendarHours :
       from <= border /\ border <= to =>
         \A e \in ListEvents(from, border, {"scheduled"}) \cap ListEvents(border, to, {"scheduled"}) :
           calendar[e].end <= calendar[e].start

CalendarSound == OffersAreFree /\ ListsAgree
=============================================================================
