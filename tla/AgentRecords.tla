---------------------------- MODULE AgentRecords ----------------------------
(***************************************************************************)
(* What the AI room writes line by line: the flyer bot's files, then the   *)
(* record of its requests.                                                 *)
(***************************************************************************)
EXTENDS Integers, FiniteSets, Sequences, TLC
LOCAL INSTANCE SequencesExt

(***************************************************************************)
(* The AI room's flyer bot (bots/flyer-distribution.ts): a flyer goes out  *)
(* as a line of the outbox, after a line of the send log; what is in the   *)
(* log decides whether the next one is a duplicate or one too many within  *)
(* the hour or the day; who answers STOP is put on the opt-out list, one   *)
(* file that is read, extended and written again.  All of it is            *)
(* synchronous: only a crash, or a write that fails, comes between.        *)
(*                                                                         *)
(* A line is the flyer and when it was sent; Cut is a line without an end, *)
(* Blot one that the next line was written behind, which nothing can read. *)
(***************************************************************************)

CONSTANTS
  Flyers,        \* [pilot, address, version, optOut]
  LowerCase,     \* [addresses -> the same in lower case]
  HourlyLimit, DailyLimit,
  Hour, Day,     \* in ticks
  MaxTicksSent,  \* clock (bound)
  MaxBreaks      \* crashes and writes that fail (bound)

ASSUME FlyerAssumption ==
  /\ HourlyLimit \in Nat /\ DailyLimit \in Nat /\ Hour \in Nat /\ Day \in Nat /\ Hour <= Day
  /\ MaxTicksSent \in Nat /\ MaxBreaks \in Nat

VARIABLES
  sendLog, outbox,\* the two files of lines
  optOuts,        \* the file of the list: [torn, list]
  hourHand,       \* the clock
  breaks,
  stopped         \* history: who was put on the list

flyerVars == <<sendLog, outbox, optOuts, hourHand, breaks, stopped>>

Cut == [at |-> -1]
Blot == [at |-> -2]
Legible(lines) == SelectSeq(lines, LAMBDA l : l \notin {Cut, Blot})

FlyersInit ==
  /\ sendLog = <<>> /\ outbox = <<>> /\ optOuts = [torn |-> FALSE, list |-> {}]
  /\ hourHand = 0 /\ breaks = 0 /\ stopped = {}

-----------------------------------------------------------------------------
(* Mutant: the address is compared as it is written.                       *)
DedupeKeyAsWritten(f) == <<f.pilot, f.address, f.version>>

DedupeKey(f) == <<f.pilot, LowerCase[f.address], f.version>>

(* Mutant: the sends of this hour of the clock are counted.                *)
SentWithinByClock(span) ==
  Cardinality({n \in DOMAIN Legible(sendLog) : Legible(sendLog)[n].at \div span = hourHand \div span})

SentWithin(span) == Cardinality({n \in DOMAIN Legible(sendLog) : hourHand - Legible(sendLog)[n].at < span})

(* Mutant: a list that cannot be read is taken for an empty one.           *)
OptedOutIfListed(address) == LowerCase[address] \in optOuts.list

(* isOptedOut; a list that cannot be read throws, and blocks everyone.     *)
OptedOut(address) == optOuts.torn \/ LowerCase[address] \in optOuts.list

(* sendFlyer, its blocks.                                                  *)
Sendable(f) ==
  /\ ~f.optOut /\ ~OptedOut(f.address)
  /\ ~\E n \in DOMAIN Legible(sendLog) : DedupeKey(Legible(sendLog)[n].flyer) = DedupeKey(f)
  /\ SentWithin(Hour) < HourlyLimit /\ SentWithin(Day) < DailyLimit

Lined(lines, line) == IF lines # <<>> /\ Last(lines) = Cut THEN Append(Front(lines), Blot) ELSE Append(lines, line)

SendFlyer(f) ==
  /\ Sendable(f)
  /\ sendLog' = Lined(sendLog, [flyer |-> f, at |-> hourHand])
  /\ outbox' = Lined(outbox, [flyer |-> f, at |-> hourHand])
  /\ UNCHANGED <<optOuts, hourHand, breaks, stopped>>

Broken(lines) == IF lines # <<>> /\ Last(lines) = Cut THEN lines ELSE Append(lines, Cut)

(* Mutant: the outbox is written first.                                    *)
SendBreaksOutboxFirst(f) ==
  /\ Sendable(f) /\ breaks < MaxBreaks /\ breaks' = breaks + 1
  /\ \/ outbox' = Broken(outbox) /\ UNCHANGED sendLog
     \/ /\ outbox' = Lined(outbox, [flyer |-> f, at |-> hourHand])
        /\ sendLog' \in {sendLog, Broken(sendLog)}
  /\ UNCHANGED <<optOuts, hourHand, stopped>>

(* It breaks off within the log, after it, or within the outbox.           *)
SendBreaks(f) ==
  /\ Sendable(f) /\ breaks < MaxBreaks /\ breaks' = breaks + 1
  /\ \/ sendLog' = Broken(sendLog) /\ UNCHANGED outbox
     \/ /\ sendLog' = Lined(sendLog, [flyer |-> f, at |-> hourHand])
        /\ outbox' \in {outbox, Broken(outbox)}
  /\ UNCHANGED <<optOuts, hourHand, stopped>>

(* ingestFlyerFeedback with a STOP: recordOptOut reads the list first and  *)
(* throws when it cannot.  What follows throws whenever it is called.      *)
OptOut(address) ==
  /\ ~optOuts.torn
  /\ optOuts' = [optOuts EXCEPT !.list = @ \cup {LowerCase[address]}]
  /\ stopped' = stopped \cup {LowerCase[address]}
  /\ UNCHANGED <<sendLog, outbox, hourHand, breaks>>

OptOutBreaks ==
  /\ ~optOuts.torn /\ breaks < MaxBreaks /\ breaks' = breaks + 1
  /\ optOuts' = [torn |-> TRUE, list |-> {}]
  /\ UNCHANGED <<sendLog, outbox, hourHand, stopped>>

FlyersTick ==
  /\ hourHand < MaxTicksSent /\ hourHand' = hourHand + 1
  /\ UNCHANGED <<sendLog, outbox, optOuts, breaks, stopped>>

FlyersNext ==
  \/ \E f \in Flyers : SendFlyer(f) \/ SendBreaks(f)
  \/ \E address \in DOMAIN LowerCase : OptOut(address)
  \/ OptOutBreaks \/ FlyersTick

FlyersSpec == FlyersInit /\ [][FlyersNext]_flyerVars
-----------------------------------------------------------------------------
(* What leaves was logged before; a pilot gets a version once, however its *)
(* address is spelt, and no span of an hour or a day holds more than its   *)
(* limit, unless a line of the log was lost to a crash                     *)
(* (flyer-distribution.ts:110-145).                                        *)
OutboxAccounted ==
  LET log == Legible(sendLog)
      out == Legible(outbox)
      In(lines, from, span) == Cardinality({n \in DOMAIN lines : lines[n].at >= from /\ lines[n].at < from + span})
      lost == Cardinality({n \in DOMAIN sendLog : sendLog[n] = Blot})
      Key(line) == <<line.flyer.pilot, LowerCase[line.flyer.address], line.flyer.version>>
  IN /\ Cardinality(ToSet(out) \ ToSet(log)) <= lost
     /\ \A n, k \in DOMAIN log : lost = 0 /\ Key(log[n]) = Key(log[k]) => n = k
     /\ lost = 0 => \A n, k \in DOMAIN out : Key(out[n]) = Key(out[k]) => n = k
     /\ \A from \in 0 .. hourHand :
          In(out, from, Hour) <= HourlyLimit + lost /\ In(out, from, Day) <= DailyLimit + lost

(* Nobody who was put on the opt-out list is sent anything after that,     *)
(* also when the list was lost since (flyer-distribution.ts:106,247).      *)
StopIsFinal ==
  [][\A f \in Flyers : Len(outbox') > Len(outbox) /\ Last(outbox') = [flyer |-> f, at |-> hourHand] =>
        LowerCase[f.address] \notin stopped]_flyerVars

-----------------------------------------------------------------------------
(***************************************************************************)
(* The AI room's record of its requests (middleware/evidence-logger.ts):   *)
(* an entry is appended to the day's requests, to its agent's file and, if *)
(* it changed anything, to the audit, one after the other, each behind an  *)
(* await; the first that fails ends it, with a line on the console.  Every *)
(* response makes an entry, an invocation one more before it answers, and  *)
(* nobody waits for either: the appends of all entries interleave.         *)
(***************************************************************************)

CONSTANTS
  RoomRequests,   \* [requests -> "read", "write" or "invoke"]
  MaxLogFaults    \* appends that fail, and restarts (bound)

ASSUME RequestLogAssumption == MaxLogFaults \in Nat

VARIABLES
  logs,      \* the three files, each a sequence of entries
  entries,   \* the entries that are being logged: what is left of each, and its end
  heard,     \* the requests that were answered
  logFaults

requestVars == <<logs, entries, heard, logFaults>>

(* An entry: the request, and whether the route or the hook makes it.      *)
Entry(r, by) == <<r, by>>
Files == {"requests", "agents", "audit"}
HalfLine == <<"half", "line">>
Smear == <<"smeared", "line">>

RequestsInit ==
  /\ logs = [f \in Files |-> <<>>]
  /\ entries = [e \in {} |-> <<>>]
  /\ heard = {} /\ logFaults = 0

-----------------------------------------------------------------------------
(* Mutant: the audit is written first.                                     *)
FilesOfAuditFirst(r, by) ==
  (IF RoomRequests[r] = "read" THEN <<>> ELSE <<"audit">>) \o <<"requests">> \o (IF by = "route" THEN <<"agents">> ELSE <<>>)

(* log: the files of an entry, in order.  The hook knows of no agent.      *)
FilesOf(r, by) ==
  <<"requests">> \o (IF by = "route" THEN <<"agents">> ELSE <<>>)
    \o (IF RoomRequests[r] = "read" THEN <<>> ELSE <<"audit">>)

Begin(r, by) == (Entry(r, by) :> [left |-> FilesOf(r, by), end |-> "none"]) @@ entries

(* POST /api/agent/:id/invoke, after the agent has answered.               *)
InvocationAnswers(r) ==
  /\ RoomRequests[r] = "invoke" /\ Entry(r, "route") \notin DOMAIN entries /\ r \notin heard
  /\ entries' = Begin(r, "route")
  /\ UNCHANGED <<logs, heard, logFaults>>

(* onResponse.                                                             *)
Respond(r) ==
  /\ r \notin heard /\ (RoomRequests[r] = "invoke" => Entry(r, "route") \in DOMAIN entries)
  /\ heard' = heard \cup {r}
  /\ entries' = Begin(r, "hook")
  /\ UNCHANGED <<logs, logFaults>>

Behind(lines, line) == IF lines # <<>> /\ Last(lines) = HalfLine THEN Append(Front(lines), Smear) ELSE Append(lines, line)
After(e) == [left |-> Tail(entries[e].left), end |-> IF Len(entries[e].left) = 1 THEN "logged" ELSE "none"]

Logging(e) == entries[e].end = "none"

AppendEntry(e) ==
  /\ Logging(e)
  /\ logs' = [logs EXCEPT ![Head(entries[e].left)] = Behind(@, e)]
  /\ entries' = [entries EXCEPT ![e] = After(e)]
  /\ UNCHANGED <<heard, logFaults>>

Halved(lines) == IF lines # <<>> /\ Last(lines) = HalfLine THEN lines ELSE Append(lines, HalfLine)

(* Mutant: the files after the one that failed are written nevertheless.   *)
EntryFailsGoesOn(e) ==
  /\ Logging(e) /\ logFaults < MaxLogFaults /\ logFaults' = logFaults + 1
  /\ logs' \in {logs, [logs EXCEPT ![Head(entries[e].left)] = Halved(@)]}
  /\ entries' = [entries EXCEPT ![e] = After(e)]
  /\ UNCHANGED heard

EntryFails(e) ==
  /\ Logging(e) /\ logFaults < MaxLogFaults /\ logFaults' = logFaults + 1
  /\ logs' \in {logs, [logs EXCEPT ![Head(entries[e].left)] = Halved(@)]}
  /\ entries' = [entries EXCEPT ![e] = [left |-> <<>>, end |-> "lost"]]
  /\ UNCHANGED heard

(* A restart loses what is not written; one line may be half of it.        *)
RoomRestarts ==
  /\ \E e \in DOMAIN entries : Logging(e)
  /\ logFaults < MaxLogFaults /\ logFaults' = logFaults + 1
  /\ logs' \in {logs} \cup {[logs EXCEPT ![Head(entries[e].left)] = Halved(@)] : e \in {d \in DOMAIN entries : Logging(d)}}
  /\ entries' = [e \in DOMAIN entries |-> IF Logging(e) THEN [left |-> <<>>, end |-> "lost"] ELSE entries[e]]
  /\ UNCHANGED heard

RequestsNext ==
  \/ \E r \in DOMAIN RoomRequests : InvocationAnswers(r) \/ Respond(r)
  \/ \E e \in DOMAIN entries : AppendEntry(e) \/ EntryFails(e)
  \/ RoomRestarts

RequestsSpec == RequestsInit /\ [][RequestsNext]_requestVars
-----------------------------------------------------------------------------
(* What is in the audit or in an agent's file is among the requests, and   *)
(* what is in the audit of an invocation is in its agent's file, unless a  *)
(* line was smeared there; an entry whose files are all written is in each *)
(* of them once, and no entry is in any file twice                         *)
(* (evidence-logger.ts:39-62).                                             *)
RecordsNested ==
  LET Holds(f, e) == e \in ToSet(logs[f]) \/ Smear \in ToSet(logs[f])
      Times(f, e) == Cardinality({n \in DOMAIN logs[f] : logs[f][n] = e})
  IN \A e \in DOMAIN entries :
       /\ \A f \in Files :
            /\ Times(f, e) <= 1
            /\ f # "requests" /\ e \in ToSet(logs[f]) => Holds("requests", e)
            /\ entries[e].end = "logged" /\ f \in ToSet(FilesOf(e[1], e[2])) => Holds(f, e)
       /\ e[2] = "route" /\ e \in ToSet(logs["audit"]) => Holds("agents", e)

(* A request that changed something leaves a line in the audit for each of *)
(* its entries, unless an append failed or a restart came between: what is *)
(* answered is not waited for (api.ts:60,1006).                            *)
ChangesAudited ==
  \A r \in heard :
    logFaults = 0 /\ RoomRequests[r] # "read" /\ (\A e \in DOMAIN entries : ~Logging(e)) =>
      Cardinality({n \in DOMAIN logs["audit"] : logs["audit"][n][1] = r}) = IF RoomRequests[r] = "invoke" THEN 2 ELSE 1

RequestsRecorded == RecordsNested /\ ChangesAudited
=============================================================================
