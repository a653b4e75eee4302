----------------------------- MODULE CallLimits -----------------------------
(***************************************************************************)
(* The repository's fixed-window limiters, and the AI room's tool guard    *)
(* that uses one of them.                                                  *)
(***************************************************************************)
EXTENDS Naturals, FiniteSets, Sequences
LOCAL INSTANCE Functions

(***************************************************************************)
(* The repository's three rate limiters.  Each keeps, for a key, when the  *)
(* key's window began and how many calls it admitted since: per client IP  *)
(* (server/lib/rate-limit.ts), per agent and tool (ai/tool-guard/guard.ts) *)
(* and per session (middleware/rate-limiter.ts), whose window is one tick  *)
(* longer and whose dead entries a timer removes.  A check is one turn of  *)
(* the event loop.  The clock is assumed not to go back.                   *)
(***************************************************************************)

CONSTANTS
  Keys,
  LimiterOf,    \* the limiter a key belongs to: "ip", "tool" or "session"
  Window,       \* windowMs
  MaxCalls,     \* max, maxCalls, maxRequests
  MaxTime       \* the last moment (bound)

ASSUME FixedWindowAssumption ==
  /\ LimiterOf \in [Keys -> {"ip", "tool", "session"}]
  /\ Window \in Nat \ {0} /\ MaxCalls \in Nat \ {0} /\ MaxTime \in Nat

VARIABLES
  now,
  store,        \* for each key its window, None before
  admitted,     \* history: how many calls of a key were admitted at each moment
  rejected      \* history: the moments at which a call of a key was refused

windowVars == <<now, store, admitted, rejected>>

NoWindow == [start |-> 0, count |-> 0]
Times == 0 .. MaxTime

WindowInit ==
  /\ now = 0
  /\ store = [k \in Keys |-> NoWindow]
  /\ admitted = [k \in Keys |-> [t \in Times |-> 0]]
  /\ rejected = [k \in Keys |-> {}]

WindowTypeOK ==
  /\ now \in Times
  /\ store \in [Keys -> [start : Times, count : Nat]]
  /\ admitted \in [Keys -> [Times -> Nat]]
  /\ rejected \in [Keys -> SUBSET Times]

-----------------------------------------------------------------------------
Passes == now < MaxTime /\ now' = now + 1 /\ UNCHANGED <<store, admitted, rejected>>

Missing(k) == store[k].count = 0

(* Mutant: a window of the IP limiter lasts a tick longer.                 *)
ExpiredLate(k) == Missing(k) \/ now > store[k].start + Window

Expired(k) ==
  \/ Missing(k)
  \/ IF LimiterOf[k] = "session" THEN now > store[k].start + Window ELSE now - store[k].start >= Window

Opened(k) == IF Expired(k) THEN [start |-> now, count |-> 0] ELSE store[k]

(* Mutant: the window slides along with each call.                         *)
CheckSliding(k) ==
  /\ store' = [store EXCEPT ![k] = [start |-> now, count |-> IF Opened(k).count < MaxCalls THEN Opened(k).count + 1
                                                             ELSE Opened(k).count]]
  /\ admitted' = IF Opened(k).count < MaxCalls THEN [admitted EXCEPT ![k][now] = @ + 1] ELSE admitted
  /\ rejected' = IF Opened(k).count < MaxCalls THEN rejected ELSE [rejected EXCEPT ![k] = @ \cup {now}]
  /\ UNCHANGED now

(* check, checkRateLimit: a new window admits its first call.              *)
Check(k) ==
  LET w == Opened(k) IN
  /\ IF w.count < MaxCalls
     THEN /\ store' = [store EXCEPT ![k] = [w EXCEPT !.count = @ + 1]]
          /\ admitted' = [admitted EXCEPT ![k][now] = @ + 1]
          /\ UNCHANGED rejected
     ELSE /\ rejected' = [rejected EXCEPT ![k] = @ \cup {now}]
          /\ UNCHANGED <<store, admitted>>
  /\ UNCHANGED now

Dead(k) == LimiterOf[k] = "session" /\ ~Missing(k) /\ now > store[k].start + 2 * Window

(* Mutant: the timer removes every session's window.                       *)
CleanupAll ==
  /\ store' = [k \in Keys |-> IF LimiterOf[k] = "session" THEN NoWindow ELSE store[k]]
  /\ UNCHANGED <<now, admitted, rejected>>

(* cleanup: windows that ended a whole window ago.                         *)
Cleanup ==
  /\ store' = [k \in Keys |-> IF Dead(k) THEN NoWindow ELSE store[k]]
  /\ UNCHANGED <<now, admitted, rejected>>

WindowNext == Passes \/ Cleanup \/ \E k \in Keys : Check(k)

WindowSpec == WindowInit /\ [][WindowNext]_windowVars

-----------------------------------------------------------------------------
AdmittedIn(k, from, to) == FoldFunctionOnSet(+, 0, admitted[k], {t \in Times : from <= t /\ t <= to})

(* A fixed window lets a burst through at its end and another at the start *)
(* of the next, but never more: in any interval as long as a window at     *)
(* most twice the limit is admitted, also when the timer cleans up.        *)
AtMostTwiceTheLimit ==
  \A k \in Keys : \A t \in Times : AdmittedIn(k, t, t + Window - 1) <= 2 * MaxCalls

(* Nobody is refused who has not used up the limit within the window that  *)
(* ends now; a refusal itself never counts.                                *)
RefusedOnlyWhenFull ==
  \A k \in Keys : \A t \in rejected[k] :
    AdmittedIn(k, IF LimiterOf[k] = "session" THEN t - Window ELSE t - Window + 1, t) >= MaxCalls

(* Neither too much is admitted nor too little, with any of the limiters.  *)
WindowsHold == WindowTypeOK /\ AtMostTwiceTheLimit /\ RefusedOnlyWhenFull

-----------------------------------------------------------------------------
(***************************************************************************)
(* The AI room's tool guard (ai/tool-guard/guard.ts).  execute decides in  *)
(* one turn whether the tool is known, permitted, within its rate and      *)
(* called with valid parameters, then starts the handler and a timer and   *)
(* answers when the first of them ends.  The handler goes on when the      *)
(* timer has won; its result is dropped.                                   *)
(***************************************************************************)

CONSTANTS
  Calls,        \* the calls of execute
  KeyOf,        \* the agent and tool of a call, a key of the limiter
  LastMoment    \* when the clock stops (bound)

ASSUME ToolGuardAssumption ==
  /\ KeyOf \in [Calls -> {k \in Keys : LimiterOf[k] = "tool"}]
  /\ LastMoment \in Nat

VARIABLES
  policies,     \* for each key: the permission of its own policy, the one of the agent's wildcard, or ""
  call,         \* for each call: "new", "executing" or "answered"
  handler,      \* and of its handler: "none", "running" or "settled"
  answered,     \* the outcome its caller was given, "" before
  log           \* executionLog

guardVars == <<policies, call, handler, answered, log>>

Permissions == {"allow", "deny", "require_approval"}
Outcomes == {"ok", "threw", "EXECUTION_TIMEOUT", "TOOL_NOT_FOUND", "PERMISSION_DENIED", "RATE_LIMIT_EXCEEDED", "INVALID"}

GuardInit ==
  /\ policies = [k \in Keys |-> [own |-> "", wildcard |-> ""]]
  /\ call = [c \in Calls |-> "new"]
  /\ handler = [c \in Calls |-> "none"]
  /\ answered = [c \in Calls |-> ""]
  /\ log = <<>>

GuardTypeOK ==
  /\ policies \in [Keys -> [own : Permissions \cup {""}, wildcard : Permissions \cup {""}]]
  /\ call \in [Calls -> {"new", "executing", "answered"}]
  /\ handler \in [Calls -> {"none", "running", "settled"}]
  /\ answered \in [Calls -> Outcomes \cup {""}]
  /\ log \in Seq(Calls \X Outcomes)

-----------------------------------------------------------------------------
(* The permission, given whether the policy's conditions (an hour of the   *)
(* day) hold: the own policy, else the wildcard, else the default, deny.   *)
Permission(k, inHours) ==
  LET p == policies[k] IN
  IF p.own # "" /\ inHours THEN p.own ELSE IF p.wildcard # "" THEN p.wildcard ELSE "deny"

SetPolicy(k) ==
  /\ policies' \in {[policies EXCEPT ![k].own = p] : p \in {"", "deny", "require_approval"}}
                     \cup {[policies EXCEPT ![k].wildcard = p] : p \in {"", "allow"}}
  /\ UNCHANGED <<windowVars, call, handler, answered, log>>

Answer(c, outcome) ==
  /\ call' = [call EXCEPT ![c] = "answered"]
  /\ answered' = [answered EXCEPT ![c] = outcome]
  /\ log' = Append(log, <<c, outcome>>)

(* createFailureResult, before anything ran.                               *)
Refused(c, outcome) == Answer(c, outcome) /\ UNCHANGED handler

HandlerStarts(c) ==
  /\ call' = [call EXCEPT ![c] = "executing"]
  /\ handler' = [handler EXCEPT ![c] = "running"]
  /\ UNCHANGED <<answered, log>>

(* execute, up to its await: a call is charged before its parameters are   *)
(* looked at, and only deny keeps it out.                                  *)
Execute(c, registered, inHours, valid) ==
  LET k == KeyOf[c] IN
  /\ call[c] = "new"
  /\ UNCHANGED policies
  /\ \/ ~registered /\ Refused(c, "TOOL_NOT_FOUND") /\ UNCHANGED windowVars
     \/ /\ registered /\ Permission(k, inHours) = "deny"
        /\ Refused(c, "PERMISSION_DENIED") /\ UNCHANGED windowVars
     \/ /\ registered /\ Permission(k, inHours) # "deny"
        /\ Check(k)
        /\ IF Opened(k).count >= MaxCalls THEN Refused(c, "RATE_LIMIT_EXCEEDED")
           ELSE IF ~valid THEN Refused(c, "INVALID") ELSE HandlerStarts(c)

(* Mutant: a handler that ends late is logged, too.                        *)
HandlerSettlesLoggingLate(c, outcome) ==
  /\ handler[c] = "running"
  /\ handler' = [handler EXCEPT ![c] = "settled"]
  /\ IF call[c] = "executing" THEN Answer(c, outcome)
     ELSE log' = Append(log, <<c, outcome>>) /\ UNCHANGED <<call, answered>>
  /\ UNCHANGED <<windowVars, policies>>

HandlerSettles(c, outcome) ==
  /\ handler[c] = "running"
  /\ handler' = [handler EXCEPT ![c] = "settled"]
  /\ IF call[c] = "executing" THEN Answer(c, outcome) ELSE UNCHANGED <<call, answered, log>>
  /\ UNCHANGED <<windowVars, policies>>

(* Mutant: the timer is looked at only when the handler has settled.       *)
TimerFiresLast(c) ==
  /\ call[c] = "executing" /\ handler[c] = "settled"
  /\ Answer(c, "EXECUTION_TIMEOUT")
  /\ UNCHANGED <<windowVars, policies, handler>>

TimerFires(c) ==
  /\ call[c] = "executing"
  /\ Answer(c, "EXECUTION_TIMEOUT")
  /\ UNCHANGED <<windowVars, policies, handler>>

GuardNext ==
  \/ now < LastMoment /\ Passes /\ UNCHANGED guardVars
  \/ \E c \in Calls : SetPolicy(KeyOf[c])
  \/ \E c \in Calls :
       \/ \E registered, inHours, valid \in BOOLEAN : Execute(c, registered, inHours, valid)
       \/ \E outcome \in {"ok", "threw"} : HandlerSettles(c, outcome)
       \/ TimerFires(c)

(* Timers fire; a handler need not ever settle.                            *)
GuardFairness == \A c \in Calls : WF_<<windowVars, guardVars>>(TimerFires(c))

GuardSpec == WindowInit /\ GuardInit /\ [][GuardNext]_<<windowVars, guardVars>> /\ GuardFairness

-----------------------------------------------------------------------------
(* The log has one entry for each call that was answered, and it tells     *)
(* what the caller was told, also when the handler ends after the timer or *)
(* fails afterwards (guard.ts:203-231).                                    *)
LogTellsTheAnswer ==
  \A c \in Calls :
    SelectSeq(log, LAMBDA e : e[1] = c) = IF call[c] = "answered" THEN <<<<c, answered[c]>>>> ELSE <<>>

(* A handler that never returns does not hold its caller.                  *)
ExecutionEnds == \A c \in Calls : call[c] = "executing" ~> call[c] = "answered"

(* Every call ends, with the log telling what its caller was told.         *)
GuardKept == [](GuardTypeOK /\ LogTellsTheAnswer) /\ ExecutionEnds
=============================================================================
