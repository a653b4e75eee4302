------------------------------ MODULE EventBus ------------------------------
(***************************************************************************)
(* The AI room's event bus (ai/events/bus.ts).  emit puts one microtask on *)
(* the queue for each matching subscription, in the order the              *)
(* subscriptions were made, and returns; a handler runs in its microtask   *)
(* and may itself emit, subscribe and unsubscribe; what it throws is       *)
(* swallowed.  Between microtasks the program's own turns do the same.     *)
(*                                                                         *)
(*   subscriptions  ids, oldest first (a Map keeps the insertion order)    *)
(*   micro          the microtasks: <<subscription, event>>                *)
(*   emitted        the types of the events so far; an event is its index  *)
(*   born, gone     history: how many events had been emitted when a       *)
(*                  subscription was made and when it was removed          *)
(*   ran            history: the microtasks that ran, in order             *)
(***************************************************************************)
EXTENDS Naturals, Sequences

CONSTANTS
  Subs,         \* the subscriptions that may be made
  Types,        \* event types
  TypeFilter,   \* for each subscription: the set of the types it matches
  Once,         \* those made by once
  MaxEvents     \* events emitted in a behaviour (bound)

ASSUME EventBusAssumption ==
  /\ Once \subseteq Subs /\ MaxEvents \in Nat
  /\ TypeFilter \in [Subs -> SUBSET Types]

VARIABLES subscriptions, micro, emitted, born, gone, ran

busVars == <<subscriptions, micro, emitted, born, gone, ran>>

NotYet == MaxEvents + 1

BusInit ==
  /\ subscriptions = <<>> /\ micro = <<>> /\ emitted = <<>> /\ ran = <<>>
  /\ born = [s \in Subs |-> NotYet]
  /\ gone = [s \in Subs |-> NotYet]

BusTypeOK ==
  /\ subscriptions \in Seq(Subs) /\ emitted \in Seq(Types)
  /\ micro \in Seq(Subs \X (1 .. MaxEvents)) /\ ran \in Seq(Subs \X (1 .. MaxEvents))
  /\ born \in [Subs -> 0 .. NotYet] /\ gone \in [Subs -> 0 .. NotYet]

-----------------------------------------------------------------------------
Matching(subs, type) == SelectSeq(subs, LAMBDA s : type \in TypeFilter[s])

Pairs(subs, event) == [i \in 1 .. Len(subs) |-> <<subs[i], event>>]

(* Mutant: an event waits behind nothing.                                  *)
DispatchedFirst(subs, queue, type) == Pairs(Matching(subs, type), Len(emitted) + 1) \o queue

(* dispatch: a microtask for each matching subscription.                   *)
Dispatched(subs, queue, type) == queue \o Pairs(Matching(subs, type), Len(emitted) + 1)

(* What the running code does next, given the subscriptions and microtasks *)
(* at that moment: emit, subscribe or unsubscribe, or nothing.             *)
Emit(subs, queue, type) ==
  /\ Len(emitted) < MaxEvents
  /\ emitted' = Append(emitted, type)
  /\ micro' = Dispatched(subs, queue, type)
  /\ subscriptions' = subs
  /\ UNCHANGED born

Subscribe(subs, queue, s) ==
  /\ born[s] = NotYet
  /\ born' = [born EXCEPT ![s] = Len(emitted)]
  /\ subscriptions' = Append(subs, s)
  /\ micro' = queue
  /\ UNCHANGED emitted

Without(subs, s) == SelectSeq(subs, LAMBDA u : u # s)
Removed(away) == [s \in Subs |-> IF s \in away /\ gone[s] = NotYet /\ born[s] # NotYet THEN Len(emitted) ELSE gone[s]]

(* Mutant: the microtasks that wait for it go, too.                        *)
UnsubscribeDroppingMicrotasks(subs, queue, s, away) ==
  /\ born[s] # NotYet
  /\ subscriptions' = Without(subs, s)
  /\ micro' = SelectSeq(queue, LAMBDA m : m[1] # s)
  /\ gone' = Removed(away \cup {s})
  /\ UNCHANGED <<emitted, born>>

Unsubscribe(subs, queue, s, away) ==
  /\ born[s] # NotYet
  /\ subscriptions' = Without(subs, s)
  /\ micro' = queue
  /\ gone' = Removed(away \cup {s})
  /\ UNCHANGED <<emitted, born>>

Nothing(subs, queue) ==
  /\ subscriptions' = subs /\ micro' = queue
  /\ UNCHANGED <<emitted, born>>

(* One operation of code that runs with these subscriptions and            *)
(* microtasks; away are the subscriptions removed in the same turn.        *)
Operation(subs, queue, away) ==
  \/ \E type \in Types : Emit(subs, queue, type) /\ gone' = Removed(away)
  \/ \E s \in Subs : Subscribe(subs, queue, s) /\ gone' = Removed(away)
  \/ \E s \in Subs : Unsubscribe(subs, queue, s, away)

(* Mutant: once unsubscribes when its handler has returned.                *)
RunMicrotaskOnceLast ==
  /\ micro # <<>>
  /\ ran' = Append(ran, Head(micro))
  /\ LET s    == Head(micro)[1]
         away == IF s \in Once THEN {s} ELSE {}
         rest == Tail(micro)
     IN \/ \E type \in Types :
             /\ Len(emitted) < MaxEvents
             /\ emitted' = Append(emitted, type)
             /\ micro' = Dispatched(subscriptions, rest, type)
             /\ subscriptions' = IF s \in Once THEN Without(subscriptions, s) ELSE subscriptions
             /\ gone' = Removed(away)
             /\ UNCHANGED born
        \/ Nothing(IF s \in Once THEN Without(subscriptions, s) ELSE subscriptions, rest) /\ gone' = Removed(away)

(* The oldest microtask runs its handler, once's wrapper first: it removes *)
(* the subscription, then calls the handler.                               *)
RunMicrotask ==
  /\ micro # <<>>
  /\ ran' = Append(ran, Head(micro))
  /\ LET s    == Head(micro)[1]
         away == IF s \in Once THEN {s} ELSE {}
         subs == IF s \in Once THEN Without(subscriptions, s) ELSE subscriptions
     IN \/ Operation(subs, Tail(micro), away)
        \/ Nothing(subs, Tail(micro)) /\ gone' = Removed(away)

(* A turn of the program: any operation.  The microtasks of a turn run     *)
(* before the next turn, but a turn may do several operations.             *)
ProgramOperation ==
  /\ Operation(subscriptions, micro, {})
  /\ UNCHANGED ran

BusNext == RunMicrotask \/ ProgramOperation

BusSpec == BusInit /\ [][BusNext]_busVars

-----------------------------------------------------------------------------
EventsOf(s, tasks) == LET own == SelectSeq(tasks, LAMBDA m : m[1] = s) IN [i \in 1 .. Len(own) |-> own[i][2]]

(* Whatever handlers do in between, a subscription is handed exactly the   *)
(* events of its type that were emitted after it was made and before it    *)
(* was removed, each once and in the order of emission, also those whose   *)
(* microtask is still waiting when it is removed (bus.ts:68-150).          *)
DeliveredExactly ==
  \A s \in Subs :
    EventsOf(s, ran) \o EventsOf(s, micro) =
      SelectSeq([i \in 1 .. Len(emitted) |-> i],
                LAMBDA e : emitted[e] \in TypeFilter[s] /\ born[s] < e /\ e <= gone[s])

(* No handler sees an event before another handler has seen an older one   *)
(* that both match: deliveries never overtake, also those of events that   *)
(* handlers emit (queueMicrotask).                                         *)
DeliveriesInOrder == \A i, k \in 1 .. Len(ran) : i < k => ran[i][2] <= ran[k][2]

(* A once handler may run more than once, for events emitted before its    *)
(* first run, but an event emitted in or after that run never reaches it   *)
(* (bus.ts:144-150 unsubscribes before it calls the handler).              *)
OnceRunsForNoLaterEvent ==
  [][\A s \in Once :
       (\E i \in 1 .. Len(ran)' : ran'[i][1] = s) =>
         \A i \in 1 .. Len(micro)' : micro'[i][1] = s => micro'[i][2] <= Len(emitted)]_busVars

(* What emitters and subscribers may count on.                             *)
DeliverySound == BusTypeOK /\ DeliveredExactly /\ DeliveriesInOrder
=============================================================================
