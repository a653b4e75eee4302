---------------------------- MODULE MCCommandBus ----------------------------
(* Finite instances of CommandBus for TLC.                                 *)
EXTENDS CommandPromises, TLC

CONSTANTS idA, keyA, nonceA, nonceB, one, two, operator

(* A command with nothing but its content, as the shell's callers send it. *)
Plain ==
  [id |-> None, key |-> None, nonce |-> None, actor |-> operator, payload |-> one,
   parent |-> None, causal |-> None, issued |-> None, valid |-> TRUE, route |-> "bridge"]

(* Named, keyed and stamped by the caller: the command that is retried.    *)
Retried == [Plain EXCEPT !.id = idA, !.key = keyA, !.nonce = nonceA, !.issued = 0]

(* The same key and nonce under a fresh id.                                *)
Rekeyed == [Retried EXCEPT !.id = None]

(* The retry under a nonce of its own.                                     *)
Renonced == [Retried EXCEPT !.nonce = nonceB]

(* The same key with another payload, and the same nonce with another key. *)
Conflict == [Plain EXCEPT !.key = keyA, !.payload = two]
OtherKey == [Plain EXCEPT !.nonce = nonceA, !.payload = two, !.route = "station"]

(* A child, one with a hash of its own, an invalid and a denied command.   *)
Child    == [Plain EXCEPT !.parent = idA, !.payload = two]
GoodHash == [Child EXCEPT !.causal = Chain(Chain(Root, one), two)]
BadHash  == [Plain EXCEPT !.id = idA, !.causal = Chain(Root, two)]
Invalid  == [Plain EXCEPT !.id = idA, !.valid = FALSE]
Denied   == [Plain EXCEPT !.id = idA, !.route = "denied"]

GuardCommands  == {Retried, Renonced, Rekeyed, Conflict, OtherKey}
CausalCommands == {Retried, Child, GoodHash, BadHash, Invalid, Denied}

SubmissionSymmetry == Permutations(Submissions)

=============================================================================
