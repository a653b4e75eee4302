--------------------------- MODULE CertificateBook ---------------------------
(***************************************************************************)
(* What the certificate service promises, without requests, transactions   *)
(* or tables: a book with one chain of certificates per workspace, in      *)
(* which issuing a certificate appends it, charges for it and leaves       *)
(* evidence of it in one indivisible step, and revoking does the same.     *)
(***************************************************************************)
EXTENDS Integers, Sequences

CONSTANTS Workspaces, Certificates

VARIABLES
  chain,      \* the certificates of each workspace, in order
  revoked,    \* the revoked certificates
  charged,    \* the number of certificates each workspace was charged for
  evidence    \* the events on record

book == <<chain, revoked, charged, evidence>>

InChain(w) == {chain[w][n] : n \in 1..Len(chain[w])}
InBook     == UNION {InChain(w) : w \in Workspaces}

Init ==
  /\ chain = [w \in Workspaces |-> <<>>]
  /\ revoked = {}
  /\ charged = [w \in Workspaces |-> 0]
  /\ evidence = {}

Issue(w, c) ==
  /\ c \notin InBook
  /\ chain' = [chain EXCEPT ![w] = Append(@, c)]
  /\ charged' = [charged EXCEPT ![w] = @ + 1]
  /\ evidence' = evidence \cup {[type |-> "certificate_issued", of |-> c]}
  /\ UNCHANGED revoked

Revoke(c) ==
  /\ c \in InBook \ revoked
  /\ revoked' = revoked \cup {c}
  /\ evidence' = evidence \cup {[type |-> "certificate_revoked", of |-> c]}
  /\ UNCHANGED <<chain, charged>>

Next ==
  \/ \E w \in Workspaces, c \in Certificates : Issue(w, c)
  \/ \E c \in Certificates : Revoke(c)

Spec == Init /\ [][Next]_book

=============================================================================
