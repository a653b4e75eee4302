--------------------------- MODULE CommandJournal ---------------------------
(***************************************************************************)
(* What one command bus promises of its journal: rows are added one at a   *)
(* time, one per command id, and stay; a submission is answered when its   *)
(* command is on record.                                                   *)
(***************************************************************************)
EXTENDS Naturals, Sequences

CONSTANT Ids

VARIABLES
  rows,         \* the ids on record, in order
  answered      \* the ids whose submitter has an answer

journal == <<rows, answered>>

OnRecord(id) == \E i \in DOMAIN rows : rows[i] = id

JournalInit == rows = <<>> /\ answered = {}

Record(id) ==
  /\ ~OnRecord(id)
  /\ rows' = Append(rows, id)
  /\ UNCHANGED answered

Answer(id) ==
  /\ OnRecord(id)
  /\ answered' = answered \cup {id}
  /\ UNCHANGED rows

JournalNext == \E id \in Ids : Record(id) \/ Answer(id)

JournalSpec == JournalInit /\ [][JournalNext]_journal

=============================================================================
