--------------------------- MODULE CertificateReads ---------------------------
(***************************************************************************)
(* The read routes of server/api/seal-service.ts that follow a workspace's *)
(* certificates while they are issued and revoked: the list that is read   *)
(* page by page, the HTML proof page and the certificate file.             *)
(*                                                                         *)
(* created_at is the moment at which the issuing transaction began; it     *)
(* then waits for the workspace's row, and its certificate is seen when it *)
(* commits.  PostgreSQL keeps moments finer than the milliseconds of the   *)
(* date that the list answers as its cursor.                               *)
(***************************************************************************)
EXTENDS Integers, Sequences, FiniteSets

CONSTANTS
  Certificates,
  Categories,        \* the category of each certificate, in its metadata
  PerMillisecond,    \* moments in a millisecond
  MaxMoment,         \* (bound)
  DefaultPage, MostPage,   \* 50 and 100 in the code
  ListQueries,       \* what a list is filtered by: a status or category, and the oldest moment
  MaxReadings        \* paging runs of the reader (bound)

ASSUME CertificateReadsAssumption ==
  /\ {PerMillisecond, DefaultPage, MostPage} \subseteq Nat \ {0}
  /\ DefaultPage <= MostPage /\ {MaxMoment, MaxReadings} \subseteq Nat
  /\ IsFiniteSet(Certificates)

VARIABLES
  moment,       \* the database's clock
  issue,        \* for each certificate: how far its transaction is, and created_at
  status,       \* for each certificate: "sealed" or "revoked"
  reading       \* the reader's run through the list

readsVars == <<moment, issue, status, reading>>

NoCursor == -1
AnyOf == "any"
NotReading == [at |-> "idle", runs |-> 0, cursor |-> NoCursor, limit |-> 0, filter |-> AnyOf, from |-> 0,
         listed |-> <<>>, asked |-> {}]

Visible == {c \in Certificates : issue[c].at = "committed"}

ReadsInit ==
  /\ moment = 0
  /\ issue = [c \in Certificates |-> [at |-> "none", created |-> 0]]
  /\ status = [c \in Certificates |-> "sealed"]
  /\ reading = NotReading

MomentPasses ==
  /\ moment < MaxMoment
  /\ moment' = moment + 1
  /\ UNCHANGED <<issue, status, reading>>

-----------------------------------------------------------------------------
(* POST /api/v1/seals, as the readers see it: BEGIN and, after the waits   *)
(* for the workspace's row, COMMIT; one that rolls back is never seen.     *)
BeginIssue(c) ==
  /\ issue[c].at = "none"
  /\ issue' = [issue EXCEPT ![c] = [at |-> "begun", created |-> moment]]
  /\ UNCHANGED <<moment, status, reading>>

CommitIssue(c) ==
  /\ issue[c].at = "begun"
  /\ issue' = [issue EXCEPT ![c].at = "committed"]
  /\ UNCHANGED <<moment, status, reading>>

(* POST /api/v1/seals/:sealId/revoke, with its proof hidden (621).         *)
RevokeCertificate(c) ==
  /\ c \in Visible /\ status[c] = "sealed"
  /\ status' = [status EXCEPT ![c] = "revoked"]
  /\ UNCHANGED <<moment, issue, reading>>

-----------------------------------------------------------------------------
(* The limit of a page: 0 stands for one that is missing or no number.     *)
PageLimit(raw) == LET n == IF raw = 0 THEN DefaultPage ELSE raw
                  IN IF n < 1 THEN 1 ELSE IF n > MostPage THEN MostPage ELSE n

Matches(c, filter, from) ==
  /\ issue[c].created >= from
  /\ filter \in {AnyOf, status[c], Categories[c]}

(* Mutant: a certificate of the cursor's own moment is listed again.       *)
BeforeOrAt(c, cursor) == cursor = NoCursor \/ issue[c].created <= cursor

(* created_at < cursor                                                     *)
BeforeCursor(c, cursor) == cursor = NoCursor \/ issue[c].created < cursor

(* Mutant: the oldest come first.                                          *)
OldestPage(limit, rows) ==
  {page \in SUBSET rows :
     /\ Cardinality(page) = IF Cardinality(rows) < limit THEN Cardinality(rows) ELSE limit
     /\ \A c \in page, d \in rows \ page : issue[c].created <= issue[d].created}

(* ORDER BY created_at DESC LIMIT: the pages it may answer; rows of one    *)
(* moment come in any order.                                               *)
Pages(limit, rows) ==
  {page \in SUBSET rows :
     /\ Cardinality(page) = IF Cardinality(rows) < limit THEN Cardinality(rows) ELSE limit
     /\ \A c \in page, d \in rows \ page : issue[c].created >= issue[d].created}

Oldest(page) == CHOOSE m \in {issue[c].created : c \in page} : \A c \in page : m <= issue[c].created

(* createdAt of the last row, as the date that the answer holds.           *)
CursorOf(page) == PerMillisecond * (Oldest(page) \div PerMillisecond)

StartReading ==
  /\ reading.at = "idle" /\ reading.runs < MaxReadings
  /\ \E raw \in -1 .. MostPage + 1, query \in ListQueries :
       reading' = [NotReading EXCEPT !.at = "paging", !.runs = reading.runs + 1, !.limit = PageLimit(raw),
                               !.filter = query[1], !.from = query[2],
                               !.asked = {c \in Visible : Matches(c, query[1], query[2])}]
  /\ UNCHANGED <<moment, issue, status>>

(* GET .../seals with the cursor of the page before.                       *)
ReadPage ==
  LET rows == {c \in Visible : Matches(c, reading.filter, reading.from) /\ BeforeCursor(c, reading.cursor)}
  IN /\ reading.at = "paging"
     /\ \E page \in Pages(reading.limit, rows) :
          reading' = [reading EXCEPT !.listed = Append(@, page),
                                     !.at = IF Cardinality(page) = reading.limit THEN "paging" ELSE "read",
                                     !.cursor = IF page = {} THEN @ ELSE CursorOf(page)]
     /\ UNCHANGED <<moment, issue, status>>

StopReading ==
  /\ reading.at = "read"
  /\ reading' = [NotReading EXCEPT !.runs = reading.runs]
  /\ UNCHANGED <<moment, issue, status>>

-----------------------------------------------------------------------------
(* Mutant: the page forgets that the proof may be hidden.                  *)
PageOfAnyProof(c) == IF c \notin Visible THEN "404" ELSE "page"

(* GET /proof/:proofId: a page that verifies the hash only, with a link to *)
(* the file; "404" unless the proof is public.                             *)
ProofPage(c) == IF c \notin Visible \/ status[c] = "revoked" THEN "404" ELSE "page"

(* GET /api/v1/seals/:sealId/certificate: the file calls every certificate *)
(* linked and publicly verifiable, whatever its status.                    *)
CertificateFile(c) == IF c \notin Visible THEN "404" ELSE "verifiable"

ReadsNext ==
  \/ MomentPasses \/ StartReading \/ ReadPage \/ StopReading
  \/ \E c \in Certificates : BeginIssue(c) \/ CommitIssue(c) \/ RevokeCertificate(c)

ReadsSpec == ReadsInit /\ [][ReadsNext]_readsVars

-----------------------------------------------------------------------------
PagesRead == DOMAIN reading.listed
ListedBy(n) == UNION {reading.listed[m] : m \in 1 .. n}

(* A list that is read to its end while certificates are issued and        *)
(* revoked names none twice, goes back in time from page to page, and      *)
(* misses of those that matched all along only such as share the           *)
(* millisecond in which a full page ended (seal-service.ts:990-1033).      *)
ListIsWhole ==
  /\ \A m, n \in PagesRead : m < n =>
       \A c \in reading.listed[m], d \in reading.listed[n] : issue[c].created > issue[d].created
  /\ reading.at = "read" =>
       \A c \in reading.asked \ ListedBy(Len(reading.listed)) :
         \/ ~Matches(c, reading.filter, reading.from)
         \/ \E n \in PagesRead : /\ Cardinality(reading.listed[n]) = reading.limit
                                 /\ CursorOf(reading.listed[n]) <= issue[c].created
                                 /\ issue[c].created <= Oldest(reading.listed[n])

(* The file of a certificate can be had from every page that shows it, and *)
(* also after its page is gone (seal-service.ts:872, 1058, 1151).          *)
PagesAreVerifiable ==
  \A c \in Certificates :
    /\ ProofPage(c) = "page" => CertificateFile(c) = "verifiable" /\ status[c] = "sealed"
    /\ CertificateFile(c) = "verifiable" /\ ProofPage(c) = "404" => status[c] = "revoked"

ReadsHonest == ListIsWhole /\ PagesAreVerifiable
=============================================================================
