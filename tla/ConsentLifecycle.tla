--------------------------- MODULE ConsentLifecycle ---------------------------
(***************************************************************************)
(* The transition rules of a consent timeline                              *)
(* (src/domain/consent/lifecycle.ts) and the data that the write path      *)
(* passes around: the canonical request body, the row of table consents    *)
(* and the entry that one recorded action adds to the ledger.              *)
(***************************************************************************)
EXTENDS Naturals

CONSTANTS
    Timeline,  \* consent identities: (company, external user, purpose code)
    Details    \* the rest of a request body: (policy_ref, occurred_at)

Action == {"GRANT", "UPDATE", "REVOKE"}

Status == {"NONE", "GRANTED", "REVOKED"}

\* nextStatusForAction returns exactly on these pairs and throws on the others.
Allowed(status, action) ==
    (action = "GRANT") <=> (status \in {"NONE", "REVOKED"})

\* The status an allowed action leads to.
NextStatus(action) ==
    IF action = "REVOKE" THEN "REVOKED" ELSE "GRANTED"

\* What the client is told when nextStatusForAction throws (mapDomainError).
Refusal(status) ==
    IF status = "NONE" THEN "notFound" ELSE "badRequest"

\* The part of a command that computeRequestHash covers: equal hashes are
\* equal bodies.
Body == [timeline: Timeline, action: Action, details: Details]

\* A row of table consents.  insertConsent creates it as NoRow inside the
\* transaction that goes on to advance it, so a committed row that equals
\* NoRow does not exist and NoRow also stands for the absence of a row.
Row == [version: Nat, status: Status]

NoRow == [version |-> 0, status |-> "NONE"]

\* The rows of events and consent_versions that one recorded action inserts,
\* keyed by (consent_id, version_no), with the status the response reports.
Entry == [timeline: Timeline, version: Nat, action: Action,
          details: Details, status: Status]

\* The entry that a body adds to a timeline whose consents row is row.
NextEntry(row, body) ==
    [timeline |-> body.timeline, version |-> row.version + 1,
     action |-> body.action, details |-> body.details,
     status |-> NextStatus(body.action)]

\* updateConsentCurrentState: the consents row once the entry is in place.
RowAfter(entry) == [version |-> entry.version, status |-> entry.status]
===============================================================================
