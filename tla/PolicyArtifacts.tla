---------------------------- MODULE PolicyArtifacts ----------------------------
(***************************************************************************)
(* Policy artifacts (policyService.ts, policyRepository.ts): versions that *)
(* are drafted, published by requests that may overlap, and guarded by the *)
(* trigger of 004_policy_artifacts.cjs against every later change of their *)
(* content.  SdkClient composes them with the clients that create widget   *)
(* sessions under a published version.                                     *)
(*                                                                         *)
(* Publishing is two statements of one READ COMMITTED transaction without  *)
(* a lock between them, hence two actions.  A hash is named by the content *)
(* it was computed from.                                                   *)
(***************************************************************************)
CONSTANTS
    Version,     \* company_id, policy_ref, version
    Content,     \* what a version says: locales, legal version, ui schema
    Publisher    \* calls of POST .../publish

ASSUME NoneIsNoContent == <<>> \notin Content

VARIABLES
    state,       \* version -> state, "absent" without a row
    content,     \* version -> the content columns
    hash,        \* version -> policy_content_hash
    publishing,  \* publish call -> "idle", "update", "done"
    subject,     \* publish call -> the version it publishes
    published    \* publish call -> the state in its answer

policyVars == <<state, content, hash, publishing, subject, published>>

\* No content, no version, no row.
None == <<>>

\* No statement of the service sets DEPRECATED.
PolicyState == {"absent", "DRAFT", "PUBLISHED"}

PublishAnswer == {"none", "DRAFT", "PUBLISHED"}

PolicyInit ==
    /\ state = [v \in Version |-> "absent"]
    /\ content = [v \in Version |-> None]
    /\ hash = [v \in Version |-> None]
    /\ publishing = [p \in Publisher |-> "idle"]
    /\ subject = [p \in Publisher |-> None]
    /\ published = [p \in Publisher |-> "none"]

\* createDraft; a version that exists is refused by policy_artifacts_identity_uniq.
CreateDraft(v, x) ==
    /\ state[v] = "absent"
    /\ state' = [state EXCEPT ![v] = "DRAFT"]
    /\ content' = [content EXCEPT ![v] = x]
    /\ hash' = [hash EXCEPT ![v] = x]
    /\ UNCHANGED <<publishing, subject, published>>

\* The trigger is missing (mutated form).
AmendPublished(v, x, h) ==
    /\ state[v] # "absent"
    /\ content' = [content EXCEPT ![v] = x]
    /\ hash' = [hash EXCEPT ![v] = h]
    /\ UNCHANGED <<state, publishing, subject, published>>

\* An UPDATE made by hand, the only one there is of the columns that
\* prevent_policy_mutation guards.  No statement of the service makes it.
Amend(v, x, h) ==
    /\ state[v] = "DRAFT"
    /\ content' = [content EXCEPT ![v] = x]
    /\ hash' = [hash EXCEPT ![v] = h]
    /\ UNCHANGED <<state, publishing, subject, published>>

AnswerPublish(p, a) ==
    /\ publishing' = [publishing EXCEPT ![p] = "done"]
    /\ published' = [published EXCEPT ![p] = a]

\* getPolicyArtifact in publish, when the row that it reads is a draft whose hash
\* is that of its content.
ReadDraft(p, v) ==
    /\ publishing[p] = "idle"
    /\ state[v] = "DRAFT" /\ hash[v] = content[v]
    /\ publishing' = [publishing EXCEPT ![p] = "update"]
    /\ subject' = [subject EXCEPT ![p] = v]
    /\ UNCHANGED <<state, content, hash, published>>

\* A version that is published is answered as it was read.  One that does not
\* exist, or whose hash is not that of its content, is an error, after which the
\* caller may try again: it changes nothing here.
ReadPublished(p, v) ==
    /\ publishing[p] = "idle"
    /\ state[v] = "PUBLISHED"
    /\ subject' = [subject EXCEPT ![p] = v]
    /\ AnswerPublish(p, "PUBLISHED")
    /\ UNCHANGED <<state, content, hash>>

\* publishPolicyArtifact: UPDATE ... WHERE state = 'DRAFT'.  Without a row the
\* answer is the one read before, a DRAFT.
UpdateForPublish(p) ==
    /\ publishing[p] = "update"
    /\ IF state[subject[p]] = "DRAFT"
       THEN /\ state' = [state EXCEPT ![subject[p]] = "PUBLISHED"]
            /\ AnswerPublish(p, "PUBLISHED")
       ELSE UNCHANGED state /\ AnswerPublish(p, "DRAFT")
    /\ UNCHANGED <<content, hash, subject>>

PolicyNext ==
    \/ \E v \in Version, x \in Content : CreateDraft(v, x)
    \/ \E v \in Version, x, h \in Content : Amend(v, x, h)
    \/ \E p \in Publisher, v \in Version : ReadDraft(p, v) \/ ReadPublished(p, v)
    \/ \E p \in Publisher : UpdateForPublish(p)

PolicyTypeOK ==
    /\ state \in [Version -> PolicyState]
    /\ content \in [Version -> Content \cup {None}]
    /\ hash \in [Version -> Content \cup {None}]
    /\ publishing \in [Publisher -> {"idle", "update", "done"}]
    /\ subject \in [Publisher -> Version \cup {None}]
    /\ published \in [Publisher -> PublishAnswer]
    /\ \A p \in Publisher : publishing[p] # "idle" => subject[p] \in Version

===============================================================================
