---------------------------- MODULE SdkClientProofs ----------------------------
(***************************************************************************)
(* Proofs about SdkClient and the PolicyArtifacts it extends, for any      *)
(* versions, contents, calls and maxAttempts.                              *)
(***************************************************************************)
EXTENDS SdkClient, TLAPS

\* A version that exists has a content; a publish call that has an answer is done,
\* one that is to update has read a row.
PolicyInv ==
    /\ \A v \in Version : state[v] # "absent" => content[v] \in Content /\ hash[v] \in Content
    /\ \A p \in Publisher : published[p] # "none" => publishing[p] = "done"
    /\ \A p \in Publisher : publishing[p] = "update" => state[subject[p]] # "absent"

\* What a session was created under is still there: this is what the guard of
\* createSession and the trigger on policy_artifacts are for.
Pinned ==
    \A s \in sessions :
        /\ state[s.version] = "PUBLISHED"
        /\ hash[s.version] = s.hash
        /\ content[s.version] = s.text

\* Tokens are tokens of sessions.
TokensExist ==
    \A c \in Call :
        pc[c] # "idle" /\ req[c].op \in {"submit", "bootstrap"} => req[c].target \in sessions

\* IsTrue without what Pinned says of all sessions.
Holds(c, a) ==
    /\ req[c].op = "create" =>
          a.body \in sessions /\ a.body.call = c /\ a.body.no = attempt[c]
    /\ req[c].op = "endpoint" => [call |-> c, no |-> attempt[c]] \in endpoints
    /\ req[c].op = "bootstrap" => a.body = req[c].target.text
    /\ req[c].op = "submit" => \E x \in submitted : x.session = req[c].target

\* Responses are there while they are waited for, answers when the call is done.
Told ==
    \A c \in Call :
        /\ reply[c].type # "none" => pc[c] = "waiting"
        /\ answer[c].type # "none" => pc[c] = "done"
        /\ reply[c].type = "ok" => Holds(c, reply[c])
        /\ answer[c].type = "ok" => Holds(c, answer[c])

\* The loop: attempts are left when it goes round, and it goes round only if the
\* request may be repeated.
Counted ==
    \A c \in Call :
        /\ pc[c] = "idle" => attempt[c] = 0
        /\ pc[c] = "ready" => attempt[c] < Bound
        /\ pc[c] \in {"waiting", "done"} => attempt[c] >= 1
        /\ pc[c] = "ready" /\ attempt[c] >= 1 => MayRepeat(req[c])
        /\ attempt[c] > 1 => MayRepeat(req[c])

\* A request under way is waited for or in doubt, and has made nothing yet.
SentInv ==
    \A c \in Call, n \in 1 .. Bound : <<c, n>> \in sent =>
        /\ n <= attempt[c]
        /\ \A x \in Rows : ~(x.call = c /\ x.no = n)
        /\ \/ <<c, n>> \in doubt
           \/ n = attempt[c] /\ pc[c] = "waiting" /\ reply[c].type = "none"

\* The client knows of attempt n of the call c, or will, or is in doubt.
Known(c, n) ==
    \/ <<c, n>> \in doubt
    \/ n = attempt[c] /\ pc[c] = "waiting" /\ reply[c].type \in {"ok", "validation"}
    \/ n = attempt[c] /\ pc[c] = "done" /\ answer[c].type \in {"ok", "validation"}

RowsInv ==
    /\ \A x, y \in Rows : x.call = y.call /\ x.no = y.no => x = y
    /\ \A x \in Rows :
          /\ x.call \in Call /\ x.no \in 1 .. Bound
          /\ x.no <= attempt[x.call] /\ Known(x.call, x.no)

IInv ==
    TypeOK /\ PolicyInv /\ Pinned /\ TokensExist /\ Told /\ Counted /\ SentInv /\ RowsInv

-------------------------------------------------------------------------------
LEMMA BoundType == Bound \in Nat \ {0}
  BY MaxAttemptsType DEF Bound

LEMMA InitInv == Init => IInv
  <1> SUFFICES ASSUME Init PROVE IInv  OBVIOUS
  <1> USE DEF Init, PolicyInit, SdkInit
  <1>1. TypeOK
    BY BoundType DEF TypeOK, PolicyTypeOK, PolicyState, PublishAnswer, Answer, Plain
  <1>2. PolicyInv  BY DEF PolicyInv
  <1>3. Pinned  BY DEF Pinned
  <1>4. TokensExist  BY DEF TokensExist
  <1>5. Told  BY DEF Told, Plain
  <1>6. Counted  BY DEF Counted
  <1>7. SentInv  BY DEF SentInv
  <1>8. RowsInv  BY DEF RowsInv, Rows
  <1> QED  BY <1>1, <1>2, <1>3, <1>4, <1>5, <1>6, <1>7, <1>8 DEF IInv

-------------------------------------------------------------------------------
(* Steps on policies leave the clients and the rows as they are.           *)

LEMMA PolicyType ==
  ASSUME PolicyTypeOK, PolicyInv, PolicyNext
  PROVE  PolicyTypeOK'
  <1> USE DEF PolicyTypeOK, PolicyState, PublishAnswer
  <1>1. ASSUME NEW v \in Version, NEW x \in Content, CreateDraft(v, x)
        PROVE  PolicyTypeOK'
    BY <1>1 DEF CreateDraft
  <1>2. ASSUME NEW v \in Version, NEW x \in Content, NEW h \in Content, Amend(v, x, h)
        PROVE  PolicyTypeOK'
    BY <1>2 DEF Amend
  <1>3. ASSUME NEW p \in Publisher, NEW v \in Version, ReadDraft(p, v)
        PROVE  PolicyTypeOK'
    BY <1>3 DEF ReadDraft
  <1>4. ASSUME NEW p \in Publisher, NEW v \in Version, ReadPublished(p, v)
        PROVE  PolicyTypeOK'
    BY <1>4 DEF ReadPublished, AnswerPublish
  <1>5. ASSUME NEW p \in Publisher, UpdateForPublish(p)
        PROVE  PolicyTypeOK'
    <2>1. state' \in [Version -> PolicyState]
      BY <1>5 DEF UpdateForPublish
    <2>2. publishing' \in [Publisher -> {"idle", "update", "done"}]
          /\ published' \in [Publisher -> PublishAnswer]
          /\ publishing' = [publishing EXCEPT ![p] = "done"]
      BY <1>5 DEF UpdateForPublish, AnswerPublish
    <2> QED  BY <1>5, <2>1, <2>2 DEF UpdateForPublish
  <1> QED  BY <1>1, <1>2, <1>3, <1>4, <1>5 DEF PolicyNext

LEMMA PolicyStepInv ==
  ASSUME PolicyTypeOK, PolicyInv, PolicyNext
  PROVE  PolicyInv'
  <1> USE DEF PolicyTypeOK, PolicyInv
  <1>1. ASSUME NEW v \in Version, NEW x \in Content, CreateDraft(v, x)
        PROVE  PolicyInv'
    BY <1>1 DEF CreateDraft
  <1>2. ASSUME NEW v \in Version, NEW x \in Content, NEW h \in Content, Amend(v, x, h)
        PROVE  PolicyInv'
    BY <1>2 DEF Amend
  <1>3. ASSUME NEW p \in Publisher, NEW v \in Version, ReadDraft(p, v)
        PROVE  PolicyInv'
    BY <1>3 DEF ReadDraft
  <1>4. ASSUME NEW p \in Publisher, NEW v \in Version, ReadPublished(p, v)
        PROVE  PolicyInv'
    BY <1>4 DEF ReadPublished, AnswerPublish
  <1>5. ASSUME NEW p \in Publisher, UpdateForPublish(p)
        PROVE  PolicyInv'
    <2>1. CASE state[subject[p]] = "DRAFT"
      <3>1. state' = [state EXCEPT ![subject[p]] = "PUBLISHED"]
            /\ publishing' = [publishing EXCEPT ![p] = "done"]
            /\ published' = [published EXCEPT ![p] = "PUBLISHED"]
            /\ UNCHANGED <<content, hash, subject>>
            /\ subject[p] \in Version
        BY <1>5, <2>1 DEF UpdateForPublish, AnswerPublish
      <3> QED  BY <2>1, <3>1
    <2>2. CASE state[subject[p]] # "DRAFT"
      <3>1. publishing' = [publishing EXCEPT ![p] = "done"]
            /\ published' = [published EXCEPT ![p] = "DRAFT"]
            /\ UNCHANGED <<state, content, hash, subject>>
            /\ subject[p] \in Version
        BY <1>5, <2>2 DEF UpdateForPublish, AnswerPublish
      <3>2. state[subject[p]] = "PUBLISHED"
        BY <1>5, <2>2, <3>1 DEF UpdateForPublish, PolicyState
      <3> QED  BY <3>1, <3>2
    <2> QED  BY <2>1, <2>2
  <1> QED  BY <1>1, <1>2, <1>3, <1>4, <1>5 DEF PolicyNext

\* A published version keeps its state, its content and its hash.
LEMMA PublishedIsFrozen ==
  ASSUME PolicyTypeOK, PolicyInv, PolicyNext, NEW v \in Version, state[v] = "PUBLISHED"
  PROVE  state'[v] = "PUBLISHED" /\ content'[v] = content[v] /\ hash'[v] = hash[v]
  <1> USE DEF PolicyTypeOK
  <1>1. ASSUME NEW w \in Version, NEW x \in Content, CreateDraft(w, x)
        PROVE  state'[v] = "PUBLISHED" /\ content'[v] = content[v] /\ hash'[v] = hash[v]
    BY <1>1 DEF CreateDraft
  <1>2. ASSUME NEW w \in Version, NEW x \in Content, NEW h \in Content, Amend(w, x, h)
        PROVE  state'[v] = "PUBLISHED" /\ content'[v] = content[v] /\ hash'[v] = hash[v]
    BY <1>2 DEF Amend
  <1>3. ASSUME NEW p \in Publisher, NEW w \in Version, ReadDraft(p, w) \/ ReadPublished(p, w)
        PROVE  state'[v] = "PUBLISHED" /\ content'[v] = content[v] /\ hash'[v] = hash[v]
    BY <1>3 DEF ReadDraft, ReadPublished
  <1>4. ASSUME NEW p \in Publisher, UpdateForPublish(p)
        PROVE  state'[v] = "PUBLISHED" /\ content'[v] = content[v] /\ hash'[v] = hash[v]
    BY <1>4 DEF UpdateForPublish
  <1> QED  BY <1>1, <1>2, <1>3, <1>4 DEF PolicyNext

LEMMA PoliciesInv ==
  ASSUME IInv, Policies
  PROVE  IInv'
  <1> USE DEF Policies, client, service
  <1>1. PolicyTypeOK' /\ PolicyInv'
    BY PolicyType, PolicyStepInv DEF IInv, TypeOK
  <1>2. TypeOK'
    <2>1. PolicyTypeOK'  BY <1>1
    <2> QED  BY <2>1 DEF IInv, TypeOK
  <1>3. Pinned'
    <2> SUFFICES ASSUME NEW s \in sessions
                 PROVE  /\ state'[s.version] = "PUBLISHED"
                        /\ hash'[s.version] = s.hash
                        /\ content'[s.version] = s.text
      BY DEF Pinned
    <2>1. s.version \in Version  BY DEF IInv, TypeOK, Session
    <2> QED  BY <2>1, PublishedIsFrozen DEF IInv, TypeOK, Pinned
  <1>4. TokensExist'  BY DEF IInv, TokensExist
  <1>5. Told'  BY DEF IInv, Told, Holds
  <1>6. Counted'  BY DEF IInv, Counted
  <1>7. SentInv'  BY DEF IInv, SentInv, Rows
  <1>8. RowsInv'  BY DEF IInv, RowsInv, Rows, Known
  <1> QED  BY <1>1, <1>2, <1>3, <1>4, <1>5, <1>6, <1>7, <1>8 DEF IInv

-------------------------------------------------------------------------------
(* Steps of the client.                                                    *)

\* What a call has been told stays so while the call rests and rows are only added.
LEMMA ToldKept ==
  ASSUME Told, NEW d \in Call,
         pc'[d] = pc[d] /\ req'[d] = req[d] /\ attempt'[d] = attempt[d],
         reply'[d] = reply[d] /\ answer'[d] = answer[d],
         sessions \subseteq sessions', endpoints \subseteq endpoints',
         submitted \subseteq submitted'
  PROVE  /\ reply'[d].type # "none" => pc'[d] = "waiting"
         /\ answer'[d].type # "none" => pc'[d] = "done"
         /\ reply'[d].type = "ok" => Holds(d, reply[d])'
         /\ answer'[d].type = "ok" => Holds(d, answer[d])'
  <1>1. /\ reply[d].type # "none" => pc[d] = "waiting"
        /\ answer[d].type # "none" => pc[d] = "done"
        /\ reply[d].type = "ok" => Holds(d, reply[d])
        /\ answer[d].type = "ok" => Holds(d, answer[d])
    BY DEF Told
  <1>2. Holds(d, reply[d]) => Holds(d, reply[d])'
    BY DEF Holds
  <1>3. Holds(d, answer[d]) => Holds(d, answer[d])'
    BY DEF Holds
  <1> QED  BY <1>1, <1>2, <1>3

LEMMA InvokeInv ==
  ASSUME IInv, NEW c \in Call, NEW r \in Request, Invoke(c, r)
  PROVE  IInv'
  <1> USE DEF Invoke, policyVars, service
  <1>0. /\ TypeOK /\ Told /\ Counted
        /\ attempt[c] = 0 /\ reply[c].type = "none" /\ answer[c].type = "none"
    BY DEF IInv, Told, Counted
  <1>1. TypeOK'
    BY DEF IInv, TypeOK, PolicyTypeOK
  <1>2. PolicyInv'  BY DEF IInv, PolicyInv
  <1>3. Pinned'  BY DEF IInv, Pinned
  <1>4. TokensExist'
    <2>1. r.op \in {"submit", "bootstrap"} => r.target \in sessions
      <3> SUFFICES ASSUME r.op \in {"submit", "bootstrap"} PROVE r.target \in sessions
        OBVIOUS
      <3>1. PICK d \in Call : /\ answer[d].type = "ok" /\ req[d].op = "create"
                              /\ r.target = answer[d].body
        BY DEF Tokens
      <3> QED  BY <1>0, <3>1 DEF Told, Holds
    <2>2. \A d \in Call \ {c} : pc'[d] = pc[d] /\ req'[d] = req[d]
      BY <1>0 DEF TypeOK
    <2>3. req'[c] = r  BY <1>0 DEF TypeOK
    <2> QED  BY <2>1, <2>2, <2>3 DEF IInv, TokensExist
  <1>5. Told'
    <2> SUFFICES ASSUME NEW d \in Call
                 PROVE  /\ reply'[d].type # "none" => pc'[d] = "waiting"
                        /\ answer'[d].type # "none" => pc'[d] = "done"
                        /\ reply'[d].type = "ok" => Holds(d, reply[d])'
                        /\ answer'[d].type = "ok" => Holds(d, answer[d])'
      BY DEF Told
    <2>1. CASE d = c  BY <1>0, <2>1
    <2>2. CASE d # c
      <3>1. req'[d] = req[d] /\ pc'[d] = pc[d]  BY <1>0, <2>2 DEF TypeOK
      <3> QED  BY <1>0, <3>1, ToldKept
    <2> QED  BY <2>1, <2>2
  <1>6. Counted'
    BY <1>0, BoundType DEF Counted, TypeOK
  <1>7. SentInv'
    BY <1>0 DEF IInv, SentInv, Rows, TypeOK
  <1>8. RowsInv'
    <2>1. \A x \in Rows : x.no <= attempt[x.call] /\ Known(x.call, x.no)'
      BY <1>0 DEF IInv, RowsInv, Known, TypeOK
    <2> QED  BY <2>1 DEF IInv, RowsInv, Rows
  <1> QED  BY <1>1, <1>2, <1>3, <1>4, <1>5, <1>6, <1>7, <1>8 DEF IInv

LEMMA AttemptInv ==
  ASSUME IInv, NEW c \in Call, Attempt(c)
  PROVE  IInv'
  <1> USE DEF Attempt, policyVars, service
  <1>0. /\ TypeOK /\ Told /\ Counted
        /\ attempt[c] \in Nat /\ attempt[c] < Bound /\ Bound \in Nat
        /\ reply[c].type = "none" /\ answer[c].type = "none"
        /\ attempt'[c] = attempt[c] + 1 /\ pc'[c] = "waiting"
        /\ \A d \in Call \ {c} : attempt'[d] = attempt[d] /\ pc'[d] = pc[d]
    BY BoundType DEF IInv, Told, Counted, TypeOK
  <1>1. TypeOK'
    <2>1. attempt' \in [Call -> 0 .. Bound]  BY <1>0 DEF TypeOK
    <2>2. sent' \subseteq Call \X (1 .. Bound)  BY <1>0 DEF TypeOK
    <2>3. pc' \in [Call -> {"idle", "ready", "waiting", "done"}]  BY <1>0 DEF TypeOK
    <2>4. \A d \in Call : pc'[d] # "idle" => req[d] \in Request  BY <1>0 DEF TypeOK
    <2> QED  BY <2>1, <2>2, <2>3, <2>4 DEF IInv, TypeOK, PolicyTypeOK
  <1>2. PolicyInv'  BY DEF IInv, PolicyInv
  <1>3. Pinned'  BY DEF IInv, Pinned
  <1>4. TokensExist'  BY <1>0 DEF IInv, TokensExist
  <1>5. Told'
    <2> SUFFICES ASSUME NEW d \in Call
                 PROVE  /\ reply'[d].type # "none" => pc'[d] = "waiting"
                        /\ answer'[d].type # "none" => pc'[d] = "done"
                        /\ reply'[d].type = "ok" => Holds(d, reply[d])'
                        /\ answer'[d].type = "ok" => Holds(d, answer[d])'
      BY DEF Told
    <2>1. CASE d = c  BY <1>0, <2>1
    <2>2. CASE d # c  BY <1>0, <2>2, ToldKept
    <2> QED  BY <2>1, <2>2
  <1>6. Counted'  BY <1>0 DEF Counted
  <1>7. SentInv'
    <2> SUFFICES ASSUME NEW d \in Call, NEW n \in 1 .. Bound, <<d, n>> \in sent'
                 PROVE  /\ n <= attempt'[d]
                        /\ \A x \in Rows : ~(x.call = d /\ x.no = n)
                        /\ \/ <<d, n>> \in doubt
                           \/ n = attempt'[d] /\ pc'[d] = "waiting" /\ reply[d].type = "none"
      BY DEF SentInv, Rows
    <2>1. CASE <<d, n>> \in sent  BY <1>0, <2>1 DEF IInv, SentInv
    <2>2. CASE d = c /\ n = attempt[c] + 1
      <3>1. \A x \in Rows : x.no \in 1 .. Bound /\ x.no <= attempt[x.call]
        BY DEF IInv, RowsInv
      <3>2. \A x \in Rows : ~(x.call = d /\ x.no = n)
        BY <1>0, <2>2, <3>1
      <3> QED  BY <1>0, <2>2, <3>2
    <2> QED  BY <2>1, <2>2
  <1>8. RowsInv'
    <2>1. ASSUME NEW d \in Call, NEW n \in 1 .. Bound, n <= attempt[d], Known(d, n)
          PROVE  n <= attempt'[d] /\ Known(d, n)'
      <3>1. CASE d = c  BY <1>0, <2>1, <3>1 DEF Known
      <3>2. CASE d # c  BY <1>0, <2>1, <3>2 DEF Known
      <3> QED  BY <3>1, <3>2
    <2> QED  BY <2>1 DEF IInv, RowsInv, Rows
  <1> QED  BY <1>1, <1>2, <1>3, <1>4, <1>5, <1>6, <1>7, <1>8 DEF IInv

\* Attempt n of the call c has ended in an error: what NoApiKey, Receive and
\* GiveUp have in common.
Ends(c, n, type, cut) ==
    /\ type \in ErrorType
    /\ Conclude(c, n, type, cut)
    /\ n \in 1 .. Bound
    /\ n > 1 => MayRepeat(req[c])
    /\ attempt' = [attempt EXCEPT ![c] = n]
    /\ reply' \in [Call -> Answer] /\ reply'[c].type = "none"
    /\ \A d \in Call \ {c} : reply'[d] = reply[d]
    /\ UNCHANGED <<policyVars, req, sent, service>>
    /\ \/ pc[c] = "ready" /\ n = attempt[c] + 1
       \/ pc[c] = "waiting" /\ n = attempt[c] /\ (cut \/ type = reply[c].type)

LEMMA EndsInv ==
  ASSUME IInv, NEW c \in Call, NEW n, NEW type, NEW cut, Ends(c, n, type, cut)
  PROVE  IInv'
  <1> USE DEF Ends, policyVars, service
  <1>0. /\ TypeOK /\ Told /\ Counted
        /\ attempt[c] \in Nat /\ attempt[c] <= n /\ n \in Nat /\ Bound \in Nat
        /\ answer[c].type = "none" /\ req[c] \in Request
        /\ attempt'[c] = n
        /\ \A d \in Call \ {c} : attempt'[d] = attempt[d]
    BY BoundType DEF IInv, Told, Counted, TypeOK
  <1>a. pc' \in [Call -> {"idle", "ready", "waiting", "done"}]
        /\ pc'[c] \in {"ready", "done"} /\ answer' \in [Call -> Answer]
        /\ \A d \in Call \ {c} : pc'[d] = pc[d] /\ answer'[d] = answer[d]
    <2>1. Plain(type) \in Answer  BY DEF Plain, Answer
    <2>2. CASE Exhausted(n) \/ ~ShouldRetry(req[c], type)
      BY <1>0, <2>1, <2>2 DEF Conclude, TypeOK
    <2>3. CASE ~(Exhausted(n) \/ ~ShouldRetry(req[c], type))
      BY <1>0, <2>3 DEF Conclude, TypeOK
    <2> QED  BY <2>2, <2>3
  <1>b. answer'[c].type # "none" => pc'[c] = "done"
    <2>1. CASE Exhausted(n) \/ ~ShouldRetry(req[c], type)
      BY <1>0, <2>1 DEF Conclude, TypeOK
    <2>2. CASE ~(Exhausted(n) \/ ~ShouldRetry(req[c], type))
      BY <1>0, <2>2 DEF Conclude
    <2> QED  BY <2>1, <2>2
  <1>c. answer'[c].type # "ok"
    <2>1. CASE Exhausted(n) \/ ~ShouldRetry(req[c], type)
      <3>1. answer'[c] = Plain(type)  BY <1>0, <2>1 DEF Conclude, TypeOK
      <3> QED  BY <3>1 DEF Plain, ErrorType
    <2>2. CASE ~(Exhausted(n) \/ ~ShouldRetry(req[c], type))
      BY <1>0, <2>2 DEF Conclude
    <2> QED  BY <2>1, <2>2
  <1>d. pc'[c] = "ready" => n < Bound /\ MayRepeat(req[c])
    <2>1. CASE Exhausted(n) \/ ~ShouldRetry(req[c], type)
      BY <1>0, <2>1 DEF Conclude, TypeOK
    <2>2. CASE ~(Exhausted(n) \/ ~ShouldRetry(req[c], type))
      BY <1>0, <2>2, MaxAttemptsType DEF Exhausted, ShouldRetry, Bound
    <2> QED  BY <2>1, <2>2
  <1>e. doubt \subseteq doubt' /\ doubt' \subseteq doubt \cup {<<c, n>>}
        /\ (cut => <<c, n>> \in doubt') /\ (type = "transient" => <<c, n>> \in doubt')
    BY DEF Conclude
  <1>f. type = "validation" => pc'[c] = "done" /\ answer'[c].type = "validation"
    <2> SUFFICES ASSUME type = "validation"
                 PROVE  pc'[c] = "done" /\ answer'[c].type = "validation"
      OBVIOUS
    <2>1. ~ShouldRetry(req[c], type)  BY DEF ShouldRetry
    <2> QED  BY <1>0, <2>1 DEF Conclude, Plain, TypeOK
  <1>1. TypeOK'
    <2>1. attempt' \in [Call -> 0 .. Bound]  BY <1>0 DEF TypeOK
    <2>2. doubt' \subseteq Call \X (1 .. Bound)  BY <1>0, <1>e DEF TypeOK
    <2>3. \A d \in Call : pc'[d] # "idle" => req[d] \in Request  BY <1>0, <1>a DEF TypeOK
    <2> QED  BY <1>a, <2>1, <2>2, <2>3 DEF IInv, TypeOK, PolicyTypeOK
  <1>2. PolicyInv'  BY DEF IInv, PolicyInv
  <1>3. Pinned'  BY DEF IInv, Pinned
  <1>4. TokensExist'  BY <1>a DEF IInv, TokensExist
  <1>5. Told'
    <2> SUFFICES ASSUME NEW d \in Call
                 PROVE  /\ reply'[d].type # "none" => pc'[d] = "waiting"
                        /\ answer'[d].type # "none" => pc'[d] = "done"
                        /\ reply'[d].type = "ok" => Holds(d, reply[d])'
                        /\ answer'[d].type = "ok" => Holds(d, answer[d])'
      BY DEF Told
    <2>1. CASE d = c  BY <1>b, <1>c, <2>1
    <2>2. CASE d # c  BY <1>0, <1>a, <2>2, ToldKept
    <2> QED  BY <2>1, <2>2
  <1>6. Counted'
    <2> SUFFICES ASSUME NEW d \in Call
                 PROVE  /\ pc'[d] = "idle" => attempt'[d] = 0
                        /\ pc'[d] = "ready" => attempt'[d] < Bound
                        /\ pc'[d] \in {"waiting", "done"} => attempt'[d] >= 1
                        /\ pc'[d] = "ready" /\ attempt'[d] >= 1 => MayRepeat(req[d])
                        /\ attempt'[d] > 1 => MayRepeat(req[d])
      BY DEF Counted, MayRepeat
    <2>1. CASE d = c  BY <1>0, <1>a, <1>d, <2>1
    <2>2. CASE d # c  BY <1>0, <1>a, <2>2 DEF Counted
    <2> QED  BY <2>1, <2>2
  <1>7. SentInv'
    <2> SUFFICES ASSUME NEW d \in Call, NEW k \in 1 .. Bound, <<d, k>> \in sent
                 PROVE  /\ k <= attempt'[d]
                        /\ \A x \in Rows : ~(x.call = d /\ x.no = k)
                        /\ \/ <<d, k>> \in doubt'
                           \/ k = attempt'[d] /\ pc'[d] = "waiting" /\ reply'[d].type = "none"
      BY DEF SentInv, Rows
    <2>1. /\ k <= attempt[d]
          /\ \A x \in Rows : ~(x.call = d /\ x.no = k)
          /\ \/ <<d, k>> \in doubt
             \/ k = attempt[d] /\ pc[d] = "waiting" /\ reply[d].type = "none"
      BY DEF IInv, SentInv
    <2>2. CASE d = c
      <3>1. <<d, k>> \in doubt'
        BY <1>e, <2>1, <2>2 DEF ErrorType
      <3> QED  BY <1>0, <2>1, <2>2, <3>1 DEF TypeOK
    <2>3. CASE d # c  BY <1>0, <1>a, <1>e, <2>1, <2>3
    <2> QED  BY <2>2, <2>3
  <1>8. RowsInv'
    <2>1. ASSUME NEW d \in Call, NEW k \in 1 .. Bound, k <= attempt[d], Known(d, k)
          PROVE  k <= attempt'[d] /\ Known(d, k)'
      <3>1. CASE d = c
        <4>1. k <= n  BY <1>0, <2>1, <3>1
        <4>2. CASE <<c, k>> \in doubt  BY <1>0, <1>e, <3>1, <4>1, <4>2 DEF Known
        <4>3. CASE k = n /\ pc[c] = "waiting" /\ reply[c].type \in {"ok", "validation"}
          BY <1>0, <1>e, <1>f, <3>1, <4>1, <4>3 DEF Known, ErrorType
        <4> QED  BY <1>0, <2>1, <3>1, <4>2, <4>3 DEF Known
      <3>2. CASE d # c  BY <1>0, <1>a, <1>e, <2>1, <3>2 DEF Known
      <3> QED  BY <3>1, <3>2
    <2> QED  BY <2>1 DEF IInv, RowsInv, Rows
  <1> QED  BY <1>1, <1>2, <1>3, <1>4, <1>5, <1>6, <1>7, <1>8 DEF IInv

LEMMA NoApiKeyInv ==
  ASSUME IInv, NEW c \in Call, NoApiKey(c)
  PROVE  IInv'
  <1>1. PICK type \in ErrorType : Conclude(c, attempt[c] + 1, type, FALSE)
    BY DEF NoApiKey
  <1>2. attempt[c] \in 0 .. Bound /\ attempt[c] < Bound /\ reply[c].type = "none"
    BY DEF IInv, TypeOK, Told, Counted, NoApiKey
  <1>3. attempt[c] + 1 \in 1 .. Bound  BY <1>2, BoundType
  <1>4. attempt[c] + 1 > 1 => MayRepeat(req[c])
    BY <1>2 DEF IInv, Counted, NoApiKey
  <1>5. reply' \in [Call -> Answer] /\ reply' = reply  BY DEF IInv, TypeOK, NoApiKey
  <1>6. Ends(c, attempt[c] + 1, type, FALSE)
    BY <1>1, <1>2, <1>3, <1>4, <1>5 DEF Ends, ErrorType, NoApiKey
  <1> QED  BY <1>6, EndsInv

\* An answer that the client takes, or stops waiting for.
LEMMA ReplyCleared ==
  ASSUME TypeOK, NEW c \in Call, reply' = [reply EXCEPT ![c] = Plain("none")]
  PROVE  /\ reply' \in [Call -> Answer] /\ reply'[c].type = "none"
         /\ \A d \in Call \ {c} : reply'[d] = reply[d]
  <1>1. Plain("none") \in Answer /\ Plain("none").type = "none"  BY DEF Plain, Answer
  <1> QED  BY <1>1 DEF TypeOK

LEMMA WaitingCounted ==
  ASSUME IInv, NEW c \in Call, pc[c] = "waiting"
  PROVE  /\ attempt[c] \in 1 .. Bound
         /\ attempt[c] > 1 => MayRepeat(req[c])
         /\ [attempt EXCEPT ![c] = attempt[c]] = attempt
  BY BoundType DEF IInv, TypeOK, Counted

LEMMA GiveUpInv ==
  ASSUME IInv, NEW c \in Call, GiveUp(c)
  PROVE  IInv'
  <1>1. PICK type \in ErrorType : Conclude(c, attempt[c], type, TRUE)
    BY DEF GiveUp
  <1>2. Ends(c, attempt[c], type, TRUE)
    BY <1>1, ReplyCleared, WaitingCounted DEF IInv, Ends, GiveUp
  <1> QED  BY <1>2, EndsInv

LEMMA ReceiveErrorInv ==
  ASSUME IInv, NEW c \in Call, Receive(c), reply[c].type # "ok"
  PROVE  IInv'
  <1>1. reply[c].type \in ErrorType  BY DEF IInv, TypeOK, Answer, Receive
  <1>2. Ends(c, attempt[c], reply[c].type, FALSE)
    BY <1>1, ReplyCleared, WaitingCounted DEF IInv, Ends, Receive
  <1> QED  BY <1>2, EndsInv

LEMMA ReceiveOkInv ==
  ASSUME IInv, NEW c \in Call, Receive(c), reply[c].type = "ok"
  PROVE  IInv'
  <1> USE DEF Receive, policyVars, service
  <1>0. /\ TypeOK /\ Told /\ Counted
        /\ pc[c] = "waiting" /\ pc' = [pc EXCEPT ![c] = "done"]
        /\ answer' = [answer EXCEPT ![c] = reply[c]]
        /\ pc'[c] = "done" /\ answer'[c] = reply[c] /\ UNCHANGED <<attempt, doubt>>
        /\ \A d \in Call \ {c} : pc'[d] = pc[d] /\ answer'[d] = answer[d]
    BY DEF IInv, TypeOK
  <1>a. /\ reply' \in [Call -> Answer] /\ reply'[c].type = "none"
        /\ \A d \in Call \ {c} : reply'[d] = reply[d]
    BY <1>0, ReplyCleared
  <1>1. TypeOK'
    <2>1. pc' \in [Call -> {"idle", "ready", "waiting", "done"}]  BY <1>0 DEF TypeOK
    <2>2. answer' \in [Call -> Answer]  BY <1>0 DEF TypeOK
    <2>3. \A d \in Call : pc'[d] # "idle" => req[d] \in Request  BY <1>0 DEF TypeOK
    <2> QED  BY <1>0, <1>a, <2>1, <2>2, <2>3 DEF TypeOK, PolicyTypeOK
  <1>2. PolicyInv'  BY DEF IInv, PolicyInv
  <1>3. Pinned'  BY DEF IInv, Pinned
  <1>4. TokensExist'  BY <1>0 DEF IInv, TokensExist
  <1>5. Told'
    <2> SUFFICES ASSUME NEW d \in Call
                 PROVE  /\ reply'[d].type # "none" => pc'[d] = "waiting"
                        /\ answer'[d].type # "none" => pc'[d] = "done"
                        /\ reply'[d].type = "ok" => Holds(d, reply[d])'
                        /\ answer'[d].type = "ok" => Holds(d, answer[d])'
      BY DEF Told
    <2>1. CASE d = c  BY <1>0, <1>a, <2>1 DEF Told, Holds
    <2>2. CASE d # c  BY <1>0, <1>a, <2>2, ToldKept
    <2> QED  BY <2>1, <2>2
  <1>6. Counted'  BY <1>0 DEF Counted
  <1>7. SentInv'  BY <1>0, <1>a DEF IInv, SentInv, Rows
  <1>8. RowsInv'
    <2>1. ASSUME NEW d \in Call, NEW n \in 1 .. Bound, Known(d, n)
          PROVE  Known(d, n)'
      <3>1. CASE d = c  BY <1>0, <2>1, <3>1 DEF Known
      <3>2. CASE d # c  BY <1>0, <1>a, <2>1, <3>2 DEF Known
      <3> QED  BY <3>1, <3>2
    <2> QED  BY <1>0, <2>1 DEF IInv, RowsInv, Rows
  <1> QED  BY <1>1, <1>2, <1>3, <1>4, <1>5, <1>6, <1>7, <1>8 DEF IInv

-------------------------------------------------------------------------------
(* Steps of the service.                                                   *)

LEMMA VanishInv ==
  ASSUME IInv, NEW c \in Call, NEW n \in 1 .. Bound, Vanish(c, n)
  PROVE  IInv'
  <1> USE DEF Vanish, policyVars, client, service
  <1>1. TypeOK'  BY DEF IInv, TypeOK, PolicyTypeOK
  <1>2. PolicyInv'  BY DEF IInv, PolicyInv
  <1>3. Pinned' /\ TokensExist'  BY DEF IInv, Pinned, TokensExist
  <1>4. Told' /\ Counted'  BY DEF IInv, Told, Holds, Counted
  <1>5. SentInv'  BY DEF IInv, SentInv, Rows
  <1>6. RowsInv'  BY DEF IInv, RowsInv, Rows, Known
  <1> QED  BY <1>1, <1>2, <1>3, <1>4, <1>5, <1>6 DEF IInv

\* The request <<c, n>> is served and answered a: what the steps that respond
\* have in common.  It makes one row at most, and then the answer is ok or a 400.
Serves(c, n, a) ==
    /\ <<c, n>> \in sent /\ Respond(c, n, a)
    /\ a \in Answer /\ a.type # "none"
    /\ UNCHANGED <<policyVars, client>>
    /\ sessions \subseteq sessions' /\ sessions' \subseteq Session
    /\ endpoints \subseteq endpoints' /\ endpoints' \subseteq Endpoint
    /\ submitted \subseteq submitted' /\ submitted' \subseteq Submission
    /\ \A x \in Rows' : x \in Rows \/ (x.call = c /\ x.no = n)
    /\ \A x, y \in Rows' : x \in Rows \/ y \in Rows \/ x = y
    /\ a.type \in {"ok", "validation"} \/ Rows' \subseteq Rows
    /\ attempt[c] = n /\ a.type = "ok" => Holds(c, a)'

LEMMA ServesInv ==
  ASSUME IInv, Pinned', NEW c \in Call, NEW n \in 1 .. Bound, NEW a, Serves(c, n, a)
  PROVE  IInv'
  <1> USE DEF Serves, policyVars, client
  <1>0. /\ TypeOK /\ Told /\ SentInv /\ RowsInv
        /\ n <= attempt[c] /\ \A x \in Rows : ~(x.call = c /\ x.no = n)
        /\ \/ <<c, n>> \in doubt
           \/ n = attempt[c] /\ pc[c] = "waiting" /\ reply[c].type = "none"
    BY DEF IInv, SentInv
  <1>a. /\ reply' \in [Call -> Answer]
        /\ \A d \in Call \ {c} : reply'[d] = reply[d]
        /\ IF pc[c] = "waiting" /\ attempt[c] = n THEN reply'[c] = a ELSE reply'[c] = reply[c]
    BY <1>0 DEF Respond, TypeOK
  <1>1. TypeOK'
    <2>1. sent' \subseteq Call \X (1 .. Bound)  BY <1>0 DEF Respond, TypeOK
    <2> QED  BY <1>0, <1>a, <2>1 DEF TypeOK, PolicyTypeOK
  <1>2. PolicyInv'  BY DEF IInv, PolicyInv
  <1>3. TokensExist'  BY DEF IInv, TokensExist
  <1>4. Counted'  BY DEF IInv, Counted
  <1>5. Told'
    <2> SUFFICES ASSUME NEW d \in Call
                 PROVE  /\ reply'[d].type # "none" => pc[d] = "waiting"
                        /\ answer[d].type # "none" => pc[d] = "done"
                        /\ reply'[d].type = "ok" => Holds(d, reply[d])'
                        /\ answer[d].type = "ok" => Holds(d, answer[d])'
      BY DEF Told
    <2>1. answer[d].type = "ok" => Holds(d, answer[d])'
      BY <1>0 DEF Told, Holds
    <2>2. CASE reply'[d] = reply[d]
      <3>1. reply[d].type = "ok" => Holds(d, reply[d])'
        BY <1>0, <2>2 DEF Told, Holds
      <3> QED  BY <1>0, <2>1, <2>2, <3>1 DEF Told
    <2>3. CASE d = c /\ pc[c] = "waiting" /\ attempt[c] = n /\ reply'[c] = a
      <3>1. a.type = "ok" => Holds(c, reply[c])'  BY <2>3 DEF Holds
      <3> QED  BY <1>0, <2>1, <2>3, <3>1 DEF Told
    <2> QED  BY <1>a, <2>2, <2>3
  <1>6. SentInv'
    <2> SUFFICES ASSUME NEW d \in Call, NEW k \in 1 .. Bound, <<d, k>> \in sent'
                 PROVE  /\ k <= attempt[d]
                        /\ \A x \in Rows' : ~(x.call = d /\ x.no = k)
                        /\ \/ <<d, k>> \in doubt
                           \/ k = attempt[d] /\ pc[d] = "waiting" /\ reply'[d].type = "none"
      BY DEF SentInv
    <2>1. <<d, k>> \in sent /\ ~(d = c /\ k = n)  BY DEF Respond
    <2>2. \A x \in Rows' : ~(x.call = d /\ x.no = k)
      BY <1>0, <2>1 DEF SentInv
    <2> QED  BY <1>0, <1>a, <2>1, <2>2 DEF SentInv
  <1>7. RowsInv'
    <2>1. ASSUME NEW d \in Call, NEW k \in 1 .. Bound, Known(d, k), ~(d = c /\ k = n)
          PROVE  Known(d, k)'
      BY <1>0, <1>a, <2>1 DEF Known
    <2>2. ASSUME NEW x \in Rows', NEW y \in Rows', x.call = y.call, x.no = y.no
          PROVE  x = y
      BY <1>0, <2>2 DEF RowsInv
    <2>3. ASSUME NEW x \in Rows'
          PROVE  /\ x.call \in Call /\ x.no \in 1 .. Bound
                 /\ x.no <= attempt[x.call] /\ Known(x.call, x.no)'
      <3>1. CASE x \in Rows  BY <1>0, <2>1, <3>1 DEF RowsInv
      <3>2. CASE x \notin Rows
        <4>1. x.call = c /\ x.no = n /\ a.type \in {"ok", "validation"}
          BY <2>3, <3>2
        <4>2. Known(c, n)'  BY <1>0, <1>a, <4>1 DEF Known
        <4> QED  BY <1>0, <4>1, <4>2
      <3> QED  BY <3>1, <3>2
    <2> QED  BY <2>2, <2>3 DEF RowsInv
  <1> QED  BY <1>1, <1>2, <1>3, <1>4, <1>5, <1>6, <1>7 DEF IInv

\* A request under way is of a call that has been made.
LEMMA SentHasRequest ==
  ASSUME IInv, NEW c \in Call, NEW n \in 1 .. Bound, <<c, n>> \in sent
  PROVE  req[c] \in Request /\ pc[c] # "idle"
  BY DEF IInv, TypeOK, SentInv, Counted

LEMMA NothingMadeInv ==
  ASSUME IInv, NEW c \in Call, NEW n \in 1 .. Bound, NEW a \in Answer,
         <<c, n>> \in sent, Respond(c, n, a), UNCHANGED <<policyVars, client, service>>,
         a.type # "none", a.type = "ok" => Holds(c, a)
  PROVE  IInv'
  <1>1. Pinned'  BY DEF IInv, Pinned, policyVars, service
  <1>2. Rows' = Rows  BY DEF Rows, service
  <1>3. a.type = "ok" => Holds(c, a)'  BY DEF Holds, client, service
  <1>4. Serves(c, n, a)
    BY <1>2, <1>3 DEF Serves, IInv, TypeOK, service
  <1> QED  BY <1>1, <1>4, ServesInv

LEMMA RefuseInv ==
  ASSUME IInv, NEW c \in Call, NEW n \in 1 .. Bound, Refuse(c, n)
  PROVE  IInv'
  <1>1. req[c] \in Request  BY SentHasRequest DEF Refuse
  <1>2. req[c].op \in Method  BY <1>1 DEF Request, Method
  <1>3. Refusals[req[c].op] \subseteq ErrorType
    BY <1>2 DEF Refusals, Method, ErrorType
  <1>4. PICK type \in ErrorType : Respond(c, n, Plain(type))
    BY <1>3 DEF Refuse
  <1>5. Plain(type) \in Answer /\ Plain(type).type \notin {"ok", "none"}
    BY DEF Plain, Answer, ErrorType
  <1> QED  BY <1>4, <1>5, NothingMadeInv DEF Refuse

LEMMA ReadInv ==
  ASSUME IInv, NEW c \in Call, NEW n \in 1 .. Bound, Read(c, n)
  PROVE  IInv'
  <1>1. Plain("ok") \in Answer /\ Plain("ok").type # "none"  BY DEF Plain, Answer
  <1>2. Holds(c, Plain("ok"))  BY DEF Holds, Read
  <1> QED  BY <1>1, <1>2, NothingMadeInv DEF Read

\* A bootstrap is answered with the text of the session: the version says what it
\* said when the session was created.
LEMMA BootstrapInv ==
  ASSUME IInv, NEW c \in Call, NEW n \in 1 .. Bound, Bootstrap(c, n)
  PROVE  IInv'
  <1>1. req[c] \in Request /\ pc[c] # "idle" /\ req[c].op = "bootstrap"
    BY SentHasRequest DEF Bootstrap
  <1>2. req[c].target \in sessions  BY <1>1 DEF IInv, TokensExist
  <1>3. PICK s \in sessions : s = req[c].target  BY <1>2
  <1>4. content[s.version] = s.text /\ s.text \in Content
    BY DEF IInv, Pinned, TypeOK, Session
  <1>5. PICK a : a = Ok(s.text)  OBVIOUS
  <1>6. a \in Answer /\ a.type # "none" /\ a.body = s.text
    BY <1>4, <1>5 DEF Ok, Answer
  <1>7. Respond(c, n, a)  BY <1>3, <1>4, <1>5 DEF Bootstrap
  <1>8. Holds(c, a)  BY <1>1, <1>3, <1>6 DEF Holds
  <1> QED  BY <1>6, <1>7, <1>8, NothingMadeInv DEF Bootstrap

LEMMA CreateSessionInv ==
  ASSUME IInv, NEW c \in Call, NEW n \in 1 .. Bound, CreateSession(c, n)
  PROVE  IInv'
  <1>1. req[c] \in Request /\ req[c].op = "create" /\ <<c, n>> \in sent
    BY SentHasRequest DEF CreateSession
  <1>2. PICK v \in Version : v = req[c].target  BY <1>1 DEF Request
  <1>3. state[v] = "PUBLISHED" /\ hash[v] \in Content /\ content[v] \in Content
    BY <1>2 DEF CreateSession, IInv, PolicyInv
  <1>4. PICK s : s = [call |-> c, no |-> n, version |-> v, hash |-> hash[v], text |-> content[v]]
    OBVIOUS
  <1>5. s \in Session /\ s.call = c /\ s.no = n /\ s.version = v
        /\ s.hash = hash[v] /\ s.text = content[v]
    BY <1>3, <1>4 DEF Session
  <1>6. sessions' = sessions \cup {s} /\ Effect(c, n, s)
    BY <1>2, <1>4 DEF CreateSession
  <1>7. UNCHANGED <<policyVars, client, endpoints, submitted>>  BY DEF CreateSession
  <1>8. PICK a \in {Ok(s), Plain("validation")} : Respond(c, n, a)
    BY <1>6 DEF Effect
  <1>9. a \in Answer /\ a.type \in {"ok", "validation"} /\ (a.type = "ok" => a.body = s)
    BY <1>5, <1>8 DEF Ok, Plain, Answer, ErrorType
  <1>10. Pinned'
    BY <1>3, <1>5, <1>6, <1>7 DEF IInv, Pinned, policyVars
  <1>11. attempt[c] = n /\ a.type = "ok" => Holds(c, a)'
    BY <1>1, <1>5, <1>6, <1>7, <1>9 DEF Holds, client
  <1>12. /\ \A x \in Rows' : x \in Rows \/ (x.call = c /\ x.no = n)
         /\ \A x, y \in Rows' : x \in Rows \/ y \in Rows \/ x = y
    BY <1>5, <1>6, <1>7 DEF Rows
  <1>13. Serves(c, n, a)
    BY <1>1, <1>5, <1>6, <1>7, <1>8, <1>9, <1>11, <1>12 DEF Serves, IInv, TypeOK
  <1> QED  BY <1>10, <1>13, ServesInv

LEMMA CreateEndpointInv ==
  ASSUME IInv, NEW c \in Call, NEW n \in 1 .. Bound, CreateEndpoint(c, n)
  PROVE  IInv'
  <1>1. <<c, n>> \in sent /\ req[c].op = "endpoint"  BY DEF CreateEndpoint
  <1>2. PICK e : e = [call |-> c, no |-> n]  OBVIOUS
  <1>3. e \in Endpoint /\ e.call = c /\ e.no = n  BY <1>2 DEF Endpoint
  <1>4. endpoints' = endpoints \cup {e} /\ Effect(c, n, None)
        /\ UNCHANGED <<policyVars, client, sessions, submitted>>
    BY <1>2 DEF CreateEndpoint
  <1>5. PICK a \in {Ok(None), Plain("validation")} : Respond(c, n, a)
    BY <1>4 DEF Effect
  <1>6. a \in Answer /\ a.type \in {"ok", "validation"}
    BY <1>5 DEF Ok, Plain, Answer, ErrorType
  <1>7. Pinned'  BY <1>4 DEF IInv, Pinned, policyVars
  <1>8. attempt[c] = n => Holds(c, a)'
    BY <1>1, <1>2, <1>4 DEF Holds, client
  <1>9. /\ \A x \in Rows' : x \in Rows \/ (x.call = c /\ x.no = n)
        /\ \A x, y \in Rows' : x \in Rows \/ y \in Rows \/ x = y
    BY <1>3, <1>4 DEF Rows
  <1>10. Serves(c, n, a)
    BY <1>1, <1>3, <1>4, <1>5, <1>6, <1>8, <1>9 DEF Serves, IInv, TypeOK
  <1> QED  BY <1>7, <1>10, ServesInv

LEMMA SubmitInv ==
  ASSUME IInv, NEW c \in Call, NEW n \in 1 .. Bound, Submit(c, n)
  PROVE  IInv'
  <1>1. req[c] \in Request /\ req[c].op = "submit" /\ <<c, n>> \in sent
    BY SentHasRequest DEF Submit
  <1>2. PICK s \in Session : s = req[c].target  BY <1>1 DEF Request
  <1>3. PICK x : x = [call |-> c, no |-> n, session |-> s]  OBVIOUS
  <1>4. x \in Submission /\ x.call = c /\ x.no = n /\ x.session = s
    BY <1>3 DEF Submission
  <1>5. /\ submitted \subseteq submitted' /\ submitted' \subseteq submitted \cup {x}
        /\ \E y \in submitted' : y.session = s
    BY <1>2, <1>3, <1>4 DEF Submit
  <1>6. Effect(c, n, None) /\ UNCHANGED <<policyVars, client, sessions, endpoints>>
    BY DEF Submit
  <1>7. PICK a \in {Ok(None), Plain("validation")} : Respond(c, n, a)
    BY <1>6 DEF Effect
  <1>8. a \in Answer /\ a.type \in {"ok", "validation"}
    BY <1>7 DEF Ok, Plain, Answer, ErrorType
  <1>9. Pinned'  BY <1>6 DEF IInv, Pinned, policyVars
  <1>10. attempt[c] = n => Holds(c, a)'
    BY <1>1, <1>2, <1>5, <1>6 DEF Holds, client
  <1>11. /\ \A y \in Rows' : y \in Rows \/ (y.call = c /\ y.no = n)
         /\ \A y, z \in Rows' : y \in Rows \/ z \in Rows \/ y = z
    BY <1>4, <1>5, <1>6 DEF Rows
  <1>12. Serves(c, n, a)
    BY <1>1, <1>4, <1>5, <1>6, <1>7, <1>8, <1>10, <1>11 DEF Serves, IInv, TypeOK
  <1> QED  BY <1>9, <1>12, ServesInv

-------------------------------------------------------------------------------
LEMMA StepInv == IInv /\ [Next]_vars => IInv'
  <1> SUFFICES ASSUME IInv, [Next]_vars PROVE IInv'  OBVIOUS
  <1>1. CASE Policies  BY <1>1, PoliciesInv
  <1>2. ASSUME NEW c \in Call, NEW r \in Request, Invoke(c, r) PROVE IInv'
    BY <1>2, InvokeInv
  <1>3. ASSUME NEW c \in Call, Attempt(c) PROVE IInv'  BY <1>3, AttemptInv
  <1>4. ASSUME NEW c \in Call, NoApiKey(c) PROVE IInv'  BY <1>4, NoApiKeyInv
  <1>5. ASSUME NEW c \in Call, Receive(c) PROVE IInv'
    BY <1>5, ReceiveOkInv, ReceiveErrorInv
  <1>6. ASSUME NEW c \in Call, GiveUp(c) PROVE IInv'  BY <1>6, GiveUpInv
  <1>7. ASSUME NEW c \in Call, NEW n \in 1 .. Bound, Serve(c, n) PROVE IInv'
    BY <1>7, VanishInv, RefuseInv, CreateSessionInv, CreateEndpointInv, SubmitInv,
       BootstrapInv, ReadInv DEF Serve
  <1>8. CASE UNCHANGED vars
    <2> USE <1>8 DEF vars, policyVars, client, service
    <2>1. TypeOK'  BY DEF IInv, TypeOK, PolicyTypeOK
    <2>2. PolicyInv'  BY DEF IInv, PolicyInv
    <2>3. Pinned' /\ TokensExist'  BY DEF IInv, Pinned, TokensExist
    <2>4. Told' /\ Counted'  BY DEF IInv, Told, Holds, Counted
    <2>5. SentInv'  BY DEF IInv, SentInv, Rows
    <2>6. RowsInv'  BY DEF IInv, RowsInv, Rows, Known
    <2> QED  BY <2>1, <2>2, <2>3, <2>4, <2>5, <2>6 DEF IInv
  <1> QED  BY <1>1, <1>2, <1>3, <1>4, <1>5, <1>6, <1>7, <1>8 DEF Next

\* The inductive invariant holds in every behaviour.
THEOREM ClientInvariance == Spec => []IInv
  BY InitInv, StepInv, PTL DEF Spec

\* Every variable keeps its type, and no call makes more than maxAttempts
\* attempts.
THEOREM ClientTypeCorrect == Spec => []TypeOK
  <1>1. IInv => TypeOK  BY DEF IInv
  <1> QED  BY <1>1, ClientInvariance, PTL

\* What the service answered to a call of the SDK is so and stays so: the rows it
\* returned are those of the last request, sessions show what they were created
\* under, a bootstrap has shown it, and a submit has recorded the consent.
THEOREM AnswersTrue == Spec => []AnswersAreTrue
  <1>1. IInv => AnswersAreTrue
    <2> SUFFICES ASSUME IInv PROVE AnswersAreTrue  OBVIOUS
    <2>1. ASSUME NEW c \in Call, pc[c] = "done", answer[c].type = "ok"
          PROVE  IsTrue(c, answer[c])
      BY <2>1 DEF IInv, Told, Holds, IsTrue, Pinned
    <2> QED  BY <2>1 DEF AnswersAreTrue
  <1> QED  BY <1>1, ClientInvariance, PTL

\* Every row is of one request that was sent, repeated requests had a key or were
\* reads and ended in doubt, and a call that the service refused, other than with a
\* 400, has made nothing with its last request.
THEOREM EffectsAccountedFor == Spec => []EffectsAccounted
  <1>1. IInv => EffectsAccounted
    <2> SUFFICES ASSUME IInv PROVE EffectsAccounted  OBVIOUS
    <2>1. ASSUME NEW x \in Rows
          PROVE  /\ x.no \in 1 .. attempt[x.call]
                 /\ attempt[x.call] > 1 => MayRepeat(req[x.call])
                 /\ x.no < attempt[x.call] => <<x.call, x.no>> \in doubt
                 /\ pc[x.call] = "done" /\ <<x.call, x.no>> \notin doubt =>
                       answer[x.call].type \in {"ok", "validation"}
      <3>1. x.call \in Call /\ x.no \in 1 .. Bound /\ x.no <= attempt[x.call]
            /\ Known(x.call, x.no) /\ attempt[x.call] \in 0 .. Bound
        BY DEF IInv, RowsInv, TypeOK
      <3> QED  BY <3>1, BoundType DEF IInv, Counted, Known
    <2> QED  BY <2>1 DEF EffectsAccounted, IInv, RowsInv
  <1> QED  BY <1>1, ClientInvariance, PTL


-------------------------------------------------------------------------------
(* No call goes on for ever.                                               *)

\* The steps that a call has before it, at most: two to an attempt.
Left(c) ==
    IF pc[c] = "idle" THEN 2 * Bound + 1
    ELSE IF pc[c] = "ready" THEN 2 * (Bound - attempt[c])
    ELSE IF pc[c] = "waiting" THEN 2 * (Bound - attempt[c]) + 1 ELSE 0

PublishLeft(p) ==
    IF publishing[p] = "idle" THEN 2 ELSE IF publishing[p] = "update" THEN 1 ELSE 0

\* What the caller can see of a call.
Seen(c) == <<req[c], pc[c], attempt[c], answer[c]>>

PublishSeen(p) == <<publishing[p], subject[p], published[p]>>

\* A step that the client makes of a call.
ClientStep(c) ==
    (\E r \in Request : Invoke(c, r)) \/ Attempt(c) \/ NoApiKey(c) \/ Receive(c) \/ GiveUp(c)

LEMMA LeftBounds ==
  ASSUME IInv, NEW c \in Call
  PROVE  Left(c) \in 0 .. 2 * Bound + 1 /\ (Left(c) = 0 <=> pc[c] = "done")
  <1>1. Bound \in Nat \ {0} /\ attempt[c] \in 0 .. Bound
        /\ pc[c] \in {"idle", "ready", "waiting", "done"}
        /\ (pc[c] = "ready" => attempt[c] < Bound)
    BY BoundType DEF IInv, TypeOK, Counted
  <1> QED  BY <1>1 DEF Left

\* An attempt that ends in an error leaves the call at the top of the loop with
\* attempts left, or done.
LEMMA ConcludeLeft ==
  ASSUME TypeOK, NEW c \in Call, NEW n \in 1 .. Bound, NEW type, NEW cut,
         Conclude(c, n, type, cut),
         attempt' = [attempt EXCEPT ![c] = n], req' = req
  PROVE  /\ pc'[c] = "done" \/ (pc'[c] = "ready" /\ attempt'[c] = n /\ n < Bound)
         /\ \A d \in Call \ {c} : Seen(d)' = Seen(d)
  <1>1. n \in Nat /\ Bound \in Nat \ {0}
    BY BoundType
  <1>2. ~Exhausted(n) => n < Bound
    BY <1>1, MaxAttemptsType DEF Exhausted, Bound
  <1>3. /\ pc'[c] = "done" \/ (pc'[c] = "ready" /\ ~Exhausted(n))
        /\ attempt'[c] = n
    BY DEF Conclude, TypeOK
  <1>4. \A d \in Call \ {c} : pc'[d] = pc[d] /\ attempt'[d] = attempt[d] /\ answer'[d] = answer[d]
    BY DEF Conclude, TypeOK
  <1> QED  BY <1>2, <1>3, <1>4 DEF Seen

LEMMA ClientLeft ==
  ASSUME IInv, NEW c \in Call, ClientStep(c)
  PROVE  Left(c)' < Left(c) /\ \A d \in Call \ {c} : Seen(d)' = Seen(d)
  <1>0. /\ TypeOK /\ Bound \in Nat \ {0} /\ attempt[c] \in 0 .. Bound
        /\ (pc[c] = "idle" => attempt[c] = 0)
        /\ (pc[c] = "ready" => attempt[c] < Bound)
        /\ (pc[c] = "waiting" => attempt[c] >= 1)
    BY BoundType DEF IInv, TypeOK, Counted
  <1>1. ASSUME NEW r \in Request, Invoke(c, r)
        PROVE  Left(c)' < Left(c) /\ \A d \in Call \ {c} : Seen(d)' = Seen(d)
    <2>1. pc[c] = "idle" /\ pc'[c] = "ready" /\ attempt'[c] = 0
      BY <1>0, <1>1 DEF Invoke, TypeOK
    <2>2. \A d \in Call \ {c} : Seen(d)' = Seen(d)
      BY <1>0, <1>1 DEF Invoke, TypeOK, Seen
    <2> QED  BY <1>0, <2>1, <2>2 DEF Left, Bound
  <1>2. CASE Attempt(c)
    <2>1. pc[c] = "ready" /\ pc'[c] = "waiting" /\ attempt'[c] = attempt[c] + 1
      BY <1>0, <1>2 DEF Attempt, TypeOK
    <2>2. \A d \in Call \ {c} : Seen(d)' = Seen(d)
      BY <1>0, <1>2 DEF Attempt, TypeOK, Seen
    <2> QED  BY <1>0, <2>1, <2>2 DEF Left, Bound
  <1>3. CASE NoApiKey(c)
    <2>1. PICK type : Conclude(c, attempt[c] + 1, type, FALSE)
      BY <1>3 DEF NoApiKey
    <2>2. /\ pc[c] = "ready" /\ attempt[c] + 1 \in 1 .. Bound
          /\ attempt' = [attempt EXCEPT ![c] = attempt[c] + 1] /\ req' = req
      BY <1>0, <1>3 DEF NoApiKey
    <2>3. /\ \/ pc'[c] = "done"
             \/ pc'[c] = "ready" /\ attempt'[c] = attempt[c] + 1 /\ attempt[c] + 1 < Bound
          /\ \A d \in Call \ {c} : Seen(d)' = Seen(d)
      BY <1>0, <2>1, <2>2, ConcludeLeft
    <2> QED  BY <1>0, <2>2, <2>3 DEF Left, Bound
  <1>4. CASE Receive(c) \/ GiveUp(c)
    <2>1. /\ pc[c] = "waiting" /\ attempt[c] \in 1 .. Bound /\ UNCHANGED <<attempt, req>>
          /\ attempt' = [attempt EXCEPT ![c] = attempt[c]]
      <3>1. pc[c] = "waiting" /\ UNCHANGED <<attempt, req>>
        BY <1>4 DEF Receive, GiveUp
      <3> QED  BY <3>1, WaitingCounted
    <2>2. \/ \E type, cut : Conclude(c, attempt[c], type, cut)
          \/ /\ pc' = [pc EXCEPT ![c] = "done"]
             /\ answer' = [answer EXCEPT ![c] = reply[c]]
      BY <1>4 DEF Receive, GiveUp
    <2>3. /\ pc'[c] = "done" \/ (pc'[c] = "ready" /\ attempt'[c] = attempt[c])
          /\ \A d \in Call \ {c} : Seen(d)' = Seen(d)
      <3>1. CASE \E type, cut : Conclude(c, attempt[c], type, cut)
        <4>1. PICK type, cut : Conclude(c, attempt[c], type, cut)  BY <3>1
        <4> QED  BY <1>0, <2>1, <4>1, ConcludeLeft
      <3>2. CASE /\ pc' = [pc EXCEPT ![c] = "done"]
                 /\ answer' = [answer EXCEPT ![c] = reply[c]]
        BY <1>0, <2>1, <3>2 DEF TypeOK, Seen
      <3> QED  BY <2>2, <3>1, <3>2
    <2> QED  BY <1>0, <2>1, <2>3 DEF Left, Bound
  <1> QED  BY <1>1, <1>2, <1>3, <1>4 DEF ClientStep

LEMMA SameLeft ==
  ASSUME NEW c \in Call, Seen(c)' = Seen(c)
  PROVE  Left(c)' = Left(c)
  BY DEF Seen, Left, Bound

LEMMA PublishAdvances ==
  ASSUME PolicyTypeOK, PolicyNext, NEW p \in Publisher
  PROVE  /\ PublishLeft(p)' <= PublishLeft(p)
         /\ PublishSeen(p)' # PublishSeen(p) => PublishLeft(p)' < PublishLeft(p)
  <1>1. CASE UNCHANGED <<publishing, subject, published>>
    BY <1>1 DEF PublishLeft, PublishSeen
  <1>2. ASSUME NEW q \in Publisher, NEW v \in Version, ReadDraft(q, v) \/ ReadPublished(q, v)
        PROVE  /\ PublishLeft(p)' <= PublishLeft(p)
               /\ PublishSeen(p)' # PublishSeen(p) => PublishLeft(p)' < PublishLeft(p)
    <2>1. CASE p = q
      <3>1. publishing[p] = "idle" /\ publishing'[p] \in {"update", "done"}
        BY <1>2, <2>1 DEF ReadDraft, ReadPublished, AnswerPublish, PolicyTypeOK
      <3> QED  BY <3>1 DEF PublishLeft
    <2>2. CASE p # q
      BY <1>2, <2>2 DEF ReadDraft, ReadPublished, AnswerPublish, PolicyTypeOK,
                        PublishLeft, PublishSeen
    <2> QED  BY <2>1, <2>2
  <1>3. ASSUME NEW q \in Publisher, UpdateForPublish(q)
        PROVE  /\ PublishLeft(p)' <= PublishLeft(p)
               /\ PublishSeen(p)' # PublishSeen(p) => PublishLeft(p)' < PublishLeft(p)
    <2>1. \E a : AnswerPublish(q, a)
      BY <1>3 DEF UpdateForPublish
    <2>2. publishing[q] = "update" /\ UNCHANGED subject
      BY <1>3 DEF UpdateForPublish
    <2>3. CASE p = q
      <3>1. publishing'[p] = "done"
        BY <2>1, <2>3 DEF AnswerPublish, PolicyTypeOK
      <3> QED  BY <2>2, <2>3, <3>1 DEF PublishLeft
    <2>4. CASE p # q
      <3>1. publishing'[p] = publishing[p] /\ published'[p] = published[p]
        BY <2>1, <2>4 DEF AnswerPublish, PolicyTypeOK
      <3> QED  BY <2>2, <3>1 DEF PublishLeft, PublishSeen
    <2> QED  BY <2>3, <2>4
  <1> QED  BY <1>1, <1>2, <1>3 DEF PolicyNext, CreateDraft, Amend

\* A call has at most 2 * Bound + 1 steps before it, and none exactly when it is done.
LeftMeasures ==
  \A c \in Call : Left(c) \in 0 .. 2 * Bound + 1 /\ (Left(c) = 0 <=> pc[c] = "done")

\* Calls and publish calls only go forward: no step of the network, of the service or
\* of another call gives a call more steps than it had, whatever the caller sees of it
\* change has made them fewer, and so has every step of the client; and a request that
\* was sent and is under way no more, served or lost, is not sent again.
CallsAdvance ==
  [][/\ \A c \in Call :
           /\ Left(c)' <= Left(c)
           /\ Seen(c)' # Seen(c) \/ ClientStep(c) => Left(c)' < Left(c)
           /\ \A n \in 1 .. attempt[c] : <<c, n>> \in sent' => <<c, n>> \in sent
     /\ \A p \in Publisher :
           /\ PublishLeft(p)' <= PublishLeft(p)
           /\ PublishSeen(p)' # PublishSeen(p) => PublishLeft(p)' < PublishLeft(p)]_vars

LEMMA SentStep ==
  ASSUME IInv, Next, NEW c \in Call, NEW n \in 1 .. attempt[c], <<c, n>> \in sent'
  PROVE  <<c, n>> \in sent
  <1>1. ASSUME NEW d \in Call, Attempt(d) PROVE <<c, n>> \in sent
    <2>1. attempt[c] \in Nat /\ attempt[d] \in Nat  BY BoundType DEF IInv, TypeOK
    <2>2. <<c, n>> # <<d, attempt[d] + 1>>  BY <2>1
    <2> QED  BY <1>1, <2>2 DEF Attempt
  <1>2. ASSUME NEW d \in Call, NEW m, Serve(d, m) PROVE sent' \subseteq sent
    BY <1>2 DEF Serve, Vanish, Refuse, CreateSession, CreateEndpoint, Submit, Bootstrap,
                Read, Effect, Respond
  <1>3. sent' \subseteq sent \/ \E d \in Call : Attempt(d)
    BY <1>2 DEF Next, Policies, Invoke, NoApiKey, Receive, GiveUp
  <1> QED  BY <1>1, <1>3

LEMMA CallStays ==
  ASSUME NEW c \in Call, UNCHANGED <<req, pc, attempt, answer>>
  PROVE  Seen(c)' = Seen(c)
  BY DEF Seen

LEMMA StepAdvances ==
  ASSUME IInv, LeftMeasures, LeftMeasures', Next, NEW c \in Call
  PROVE  /\ Left(c)' <= Left(c)
         /\ Seen(c)' # Seen(c) \/ ClientStep(c) => Left(c)' < Left(c)
  <1>1. Left(c) \in Nat /\ Left(c)' \in Nat
    BY BoundType DEF LeftMeasures, Bound
  <1>2. CASE ClientStep(c)
    <2>1. Left(c)' < Left(c)  BY <1>2, ClientLeft
    <2> QED  BY <1>1, <2>1
  <1>3. CASE ~ClientStep(c)
    <2>1. ASSUME NEW d \in Call, ClientStep(d) PROVE Seen(c)' = Seen(c)
      BY <1>3, <2>1, ClientLeft
    <2>2. ASSUME NEW d \in Call, NEW n, Serve(d, n) PROVE Seen(c)' = Seen(c)
      BY <2>2, CallStays DEF Serve, Vanish, Refuse, CreateSession, CreateEndpoint, Submit,
                             Bootstrap, Read, client
    <2>3. ASSUME Policies PROVE Seen(c)' = Seen(c)
      BY <2>3, CallStays DEF Policies, client
    <2>4. Seen(c)' = Seen(c)
      BY <2>1, <2>2, <2>3 DEF Next, ClientStep
    <2> QED  BY <1>1, <1>3, <2>4, SameLeft
  <1> QED  BY <1>2, <1>3

\* The client never repeats a request for ever, which is what EveryCallReturns rests on
\* besides fairness: whatever is lost, refused, delayed or aborted, a call ends within
\* two steps to an attempt, and its answer is the last thing that happens to it.
THEOREM NeverRetriedForever == Spec => []LeftMeasures /\ CallsAdvance
  <1> DEFINE Goal ==
        /\ \A c \in Call :
              /\ Left(c)' <= Left(c)
              /\ Seen(c)' # Seen(c) \/ ClientStep(c) => Left(c)' < Left(c)
              /\ \A n \in 1 .. attempt[c] : <<c, n>> \in sent' => <<c, n>> \in sent
        /\ \A p \in Publisher :
              /\ PublishLeft(p)' <= PublishLeft(p)
              /\ PublishSeen(p)' # PublishSeen(p) => PublishLeft(p)' < PublishLeft(p)
  <1> DEFINE Facts == IInv /\ LeftMeasures
  <1>1. Facts /\ Facts' /\ Next => Goal
    <2> SUFFICES ASSUME Facts, Facts', Next PROVE Goal  OBVIOUS
    <2>1. ASSUME NEW c \in Call
          PROVE  /\ Left(c)' <= Left(c)
                 /\ Seen(c)' # Seen(c) \/ ClientStep(c) => Left(c)' < Left(c)
                 /\ \A n \in 1 .. attempt[c] : <<c, n>> \in sent' => <<c, n>> \in sent
      BY StepAdvances, SentStep
    <2>2. ASSUME NEW p \in Publisher
          PROVE  /\ PublishLeft(p)' <= PublishLeft(p)
                 /\ PublishSeen(p)' # PublishSeen(p) => PublishLeft(p)' < PublishLeft(p)
      <3>1. CASE Policies
        BY <3>1, PublishAdvances DEF Policies, IInv, TypeOK
      <3>2. CASE UNCHANGED policyVars
        BY <3>2 DEF policyVars, PublishLeft, PublishSeen
      <3>3. ASSUME NEW d \in Call, NEW n, Serve(d, n) PROVE UNCHANGED policyVars
        BY <3>3 DEF Serve, Vanish, Refuse, CreateSession, CreateEndpoint, Submit, Bootstrap, Read
      <3> QED
        BY <3>1, <3>2, <3>3 DEF Next, Invoke, Attempt, NoApiKey, Receive, GiveUp
    <2> QED  BY <2>1, <2>2
  <1>2. Spec => []Facts
    <2>1. IInv => Facts  BY LeftBounds DEF LeftMeasures
    <2> HIDE DEF Facts
    <2> QED  BY <2>1, ClientInvariance, PTL
  <1>3. Facts => LeftMeasures  OBVIOUS
  <1> HIDE DEF Goal, Facts
  <1>4. Facts /\ Facts' /\ [Next]_vars => [Goal]_vars
    BY <1>1
  <1>5. Spec /\ []Facts => []LeftMeasures /\ [][Goal]_vars
    BY <1>3, <1>4, PTL DEF Spec
  <1> QED  BY <1>2, <1>5, PTL DEF CallsAdvance, Goal
===============================================================================
