---------------------------- MODULE ProxyProofs -----------------------------
(***************************************************************************)
(* Proofs about the request pipeline, for any number of requests and       *)
(* backends and any ceiling; and that its rules, applied one after another *)
(* to any text, mask what they should.                                     *)
(***************************************************************************)
EXTENDS Proxy, SumProofs

(* The kinds of step, with the slot they are a step of.                    *)
LEMMA NextCases ==
    ASSUME Next
    PROVE  \E q \in Slot :
              \/ Refuse(q) \/ FindNone(q) \/ Forward(q) \/ RequestTimeout(q)
              \/ Arrive(q) \/ Release(q) \/ Responded(q) \/ BodyOverLimit(q)
              \/ UpstreamFailed(q) \/ Masked(q) \/ MaskFailed(q)
              \/ \E t \in Sendable : Collect(q, t)
BY DEF Next, OwnStep

(* A refusal is none or an error that a check stands for.                  *)
LEMMA RefusalIsError ==
    \A F : Refusal(F) \in {"none", "RateLimited", "RequestSmuggling", "BodyTooLarge",
                           "BlockedHeader", "BlockedParam"}
BY DEF Refusal

(* The flags a request may have when no check refuses it.                  *)
LEMMA PassedChecks ==
    ASSUME NEW F \in SUBSET Flag, Refusal(F) = "none"
    PROVE  F \subseteq {"over_rate", "streams_long"} /\ (Limiter => "over_rate" \notin F)
BY DEF Refusal, Flag

LEMMA PipelineTypeInit == Init => TypeOK
BY DEF Init, TypeOK, RuleLists, Error

LEMMA PipelineTypeStep == TypeOK /\ [Next]_vars => TypeOK'
<1> SUFFICES ASSUME TypeOK, [Next]_vars PROVE TypeOK'
    OBVIOUS
<1> USE DEF TypeOK
<1>1. CASE UNCHANGED vars
    BY <1>1 DEF vars, RuleLists
<1>2. CASE Next
    <2>1. PICK q \in Slot :
              \/ Refuse(q) \/ FindNone(q) \/ Forward(q) \/ RequestTimeout(q)
              \/ Arrive(q) \/ Release(q) \/ Responded(q) \/ BodyOverLimit(q)
              \/ UpstreamFailed(q) \/ Masked(q) \/ MaskFailed(q)
              \/ \E t \in Sendable : Collect(q, t)
        BY <1>2, NextCases
    <2>2. CASE Refuse(q)
        BY <2>2, RefusalIsError DEF Refuse, Fail, Error
    <2>3. CASE FindNone(q)
        BY <2>3 DEF FindNone, Fail, Error
    <2>4. CASE Forward(q)
        <3>1. PICK b \in Backend :
                  /\ upstream' = [upstream EXCEPT ![q] = b]
                  /\ \/ ~Rewritable(b) /\ Fail(q, "InvalidUpstream")
                     \/ Rewritable(b) /\ Fail(q, "Internal")
                     \/ /\ Rewritable(b)
                        /\ pc' = [pc EXCEPT ![q] = "sent"]
                        /\ UNCHANGED <<rules, flags, head, answer, masked>>
            BY Zenon, <2>4 DEF Forward
        <3>2. CASE Fail(q, "InvalidUpstream") \/ Fail(q, "Internal")
            <4>1. PICK e \in Error : Fail(q, e)
                BY <3>2 DEF Error
            <4>2. /\ pc' = [pc EXCEPT ![q] = "answered"]
                  /\ answer' = [answer EXCEPT ![q] = e]
                  /\ upstream' = [upstream EXCEPT ![q] = b]
                  /\ UNCHANGED <<rules, flags, head, record, buffer, masked>>
                BY <2>4, <3>1, <4>1 DEF Forward, Fail
            <4> QED
                BY <4>2
        <3>3. CASE Rewritable(b) /\ pc' = [pc EXCEPT ![q] = "sent"]
                   /\ UNCHANGED <<rules, flags, head, answer, masked>>
            <4>1. /\ pc[q] = "arrived" /\ pc' = [pc EXCEPT ![q] = "sent"]
                  /\ upstream' = [upstream EXCEPT ![q] = b] /\ b \in Backend \ Schemeless
                  /\ UNCHANGED <<rules, flags, head, record, answer, buffer, masked>>
                BY <2>4, <3>1, <3>3 DEF Forward, Rewritable
            <4>2. \A r \in Slot : pc'[r] \in {"sent", "collecting"} =>
                      upstream'[r] \in Backend \ Schemeless
                BY <4>1
            <4>3. \A r \in Slot : buffer'[r] # <<>> =>
                      pc'[r] \in {"collecting", "answered"} /\ Size(buffer'[r]) <= Ceiling
                BY <4>1
            <4> QED
                BY <4>1, <4>2, <4>3
        <3> QED
            BY <3>1, <3>2, <3>3
    <2>5. CASE RequestTimeout(q)
        BY <2>5 DEF RequestTimeout, Fail, Error
    <2>6. CASE Arrive(q)
        BY <2>6 DEF Arrive, reply
    <2>7. CASE Release(q)
        BY <2>7 DEF Release
    <2>8. CASE Responded(q)
        <3>1. /\ pc[q] = "sent" /\ record' = [record EXCEPT ![q] = "success"]
              /\ UNCHANGED <<rules, flags, upstream, buffer, masked>>
            BY <2>8 DEF Responded, reply
        <3>0. head' \in [Slot -> BackendStatus \cup {0}]
            <4>1. PICK s \in BackendStatus : head' = [head EXCEPT ![q] = s]
                BY Zenon, <2>8 DEF Responded
            <4> QED
                BY <4>1
        <3>2. \/ /\ pc' = [pc EXCEPT ![q] = "answered"]
                 /\ answer' = [answer EXCEPT ![q] = "ok"]
              \/ /\ pc' = [pc EXCEPT ![q] = "collecting"] /\ rules # <<>>
                 /\ UNCHANGED answer
            BY <2>8 DEF Responded, ToMask
        <3>3. \A r \in Slot : buffer'[r] # <<>> =>
                  pc'[r] \in {"collecting", "answered"} /\ Size(buffer'[r]) <= Ceiling
            BY Zenon, <3>1, <3>2
        <3>4. pc' \in [Slot -> {"free", "arrived", "sent", "collecting", "answered"}]
            <4>1. PICK s \in {"collecting", "answered"} : pc' = [pc EXCEPT ![q] = s]
                BY Zenon, <3>2
            <4> QED
                BY <4>1
        <3>5. answer' \in [Slot -> Error \cup {"ok", "none"}]
            BY Zenon, <3>2
        <3>6. \A r \in Slot : /\ pc'[r] \in {"sent", "collecting"} =>
                                    upstream'[r] \in Backend \ Schemeless
                              /\ pc'[r] = "collecting" => rules' # <<>>
            BY <3>1, <3>2
        <3> QED
            BY Zenon, <3>0, <3>1, <3>3, <3>4, <3>5, <3>6
    <2>9. CASE BodyOverLimit(q)
        BY <2>9 DEF BodyOverLimit, Fail, Error
    <2>10. CASE UpstreamFailed(q)
        BY <2>10 DEF UpstreamFailed, Fail, Error
    <2>11. CASE Masked(q)
        BY <2>11 DEF Masked
    <2>12. CASE MaskFailed(q)
        BY <2>12 DEF MaskFailed, Fail, Error
    <2>13. ASSUME NEW t \in Sendable, Collect(q, t) PROVE TypeOK'
        BY <2>13 DEF Collect, Sendable
    <2> QED
        BY Zenon, <2>1, <2>2, <2>3, <2>4, <2>5, <2>6, <2>7, <2>8, <2>9, <2>10, <2>11, <2>12, <2>13
<1> QED
    BY <1>1, <1>2

-----------------------------------------------------------------------------
(* What the stage of a request says of its backend and its answer.  The    *)
(* backend has begun a response exactly where it was credited.             *)
StageInv ==
    \A q \in Slot :
        /\ pc[q] \in {"free", "arrived"} => upstream[q] = NoBackend
        /\ pc[q] \in {"free", "arrived", "sent"} =>
              record[q] = "none" /\ answer[q] = "none" /\ head[q] = 0
        /\ pc[q] = "collecting" => record[q] = "success" /\ answer[q] = "none" /\ head[q] # 0
        /\ pc[q] = "answered" =>
              /\ answer[q] \in Error \cup {"ok"}
              /\ record[q] = "success" <=> head[q] # 0
              /\ record[q] = "failure" <=> answer[q] \in {"Upstream", "Timeout"}
              /\ answer[q] = "ok" => head[q] # 0

PipelineInv == TypeOK /\ StageInv /\ RefusedBeforeSelection

(* The errors that a backend is blamed for are those answered 502 and 504. *)
LEMMA BlamedStatus ==
    \A e \in Error : StatusCode(e) \in {502, 504} <=> e \in {"Upstream", "Timeout"}
BY DEF StatusCode, Error

(* A request whose backend is blamed was never answered by it.             *)
LEMMA StageBlames == StageInv => BlameMatchesOutcome
<1> SUFFICES ASSUME StageInv, NEW q \in Slot
             PROVE  /\ pc[q] \in {"collecting", "answered"} =>
                          (record[q] = "success" <=> head[q] # 0)
                    /\ pc[q] = "answered" =>
                          (record[q] = "failure" <=> head[q] = 0 /\ Status(q) \in {502, 504})
    BY Zenon DEF BlameMatchesOutcome
<1>1. pc[q] \in {"collecting", "answered"} => (record[q] = "success" <=> head[q] # 0)
    BY DEF StageInv
<1>2. ASSUME pc[q] = "answered"
      PROVE  record[q] = "failure" <=> head[q] = 0 /\ Status(q) \in {502, 504}
    <2>1. /\ answer[q] \in Error \cup {"ok"}
          /\ record[q] = "success" <=> head[q] # 0
          /\ record[q] = "failure" <=> answer[q] \in {"Upstream", "Timeout"}
          /\ answer[q] = "ok" => head[q] # 0
        BY <1>2 DEF StageInv
    <2>2. CASE answer[q] = "ok"
        BY <2>1, <2>2
    <2>3. CASE answer[q] # "ok"
        <3>1. Status(q) \in {502, 504} <=> answer[q] \in {"Upstream", "Timeout"}
            BY <2>1, <2>3, BlamedStatus DEF Status
        <3> QED
            BY <2>1, <3>1
    <2> QED
        BY <2>2, <2>3
<1> QED
    BY <1>1, <1>2

(* What it takes for a step of slot q to preserve the invariant: what the  *)
(* other slots hold is unchanged.                                          *)
LEMMA SlotStep ==
    ASSUME PipelineInv, TypeOK', NEW q \in Slot,
           \A r \in Slot \ {q} : /\ pc'[r] = pc[r] /\ flags'[r] = flags[r]
                                 /\ upstream'[r] = upstream[r] /\ head'[r] = head[r]
                                 /\ record'[r] = record[r] /\ answer'[r] = answer[r],
           pc'[q] \in {"free", "arrived"} => upstream'[q] = NoBackend,
           pc'[q] \in {"free", "arrived", "sent"} =>
               record'[q] = "none" /\ answer'[q] = "none" /\ head'[q] = 0,
           pc'[q] = "collecting" =>
               record'[q] = "success" /\ answer'[q] = "none" /\ head'[q] # 0,
           upstream'[q] # NoBackend =>
               /\ flags'[q] \subseteq {"over_rate", "streams_long"}
               /\ Limiter => "over_rate" \notin flags'[q],
           pc'[q] = "answered" =>
               /\ answer'[q] \in Error \cup {"ok"}
               /\ record'[q] = "success" <=> head'[q] # 0
               /\ record'[q] = "failure" <=> answer'[q] \in {"Upstream", "Timeout"}
               /\ answer'[q] = "ok" => head'[q] # 0
    PROVE  PipelineInv'
<1>1. StageInv'
    BY DEF PipelineInv, StageInv
<1>2. RefusedBeforeSelection'
    BY DEF PipelineInv, RefusedBeforeSelection
<1> QED
    BY <1>1, <1>2 DEF PipelineInv

LEMMA PipelineInit == Init => PipelineInv
BY PipelineTypeInit DEF Init, PipelineInv, StageInv, RefusedBeforeSelection

LEMMA PipelineStep == PipelineInv /\ [Next]_vars => PipelineInv'
<1> SUFFICES ASSUME PipelineInv, [Next]_vars PROVE PipelineInv'
    OBVIOUS
<1>t. TypeOK /\ TypeOK'
    BY PipelineTypeStep DEF PipelineInv
<1>1. CASE UNCHANGED vars
    BY <1>1, <1>t DEF vars, PipelineInv, StageInv, RefusedBeforeSelection
<1>2. CASE Next
    <2>1. PICK q \in Slot :
              \/ Refuse(q) \/ FindNone(q) \/ Forward(q) \/ RequestTimeout(q)
              \/ Arrive(q) \/ Release(q) \/ Responded(q) \/ BodyOverLimit(q)
              \/ UpstreamFailed(q) \/ Masked(q) \/ MaskFailed(q)
              \/ \E t \in Sendable : Collect(q, t)
        BY <1>2, NextCases
    <2>s. /\ pc[q] \in {"free", "arrived"} => upstream[q] = NoBackend
          /\ pc[q] \in {"free", "arrived", "sent"} =>
                record[q] = "none" /\ answer[q] = "none" /\ head[q] = 0
          /\ pc[q] = "collecting" =>
                record[q] = "success" /\ answer[q] = "none" /\ head[q] # 0
          /\ upstream[q] # NoBackend =>
                /\ flags[q] \subseteq {"over_rate", "streams_long"}
                /\ Limiter => "over_rate" \notin flags[q]
          /\ flags[q] \in SUBSET Flag
        BY SMTT(30), <1>t DEF PipelineInv, StageInv, RefusedBeforeSelection, TypeOK
    <2>2. CASE Refuse(q)
        <3>1. \A r \in Slot \ {q} : /\ pc'[r] = pc[r] /\ flags'[r] = flags[r]
                                    /\ upstream'[r] = upstream[r] /\ head'[r] = head[r]
                                    /\ record'[r] = record[r] /\ answer'[r] = answer[r]
            BY SMTT(30), <2>2, <1>t DEF Refuse, Fail, TypeOK
        <3>2. /\ pc'[q] = "answered" /\ upstream'[q] = NoBackend
              /\ record'[q] = "none" /\ head'[q] = 0
              /\ answer'[q] = Refusal(flags[q]) /\ Refusal(flags[q]) # "none"
            BY SMTT(30), <2>2, <2>s, <1>t DEF Refuse, Fail, TypeOK
        <3>3. answer'[q] \in Error \ {"Upstream", "Timeout"}
            BY <3>2, RefusalIsError DEF Error
        <3> QED
            BY <3>1, <3>2, <3>3, <1>t, SlotStep DEF Error
    <2>3. CASE FindNone(q)
        <3>1. \A r \in Slot \ {q} : /\ pc'[r] = pc[r] /\ flags'[r] = flags[r]
                                    /\ upstream'[r] = upstream[r] /\ head'[r] = head[r]
                                    /\ record'[r] = record[r] /\ answer'[r] = answer[r]
            BY SMTT(30), <2>3, <1>t DEF FindNone, Fail, TypeOK
        <3>2. /\ pc'[q] = "answered" /\ upstream'[q] = NoBackend /\ head'[q] = 0
              /\ record'[q] = "none" /\ answer'[q] = "NoHealthyUpstream"
            BY SMTT(30), <2>3, <2>s, <1>t DEF FindNone, Fail, TypeOK
        <3> QED
            BY <3>1, <3>2, <1>t, SlotStep DEF Error
    <2>4. CASE Forward(q)
        <3>1. \A r \in Slot \ {q} : /\ pc'[r] = pc[r] /\ flags'[r] = flags[r]
                                    /\ upstream'[r] = upstream[r] /\ head'[r] = head[r]
                                    /\ record'[r] = record[r] /\ answer'[r] = answer[r]
            BY SMTT(30), <2>4, <1>t DEF Forward, Fail, TypeOK
        <3>2. /\ flags'[q] \subseteq {"over_rate", "streams_long"}
              /\ Limiter => "over_rate" \notin flags'[q]
              /\ record'[q] = "none" /\ head'[q] = 0
            BY SMTT(30), <2>4, <2>s, PassedChecks DEF Forward, Fail
        <3>3. \/ pc'[q] = "answered" /\ answer'[q] \in {"InvalidUpstream", "Internal"}
              \/ pc'[q] = "sent" /\ answer'[q] = "none"
            BY SMTT(30), <2>4, <2>s, <1>t DEF Forward, Fail, TypeOK
        <3> QED
            BY Zenon, <3>1, <3>2, <3>3, <1>t, SlotStep DEF Error
    <2>5. CASE RequestTimeout(q)
        BY SMTT(30), <2>5, <2>s, <1>t, SlotStep DEF RequestTimeout, Fail, Error, TypeOK
    <2>6. CASE Arrive(q)
        BY SMTT(30), <2>6, <2>s, <1>t, SlotStep DEF Arrive, TypeOK
    <2>7. CASE Release(q)
        <3>1. \A r \in Slot \ {q} : /\ pc'[r] = pc[r] /\ flags'[r] = flags[r]
                                    /\ upstream'[r] = upstream[r] /\ head'[r] = head[r]
                                    /\ record'[r] = record[r] /\ answer'[r] = answer[r]
            BY SMTT(30), <2>7, <1>t DEF Release, TypeOK
        <3>2. /\ pc'[q] = "free" /\ upstream'[q] = NoBackend /\ head'[q] = 0
              /\ record'[q] = "none" /\ answer'[q] = "none"
            BY SMTT(30), <2>7, <1>t DEF Release, TypeOK
        <3> QED
            BY <3>1, <3>2, <1>t, SlotStep
    <2>8. CASE Responded(q)
        <3>1. \A r \in Slot \ {q} : /\ pc'[r] = pc[r] /\ flags'[r] = flags[r]
                                    /\ upstream'[r] = upstream[r] /\ head'[r] = head[r]
                                    /\ record'[r] = record[r] /\ answer'[r] = answer[r]
            BY SMTT(30), <2>8, <1>t DEF Responded, TypeOK
        <3>2. /\ upstream'[q] = upstream[q] /\ flags'[q] = flags[q]
              /\ record'[q] = "success" /\ head'[q] # 0
            BY SMTT(30), <2>8, <1>t DEF Responded, BackendStatus, TypeOK
        <3>3. \/ pc'[q] = "answered" /\ answer'[q] = "ok"
              \/ pc'[q] = "collecting" /\ answer'[q] = "none"
            BY SMTT(30), <2>8, <2>s, <1>t DEF Responded, TypeOK
        <3> QED
            BY Zenon, <3>1, <3>2, <3>3, <2>s, <1>t, SlotStep
    <2>9. CASE BodyOverLimit(q)
        BY SMTT(30), <2>9, <2>s, <1>t, SlotStep DEF BodyOverLimit, Fail, Error, TypeOK
    <2>10. CASE UpstreamFailed(q)
        BY SMTT(30), <2>10, <2>s, <1>t, SlotStep DEF UpstreamFailed, Fail, Error, TypeOK
    <2>11. CASE Masked(q)
        BY SMTT(30), <2>11, <2>s, <1>t, SlotStep DEF Masked, TypeOK
    <2>12. CASE MaskFailed(q)
        BY SMTT(30), <2>12, <2>s, <1>t, SlotStep DEF MaskFailed, Fail, Error, TypeOK
    <2>13. ASSUME NEW t \in Sendable, Collect(q, t) PROVE PipelineInv'
        BY Zenon, <2>13, <2>s, <1>t, SlotStep DEF Collect, TypeOK
    <2> QED
        BY <2>1, <2>2, <2>3, <2>4, <2>5, <2>6, <2>7, <2>8, <2>9, <2>10, <2>11, <2>12, <2>13
<1> QED
    BY <1>1, <1>2

(* Every slot is in a state of the pipeline, and no buffer outgrows the    *)
(* masking ceiling: TypeOK is an invariant of the pipeline.                *)
THEOREM PipelineTypeCorrect == Spec => []TypeOK
BY PipelineTypeInit, PipelineTypeStep, PTL DEF Spec

LEMMA PipelineAlways == Spec => []PipelineInv
BY PipelineInit, PipelineStep, PTL DEF Spec

(* handle_request selects no backend for a request that a check refuses,   *)
(* whatever else is wrong with it.                                         *)
THEOREM ChecksComeFirst == Spec => []RefusedBeforeSelection
<1>1. PipelineInv => RefusedBeforeSelection
    BY DEF PipelineInv
<1> QED
    BY <1>1, PipelineAlways, PTL

(* handle_request records of a backend what the backend did, whatever the  *)
(* status it answers with.                                                 *)
THEOREM PipelineBlame == Spec => []BlameMatchesOutcome
<1>1. PipelineInv => BlameMatchesOutcome
    BY StageBlames DEF PipelineInv
<1> QED
    BY <1>1, PipelineAlways, PTL

-----------------------------------------------------------------------------
(* The state of a rule that scans a text.                                  *)
Stage == {"scan", "name", "value"}
ScanState == [out : Seq(Token), at : Stage]
Start == [out |-> <<>>, at |-> "scan"]

(* A token takes it to another such state.                                 *)
LEMMA ScanType ==
    ASSUME NEW p \in Param, NEW s \in ScanState, NEW t \in Token
    PROVE  Scan(p, s, t) \in ScanState
PROOF
<1>1. s.out \in Seq(Token) /\ s.at \in Stage /\ Mask \in Token
    BY DEF ScanState, Token
<1>2. Append(s.out, t) \in Seq(Token) /\ Append(s.out, Mask) \in Seq(Token)
    BY <1>1
<1>3. CASE s.at = "scan"
    BY <1>2, <1>3 DEF Scan, ScanState, Stage
<1>4. CASE s.at = "name"
    BY <1>2, <1>4 DEF Scan, ScanState, Stage
<1>5. CASE s.at = "value"
    BY <1>2, <1>5 DEF Scan, ScanState, Stage
<1>6. QED
    BY <1>1, <1>3, <1>4, <1>5 DEF Stage

(* The scan of a rule along a text is what its definition says.            *)
LEMMA ScannedIs ==
    ASSUME NEW p \in Param, NEW text \in Seq(Token)
    PROVE  /\ Scanned(p, text) \in [0..Len(text) -> ScanState]
           /\ Scanned(p, text)[0] = Start
           /\ \A i \in 1..Len(text) :
                 Scanned(p, text)[i] = Scan(p, Scanned(p, text)[i - 1], text[i])
PROOF
<1> DEFINE n == Len(text)
           Def(s) == [i \in 0..n |-> IF i = 0 THEN Start ELSE Scan(p, s[i - 1], text[i])]
           F == [i \in 1..n |-> [s \in ScanState |-> Scan(p, s, text[i])]]
<1>1. n \in Nat /\ \A i \in 1..n : text[i] \in Token
    OBVIOUS
<1>2. Start \in ScanState
    BY DEF Start, ScanState, Stage
<1>3. F \in [1..n -> [ScanState -> ScanState]]
    BY <1>1, ScanType
<1>4. \A i \in 1..n : \A s \in ScanState : F[i][s] = Scan(p, s, text[i])
    OBVIOUS
<1>5. PICK g \in [0..n -> ScanState] : g[0] = Start /\ \A i \in 1..n : g[i] = F[i][g[i - 1]]
    <2>1. n \in Nat
        OBVIOUS
    <2> HIDE DEF F, n
    <2>2. \E s : Runs(s, ScanState, Start, F, n)
        BY Zenon, <1>2, <1>3, <2>1, RunExists
    <2>3. QED
        BY Zenon, <2>2 DEF Runs
<1>6. g = Def(g)
    <2>1. ASSUME NEW i \in 0..n PROVE g[i] = IF i = 0 THEN Start ELSE Scan(p, g[i - 1], text[i])
        <3>1. CASE i = 0
            BY <1>5, <3>1
        <3>2. CASE i # 0
            <4>1. i \in 1..n /\ i - 1 \in 0..n
                BY <1>1, <3>2
            <4>2. g[i] = F[i][g[i - 1]] /\ g[i - 1] \in ScanState
                BY <1>5, <4>1
            <4>3. QED
                BY Zenon, <1>4, <3>2, <4>1, <4>2
        <3>3. QED
            BY <3>1, <3>2
    <2>2. QED
        BY Zenon, <1>5, <2>1
<1>7. Scanned(p, text) = CHOOSE s : s = Def(s)
    BY Zenon DEF Scanned, Start
<1>8. Scanned(p, text) = Def(Scanned(p, text))
    <2> HIDE DEF Def
    <2>1. QED
        BY Zenon, <1>6, <1>7
<1> DEFINE s == Scanned(p, text)
<1> HIDE DEF s
<1>9. s = [i \in 0..n |-> IF i = 0 THEN Start ELSE Scan(p, s[i - 1], text[i])]
    BY Zenon, <1>8 DEF s
<1>10. /\ s[0] = Start /\ \A i \in 1..n : s[i] = Scan(p, s[i - 1], text[i])
       /\ DOMAIN s = 0..n
    <2> HIDE DEF n
    <2>1. 0 \in 0..n /\ \A i \in 1..n : i \in 0..n /\ i # 0
        BY <1>1
    <2>2. QED
        BY Zenon, <1>9, <2>1
<1>11. \A k \in Nat : k <= n => s[k] \in ScanState
    <2> DEFINE S == {k \in Nat : k <= n => s[k] \in ScanState}
    <2>1. 0 \in S
        BY <1>2, <1>10
    <2>2. ASSUME NEW k \in Nat, k \in S PROVE k + 1 \in S
        <3> SUFFICES ASSUME k + 1 <= n PROVE s[k + 1] \in ScanState
            OBVIOUS
        <3>1. k + 1 \in 1..n /\ (k + 1) - 1 = k /\ k <= n
            BY <1>1
        <3>2. s[k] \in ScanState /\ text[k + 1] \in Token
            BY <1>1, <2>2, <3>1
        <3>3. s[k + 1] = Scan(p, s[k], text[k + 1])
            BY Zenon, <1>10, <3>1
        <3>4. QED
            BY Zenon, <3>2, <3>3, ScanType
    <2> HIDE DEF S
    <2>3. Nat \subseteq S
        BY <2>1, <2>2, SetInduction
    <2>4. QED
        BY <2>3 DEF S
<1>12. s \in [0..n -> ScanState]
    <2> HIDE DEF n
    <2>1. \A k \in 0..n : s[k] \in ScanState
        BY <1>1, <1>11
    <2>2. s = [k \in 0..n |-> s[k]]
        BY Zenon, <1>9
    <2>3. QED
        BY <2>1, <2>2
<1>13. QED
    BY Zenon, <1>10, <1>12 DEF s

(* Where a rule's scan of the whole text ends.                             *)
AtEnd(p, text) == Scanned(p, text)[Len(text)]

(* It ends there, with a text.                                             *)
LEMMA AtEndType ==
    ASSUME NEW p \in Param, NEW text \in Seq(Token)
    PROVE  AtEnd(p, text) \in ScanState /\ AtEnd(p, text).out \in Seq(Token)
PROOF
<1>1. Len(text) \in 0..Len(text)
    OBVIOUS
<1>2. AtEnd(p, text) \in ScanState
    BY <1>1, ScannedIs DEF AtEnd
<1>3. QED
    BY <1>2 DEF ScanState

(* One more token takes one more step.                                     *)
LEMMA AtEndAppend ==
    ASSUME NEW p \in Param, NEW text \in Seq(Token), NEW t \in Token
    PROVE  /\ AtEnd(p, <<>>) = Start
           /\ AtEnd(p, Append(text, t)) = Scan(p, AtEnd(p, text), t)
PROOF
<1> DEFINE n == Len(text)
           u == Append(text, t)
           a == Scanned(p, text)
           b == Scanned(p, u)
<1>1. /\ n \in Nat /\ u \in Seq(Token) /\ Len(u) = n + 1 /\ u[n + 1] = t
      /\ \A i \in 1..n : u[i] = text[i]
    OBVIOUS
<1>2. <<>> \in Seq(Token) /\ Len(<<>>) = 0
    OBVIOUS
<1>3. AtEnd(p, <<>>) = Start
    BY Zenon, <1>2, ScannedIs DEF AtEnd
<1>4. a[0] = Start /\ \A i \in 1..n : a[i] = Scan(p, a[i - 1], text[i])
    BY Zenon, ScannedIs
<1> HIDE DEF u
<1>5. b[0] = Start /\ \A i \in 1..(n + 1) : b[i] = Scan(p, b[i - 1], u[i])
    BY Zenon, <1>1, ScannedIs
<1> HIDE DEF n, a, b
<1>6. Nat \subseteq {k \in Nat : k <= n => b[k] = a[k]}
    <2> DEFINE S == {k \in Nat : k <= n => b[k] = a[k]}
    <2>1. 0 \in S
        BY <1>4, <1>5
    <2>2. ASSUME NEW k \in Nat, k \in S PROVE k + 1 \in S
        <3> SUFFICES ASSUME k + 1 <= n PROVE b[k + 1] = a[k + 1]
            OBVIOUS
        <3>1. /\ k + 1 \in 1..n /\ k + 1 \in 1..(n + 1) /\ (k + 1) - 1 = k /\ k <= n
            BY <1>1
        <3>2. b[k] = a[k] /\ u[k + 1] = text[k + 1]
            BY <1>1, <2>2, <3>1
        <3>3. QED
            BY Zenon, <1>4, <1>5, <3>1, <3>2
    <2> HIDE DEF S
    <2>3. Nat \subseteq S
        BY <2>1, <2>2, SetInduction
    <2>4. QED
        BY <2>3 DEF S
<1>7. b[n] = a[n]
    BY <1>1, <1>6
<1>8. n + 1 \in 1..(n + 1) /\ (n + 1) - 1 = n
    BY <1>1
<1>9. b[n + 1] = Scan(p, a[n], t)
    BY Zenon, <1>1, <1>5, <1>7, <1>8
<1>10. AtEnd(p, u) = Scan(p, AtEnd(p, text), t)
    BY Zenon, <1>1, <1>9 DEF AtEnd, n, a, b
<1>11. QED
    BY Zenon, <1>3, <1>10 DEF u

-----------------------------------------------------------------------------
(* One step of what is shown of a text.                                    *)
ShowStep(P, text, i, s) ==
    IF ~Hidden(P, text, i) THEN Append(s, text[i])
    ELSE IF Hidden(P, text, i - 1) THEN s
    ELSE Append(s, Mask)

(* It is a text.                                                           *)
LEMMA ShowStepType ==
    ASSUME NEW P, NEW text \in Seq(Token), NEW i \in 1..Len(text), NEW s \in Seq(Token)
    PROVE  ShowStep(P, text, i, s) \in Seq(Token)
PROOF
<1>1. text[i] \in Token /\ Mask \in Token
    BY DEF Token
<1>2. Append(s, text[i]) \in Seq(Token) /\ Append(s, Mask) \in Seq(Token)
    BY <1>1
<1>3. QED
    BY Zenon, <1>2 DEF ShowStep

(* The function is the one that takes these steps.                         *)
LEMMA ShownIs ==
    ASSUME NEW P, NEW text \in Seq(Token)
    PROVE  /\ Shown(P, text) \in [0..Len(text) -> Seq(Token)]
           /\ Shown(P, text)[0] = <<>>
           /\ \A i \in 1..Len(text) :
                 Shown(P, text)[i] = ShowStep(P, text, i, Shown(P, text)[i - 1])
PROOF
<1> DEFINE n == Len(text)
           Def(s) == [i \in 0..n |-> IF i = 0 THEN <<>> ELSE ShowStep(P, text, i, s[i - 1])]
           F == [i \in 1..n |-> [s \in Seq(Token) |-> ShowStep(P, text, i, s)]]
<1>1. n \in Nat /\ <<>> \in Seq(Token)
    OBVIOUS
<1>3. F \in [1..n -> [Seq(Token) -> Seq(Token)]]
    BY <1>1, ShowStepType
<1>4. \A i \in 1..n : \A s \in Seq(Token) : F[i][s] = ShowStep(P, text, i, s)
    BY Zenon
<1>5. PICK g \in [0..n -> Seq(Token)] : g[0] = <<>> /\ \A i \in 1..n : g[i] = F[i][g[i - 1]]
    <2> HIDE DEF F, n
    <2>2. \E s : Runs(s, Seq(Token), <<>>, F, n)
        BY Zenon, <1>1, <1>3, RunExists
    <2>3. QED
        BY Zenon, <2>2 DEF Runs
<1>6. g = Def(g)
    <2>1. ASSUME NEW i \in 0..n
          PROVE  g[i] = IF i = 0 THEN <<>> ELSE ShowStep(P, text, i, g[i - 1])
        <3>1. CASE i = 0
            BY <1>5, <3>1
        <3>2. CASE i # 0
            <4>1. i \in 1..n /\ i - 1 \in 0..n
                BY <1>1, <3>2
            <4>2. g[i] = F[i][g[i - 1]] /\ g[i - 1] \in Seq(Token)
                BY Zenon, <1>5, <4>1
            <4>3. QED
                BY Zenon, <1>4, <3>2, <4>1, <4>2
        <3>3. QED
            BY <3>1, <3>2
    <2>2. QED
        BY Zenon, <1>5, <2>1
<1>7. Shown(P, text) = CHOOSE s : s = Def(s)
    BY Zenon DEF Shown, ShowStep
<1>8. Shown(P, text) = Def(Shown(P, text))
    <2> HIDE DEF Def
    <2>1. QED
        BY Zenon, <1>6, <1>7
<1> DEFINE s == Shown(P, text)
<1> HIDE DEF s
<1>9. s = [i \in 0..n |-> IF i = 0 THEN <<>> ELSE ShowStep(P, text, i, s[i - 1])]
    BY Zenon, <1>8 DEF s
<1>10. s[0] = <<>> /\ \A i \in 1..n : s[i] = ShowStep(P, text, i, s[i - 1])
    <2> HIDE DEF n
    <2>1. 0 \in 0..n /\ \A i \in 1..n : i \in 0..n /\ i # 0
        BY <1>1
    <2>2. QED
        BY Zenon, <1>9, <2>1
<1>11. Nat \subseteq {k \in Nat : k <= n => s[k] \in Seq(Token)}
    <2> DEFINE S == {k \in Nat : k <= n => s[k] \in Seq(Token)}
    <2>1. 0 \in S
        BY Zenon, <1>1, <1>10
    <2>2. ASSUME NEW k \in Nat, k \in S PROVE k + 1 \in S
        <3> SUFFICES ASSUME k + 1 <= n PROVE s[k + 1] \in Seq(Token)
            OBVIOUS
        <3>1. k + 1 \in 1..n /\ (k + 1) - 1 = k /\ k <= n
            BY <1>1
        <3>2. s[k] \in Seq(Token)
            BY <2>2, <3>1
        <3>3. s[k + 1] = ShowStep(P, text, k + 1, s[k])
            BY Zenon, <1>10, <3>1
        <3>4. QED
            BY Zenon, <3>1, <3>2, <3>3, ShowStepType
    <2> HIDE DEF S
    <2>3. Nat \subseteq S
        BY <2>1, <2>2, SetInduction
    <2>4. QED
        BY <2>3 DEF S
<1>12. s \in [0..n -> Seq(Token)]
    <2> HIDE DEF n
    <2>1. \A k \in 0..n : s[k] \in Seq(Token)
        BY <1>1, <1>11
    <2>2. s = [k \in 0..n |-> s[k]]
        BY Zenon, <1>9
    <2>3. QED
        BY Zenon, <2>1, <2>2
<1>13. QED
    BY Zenon, <1>10, <1>12 DEF s

-----------------------------------------------------------------------------
(* Where a scan for the names in P is after the first i tokens: behind a   *)
(* name, in a value, or in neither.                                        *)
StageAt(P, text, i) ==
    IF Hidden(P, text, i) THEN "value"
    ELSE IF i # 0 /\ text[i] \in P THEN "name" ELSE "scan"

(* What is hidden, from one position to the next.                          *)
LEMMA HiddenNext ==
    ASSUME NEW P \in SUBSET Param, NEW text \in Seq(Token), NEW i \in Nat, i + 1 <= Len(text)
    PROVE  /\ ~Hidden(P, text, 0)
           /\ Hidden(P, text, i + 1) <=>
                 /\ text[i + 1] # Sep
                 /\ Hidden(P, text, i) \/ (i # 0 /\ text[i] \in P)
PROOF
<1>1. ~Hidden(P, text, 0)
    BY DEF Hidden
<1>2. ASSUME Hidden(P, text, i + 1)
      PROVE  text[i + 1] # Sep /\ (Hidden(P, text, i) \/ (i # 0 /\ text[i] \in P))
    <2>1. PICK j \in 1..i : text[j] \in P /\ \A k \in j..(i + 1) : text[k] # Sep
        <3>1. (i + 1) - 1 = i
            OBVIOUS
        <3>2. QED
            BY Zenon, <1>2, <3>1 DEF Hidden
    <2>2. text[i + 1] # Sep
        BY <2>1
    <2>3. CASE j = i
        BY <2>1, <2>2, <2>3
    <2>4. CASE j # i
        <3>1. j \in 1..(i - 1) /\ \A k \in j..i : k \in j..(i + 1)
            BY <2>4
        <3>2. Hidden(P, text, i)
            BY Zenon, <2>1, <3>1 DEF Hidden
        <3>3. QED
            BY <2>2, <3>2
    <2>5. QED
        BY <2>3, <2>4
<1>3. ASSUME text[i + 1] # Sep, Hidden(P, text, i) PROVE Hidden(P, text, i + 1)
    <2>1. PICK j \in 1..(i - 1) : text[j] \in P /\ \A k \in j..i : text[k] # Sep
        BY Zenon, <1>3 DEF Hidden
    <2>2. j \in 1..((i + 1) - 1)
        OBVIOUS
    <2>3. ASSUME NEW k \in j..(i + 1) PROVE text[k] # Sep
        <3>1. k \in j..i \/ k = i + 1
            OBVIOUS
        <3>2. QED
            BY Zenon, <1>3, <2>1, <3>1
    <2>4. QED
        BY Zenon, <2>1, <2>2, <2>3 DEF Hidden
<1>4. ASSUME text[i + 1] # Sep, i # 0, text[i] \in P PROVE Hidden(P, text, i + 1)
    <2>1. i \in 1..((i + 1) - 1)
        BY <1>4
    <2>2. ASSUME NEW k \in i..(i + 1) PROVE text[k] # Sep
        <3>1. k = i \/ k = i + 1
            OBVIOUS
        <3>2. text[i] # Sep
            BY Zenon, <1>4, ParamAssumption
        <3>3. QED
            BY Zenon, <1>4, <3>1, <3>2
    <2>3. QED
        BY Zenon, <1>4, <2>1, <2>2 DEF Hidden
<1>5. QED
    BY Zenon, <1>1, <1>2, <1>3, <1>4

(* How the stage moves with the next token, and what is shown of it.       *)
Moves(P, t, a, o, b, u) ==
    /\ t = Sep => b = "scan" /\ u = Append(o, t)
    /\ t # Sep /\ a = "scan" => b = (IF t \in P THEN "name" ELSE "scan") /\ u = Append(o, t)
    /\ t # Sep /\ a = "name" => b = "value" /\ u = Append(o, Mask)
    /\ t # Sep /\ a = "value" => b = "value" /\ u = o

(* The stage and what is shown move so.                                    *)
LEMMA StageNext ==
    ASSUME NEW P \in SUBSET Param, NEW text \in Seq(Token), NEW i \in Nat, i + 1 <= Len(text)
    PROVE  /\ StageAt(P, text, i) \in Stage
           /\ Moves(P, text[i + 1], StageAt(P, text, i), Shown(P, text)[i],
                    StageAt(P, text, i + 1), Shown(P, text)[i + 1])
PROOF
<1> DEFINE t == text[i + 1]
           h == Hidden(P, text, i)
           g == Hidden(P, text, i + 1)
           out == Shown(P, text)[i]
           new == Shown(P, text)[i + 1]
<1>1. ~Hidden(P, text, 0) /\ (g <=> t # Sep /\ (h \/ (i # 0 /\ text[i] \in P)))
    BY Zenon, HiddenNext
<1>2. i + 1 \in 1..Len(text) /\ (i + 1) - 1 = i /\ i + 1 # 0
    OBVIOUS
<1>3. new = ShowStep(P, text, i + 1, out)
    BY Zenon, <1>2, ShownIs
<1>4. new = IF ~g THEN Append(out, t) ELSE IF h THEN out ELSE Append(out, Mask)
    BY Zenon, <1>2, <1>3 DEF ShowStep
<1>5. StageAt(P, text, i) = IF h THEN "value" ELSE IF i # 0 /\ text[i] \in P THEN "name" ELSE "scan"
    BY Zenon DEF StageAt
<1>6. StageAt(P, text, i + 1) = IF g THEN "value" ELSE IF t \in P THEN "name" ELSE "scan"
    BY Zenon, <1>2 DEF StageAt
<1>7. Sep \notin P
    BY ParamAssumption
<1> HIDE DEF t, h, g, out, new
<1>8. StageAt(P, text, i) \in Stage
    BY <1>5 DEF Stage
<1>9. Moves(P, t, StageAt(P, text, i), out, StageAt(P, text, i + 1), new)
    BY SMTT(30), <1>1, <1>4, <1>5, <1>6, <1>7 DEF Moves
<1>10. QED
    BY Zenon, <1>8, <1>9 DEF t, out, new

(* The stages of three scans that belong together: for the names in P on   *)
(* the text; of the rule for p on what the first shows; and for both on    *)
(* the text.                                                               *)
Agree(a, b, c) ==
    \/ a = "scan" /\ c = b
    \/ a = "name" /\ c = (IF b = "value" THEN "value" ELSE "name")
    \/ a = "value" /\ c = "value" /\ b # "name"

Composes(P, p, text, i) ==
    LET q == AtEnd(p, Shown(P, text)[i])
    IN  /\ q.out = Shown(P \cup {p}, text)[i]
        /\ Agree(StageAt(P, text, i), q.at, StageAt(P \cup {p}, text, i))

(* What the rule for p does with one token.                                *)
LEMMA ScanCases ==
    ASSUME NEW p \in Param, NEW s \in ScanState, NEW t \in Token
    PROVE  /\ s.at = "scan" => /\ Scan(p, s, t).out = Append(s.out, t)
                               /\ Scan(p, s, t).at = IF t = p THEN "name" ELSE "scan"
           /\ s.at # "scan" /\ t = Sep => /\ Scan(p, s, t).out = Append(s.out, t)
                                          /\ Scan(p, s, t).at = "scan"
           /\ s.at = "name" /\ t # Sep => /\ Scan(p, s, t).out = Append(s.out, Mask)
                                          /\ Scan(p, s, t).at = "value"
           /\ s.at = "value" /\ t # Sep => Scan(p, s, t) = s
PROOF
<1>1. s.at \in {"scan", "name", "value"}
    BY DEF ScanState, Stage
<1>2. CASE s.at = "scan"
    <2>1. Scan(p, s, t) = [out |-> Append(s.out, t), at |-> IF t = p THEN "name" ELSE "scan"]
        BY <1>2 DEF Scan
    <2>2. QED
        BY <1>2, <2>1
<1>3. CASE s.at = "name" /\ t # Sep
    <2>1. Scan(p, s, t) = [out |-> Append(s.out, Mask), at |-> "value"]
        BY <1>3 DEF Scan
    <2>2. QED
        BY <1>3, <2>1
<1>4. CASE s.at = "value" /\ t # Sep
    <2>1. Scan(p, s, t) = s
        BY <1>4 DEF Scan
    <2>2. QED
        BY <1>4, <2>1
<1>5. CASE s.at # "scan" /\ t = Sep
    <2>1. Scan(p, s, t) = [out |-> Append(s.out, t), at |-> "scan"]
        BY <1>1, <1>5 DEF Scan
    <2>2. QED
        BY <1>5, <2>1
<1>6. QED
    BY Zenon, <1>1, <1>2, <1>3, <1>4, <1>5

(* They stay together over one more token: the rule for p reads a mask     *)
(* where the names in P have hidden a value, and nothing where the value   *)
(* goes on.                                                                *)
LEMMA ComposesNext ==
    ASSUME NEW P \in SUBSET Param, NEW p \in Param, NEW text \in Seq(Token),
           NEW i \in Nat, i + 1 <= Len(text), Composes(P, p, text, i)
    PROVE  Composes(P, p, text, i + 1)
PROOF
<1> DEFINE Q == P \cup {p}
<1>1. Q \in SUBSET Param
    OBVIOUS
<1>2. PICK t \in Token, o \in Seq(Token) : t = text[i + 1] /\ o = Shown(P, text)[i]
    <2>1. text[i + 1] \in Token /\ i \in 0..Len(text)
        OBVIOUS
    <2>2. QED
        BY Zenon, <2>1, ShownIs
<1>3. PICK q \in ScanState : q = AtEnd(p, o)
    BY Zenon, AtEndType
<1>4. PICK a, c : a = StageAt(P, text, i) /\ c = StageAt(Q, text, i)
    OBVIOUS
<1>5. q.out = Shown(Q, text)[i] /\ Agree(a, q.at, c)
    BY Zenon, <1>2, <1>3, <1>4 DEF Composes
<1>6. AtEnd(p, Append(o, t)) = Scan(p, q, t) /\ AtEnd(p, Append(o, Mask)) = Scan(p, q, Mask)
    <2>1. Mask \in Token
        BY DEF Token
    <2>2. QED
        BY Zenon, <1>3, <2>1, AtEndAppend
<1>7. Sep \notin P /\ Sep # p /\ Mask # p /\ Mask # Sep
    BY ParamAssumption DEF Sep, Mask
<1>8. a \in Stage /\ c \in Stage
    BY Zenon, <1>1, <1>4, StageNext
<1>p. PICK a1, o1 : a1 = StageAt(P, text, i + 1) /\ o1 = Shown(P, text)[i + 1]
    OBVIOUS
<1>q. PICK c1, w1 : c1 = StageAt(Q, text, i + 1) /\ w1 = Shown(Q, text)[i + 1]
    OBVIOUS
<1>9. Moves(P, t, a, o, a1, o1)
    BY Zenon, <1>2, <1>4, <1>p, StageNext
<1>10. Moves(Q, t, c, q.out, c1, w1)
    BY Zenon, <1>1, <1>2, <1>4, <1>5, <1>q, StageNext
<1>11. SUFFICES AtEnd(p, o1).out = w1 /\ Agree(a1, AtEnd(p, o1).at, c1)
    BY Zenon, <1>p, <1>q DEF Composes
<1>12. CASE t = Sep
    <2>1. Scan(p, q, t).out = Append(q.out, t) /\ Scan(p, q, t).at = "scan"
        BY <1>7, <1>12, ScanCases
    <2>2. QED
        BY Zenon, <1>6, <1>9, <1>10, <1>12, <2>1 DEF Agree, Moves
<1>13. CASE t # Sep /\ a = "scan" /\ q.at = "scan"
    <2>1. /\ Scan(p, q, t).out = Append(q.out, t)
          /\ Scan(p, q, t).at = IF t = p THEN "name" ELSE "scan"
        BY SMTT(30), <1>13, ScanCases DEF Token
    <2>2. c = "scan" /\ w1 = Append(q.out, t) /\ o1 = Append(o, t)
        BY Zenon, <1>5, <1>9, <1>10, <1>13 DEF Agree, Moves
    <2>3. Agree(a1, Scan(p, q, t).at, c1)
        BY <1>9, <1>10, <1>13, <2>1, <2>2 DEF Agree, Moves
    <2>4. QED
        BY Zenon, <1>6, <2>1, <2>2, <2>3
<1>14. CASE t # Sep /\ a = "scan" /\ q.at = "name"
    <2>1. Scan(p, q, t).out = Append(q.out, Mask) /\ Scan(p, q, t).at = "value"
        BY Zenon, <1>14, ScanCases
    <2>2. c = "name" /\ w1 = Append(q.out, Mask) /\ o1 = Append(o, t) /\ c1 = "value"
        BY Zenon, <1>5, <1>9, <1>10, <1>14 DEF Agree, Moves
    <2>3. Agree(a1, Scan(p, q, t).at, c1)
        BY <1>9, <1>14, <2>1, <2>2 DEF Agree, Moves
    <2>4. QED
        BY Zenon, <1>6, <2>1, <2>2, <2>3
<1>15. CASE t # Sep /\ a = "scan" /\ q.at = "value"
    <2>1. Scan(p, q, t) = q
        BY SMTT(30), <1>15, ScanCases DEF Token
    <2>2. c = "value" /\ w1 = q.out /\ o1 = Append(o, t) /\ c1 = "value"
        BY <1>5, <1>9, <1>10, <1>15 DEF Agree, Moves
    <2>3. Agree(a1, q.at, c1)
        BY <1>9, <1>15, <2>2 DEF Agree, Moves
    <2>4. QED
        BY Zenon, <1>6, <2>1, <2>2, <2>3
<1>16. CASE t # Sep /\ a = "name" /\ q.at = "scan"
    <2>1. Scan(p, q, Mask).out = Append(q.out, Mask) /\ Scan(p, q, Mask).at = "scan"
        BY SMTT(30), <1>7, <1>16, ScanCases DEF Token
    <2>2. /\ c = "name" /\ c1 = "value" /\ a1 = "value"
          /\ w1 = Append(q.out, Mask) /\ o1 = Append(o, Mask)
        BY Zenon, <1>5, <1>9, <1>10, <1>16 DEF Agree, Moves
    <2>3. Agree(a1, Scan(p, q, Mask).at, c1)
        BY <2>1, <2>2 DEF Agree, Moves
    <2>4. QED
        BY Zenon, <1>6, <2>1, <2>2, <2>3
<1>17. CASE t # Sep /\ a = "name" /\ q.at = "name"
    <2>1. Scan(p, q, Mask).out = Append(q.out, Mask) /\ Scan(p, q, Mask).at = "value"
        BY SMTT(30), <1>7, <1>17, ScanCases DEF Token
    <2>2. /\ c = "name" /\ c1 = "value" /\ a1 = "value"
          /\ w1 = Append(q.out, Mask) /\ o1 = Append(o, Mask)
        BY Zenon, <1>5, <1>9, <1>10, <1>17 DEF Agree, Moves
    <2>3. Agree(a1, Scan(p, q, Mask).at, c1)
        BY <2>1, <2>2 DEF Agree, Moves
    <2>4. QED
        BY Zenon, <1>6, <2>1, <2>2, <2>3
<1>18. CASE t # Sep /\ a = "name" /\ q.at = "value"
    <2>1. Scan(p, q, Mask) = q
        BY SMTT(30), <1>7, <1>18, ScanCases DEF Token
    <2>2. c = "value" /\ w1 = q.out /\ o1 = Append(o, Mask) /\ c1 = "value" /\ a1 = "value"
        BY <1>5, <1>9, <1>10, <1>18 DEF Agree, Moves
    <2>3. Agree(a1, q.at, c1)
        BY <1>18, <2>2 DEF Agree, Moves
    <2>4. QED
        BY Zenon, <1>6, <2>1, <2>2, <2>3
<1>19. CASE t # Sep /\ a = "value"
    <2>1. c = "value" /\ w1 = q.out /\ o1 = o /\ c1 = "value" /\ a1 = "value" /\ q.at # "name"
        BY <1>5, <1>9, <1>10, <1>19 DEF Agree, Moves
    <2>2. Agree(a1, q.at, c1)
        BY <2>1 DEF Agree, Moves
    <2>3. QED
        BY Zenon, <1>3, <2>1, <2>2
<1>20. q.at \in Stage
    BY DEF ScanState
<1>21. QED
    BY Zenon, <1>8, <1>12, <1>13, <1>14, <1>15, <1>16, <1>17, <1>18, <1>19, <1>20 DEF Stage

(* Masking p in a text in which the names in P are masked masks both.      *)
LEMMA RuleComposes ==
    ASSUME NEW P \in SUBSET Param, NEW p \in Param, NEW text \in Seq(Token)
    PROVE  /\ MaskedText(P, text) \in Seq(Token)
           /\ ApplyRule(p, MaskedText(P, text)) = MaskedText(P \cup {p}, text)
PROOF
<1> DEFINE n == Len(text)
           S == {k \in Nat : k <= n => Composes(P, p, text, k)}
<1>1. n \in Nat /\ n \in 0..n /\ n <= n
    OBVIOUS
<1>2. 0 \in S
    <2>1. /\ Shown(P, text)[0] = <<>> /\ Shown(P \cup {p}, text)[0] = <<>>
        BY Zenon, ShownIs
    <2>2. AtEnd(p, <<>>) = Start
        <3>1. <<>> \in Seq(Token) /\ Mask \in Token
            BY DEF Token
        <3>2. QED
            BY Zenon, <3>1, AtEndAppend
    <2>3. \A R : StageAt(R, text, 0) = "scan"
        BY DEF StageAt, Hidden
    <2>4. Start.out = <<>> /\ Start.at = "scan"
        BY DEF Start
    <2>5. Composes(P, p, text, 0)
        BY Zenon, <2>1, <2>2, <2>3, <2>4 DEF Composes, Agree
    <2>6. QED
        BY <2>5
<1>3. ASSUME NEW k \in Nat, k \in S PROVE k + 1 \in S
    <2> SUFFICES ASSUME k + 1 <= n PROVE Composes(P, p, text, k + 1)
        OBVIOUS
    <2>1. k <= n
        BY <1>1
    <2>2. Composes(P, p, text, k)
        BY <1>3, <2>1
    <2>3. QED
        BY Zenon, <2>2, ComposesNext
<1>4. Nat \subseteq S
    <2> HIDE DEF S
    <2>1. QED
        BY <1>2, <1>3, SetInduction
<1>5. Composes(P, p, text, n)
    BY Zenon, <1>1, <1>4
<1>6. Shown(P, text)[n] \in Seq(Token)
    BY <1>1, ShownIs
<1>7. QED
    BY Zenon, <1>5, <1>6 DEF Composes, MaskedText, ApplyRule, AtEnd

(* With nothing to mask a text is shown as it is.                          *)
LEMMA NothingMasked ==
    ASSUME NEW text \in Seq(Token)
    PROVE  MaskedText({}, text) = text
PROOF
<1> DEFINE n == Len(text)
           s == Shown({}, text)
           S == {k \in Nat : k <= n => /\ Len(s[k]) = k
                                       /\ \A j \in 1..k : s[k][j] = text[j]}
<1>1. n \in Nat /\ n \in 0..n /\ n <= n /\ \A i \in 1..n : text[i] \in Token
    OBVIOUS
<1>2. s \in [0..n -> Seq(Token)] /\ s[0] = <<>>
    BY Zenon, ShownIs
<1>3. \A i \in 1..n : s[i] = Append(s[i - 1], text[i])
    <2>1. \A i \in 1..n : s[i] = ShowStep({}, text, i, s[i - 1])
        BY Zenon, ShownIs
    <2>2. \A i : ~Hidden({}, text, i)
        BY DEF Hidden
    <2>3. QED
        BY Zenon, <2>1, <2>2 DEF ShowStep
<1> HIDE DEF s, n
<1>4. 0 \in S
    BY <1>2
<1>5. ASSUME NEW k \in Nat, k \in S PROVE k + 1 \in S
    <2> SUFFICES ASSUME k + 1 <= n
                 PROVE  Len(s[k + 1]) = k + 1 /\ \A j \in 1..(k + 1) : s[k + 1][j] = text[j]
        OBVIOUS
    <2>1. k \in 0..n /\ k <= n /\ k + 1 \in 1..n /\ (k + 1) - 1 = k
        BY <1>1
    <2>2. PICK o \in Seq(Token), t \in Token : o = s[k] /\ t = text[k + 1]
        BY <1>1, <1>2, <2>1
    <2>3. Len(o) = k /\ \A j \in 1..k : o[j] = text[j]
        BY <1>5, <2>1, <2>2
    <2>4. s[k + 1] = Append(o, t)
        BY Zenon, <1>3, <2>1, <2>2
    <2>5. Len(Append(o, t)) = k + 1 /\ \A j \in 1..(k + 1) : Append(o, t)[j] = text[j]
        BY <2>2, <2>3
    <2>6. QED
        BY <2>4, <2>5
<1>6. Nat \subseteq S
    <2> HIDE DEF S
    <2>1. QED
        BY <1>4, <1>5, SetInduction
<1>7. s[n] \in Seq(Token) /\ Len(s[n]) = n /\ \A j \in 1..n : s[n][j] = text[j]
    BY <1>1, <1>2, <1>6
<1>8. s[n] = text
    BY <1>7 DEF n
<1>9. QED
    BY Zenon, <1>8 DEF MaskedText, s, n

(* The rules in turn are what their definition says.                       *)
LEMMA AppliedIs ==
    ASSUME NEW rl \in Seq(Param), NEW text \in Seq(Token)
    PROVE  /\ Applied(rl, text)[0] = text
           /\ \A i \in 1..Len(rl) :
                 Applied(rl, text)[i] = ApplyRule(rl[i], Applied(rl, text)[i - 1])
PROOF
<1> DEFINE n == Len(rl)
           Def(s) == [i \in 0..n |-> IF i = 0 THEN text ELSE ApplyRule(rl[i], s[i - 1])]
           F == [i \in 1..n |-> [s \in Seq(Token) |-> ApplyRule(rl[i], s)]]
<1>1. n \in Nat /\ \A i \in 1..n : rl[i] \in Param
    OBVIOUS
<1>2. \A p \in Param : \A s \in Seq(Token) : ApplyRule(p, s) \in Seq(Token)
    BY Zenon, AtEndType DEF ApplyRule, AtEnd
<1>3. F \in [1..n -> [Seq(Token) -> Seq(Token)]]
    BY <1>1, <1>2
<1>4. \A i \in 1..n : \A s \in Seq(Token) : F[i][s] = ApplyRule(rl[i], s)
    BY Zenon
<1>5. PICK g \in [0..n -> Seq(Token)] : g[0] = text /\ \A i \in 1..n : g[i] = F[i][g[i - 1]]
    <2> HIDE DEF F, n
    <2>1. \E s : Runs(s, Seq(Token), text, F, n)
        BY Zenon, <1>1, <1>3, RunExists
    <2>2. QED
        BY Zenon, <2>1 DEF Runs
<1>6. g = Def(g)
    <2>1. ASSUME NEW i \in 0..n
          PROVE  g[i] = IF i = 0 THEN text ELSE ApplyRule(rl[i], g[i - 1])
        <3>1. CASE i = 0
            BY <1>5, <3>1
        <3>2. CASE i # 0
            <4>1. i \in 1..n /\ i - 1 \in 0..n
                BY <1>1, <3>2
            <4>2. g[i] = F[i][g[i - 1]] /\ g[i - 1] \in Seq(Token)
                BY Zenon, <1>5, <4>1
            <4>3. QED
                BY Zenon, <1>4, <3>2, <4>1, <4>2
        <3>3. QED
            BY <3>1, <3>2
    <2>2. QED
        BY Zenon, <1>5, <2>1
<1>7. Applied(rl, text) = CHOOSE s : s = Def(s)
    BY Zenon DEF Applied
<1>8. Applied(rl, text) = Def(Applied(rl, text))
    <2> HIDE DEF Def
    <2>1. QED
        BY Zenon, <1>6, <1>7
<1> DEFINE s == Applied(rl, text)
<1> HIDE DEF s
<1>9. s = [i \in 0..n |-> IF i = 0 THEN text ELSE ApplyRule(rl[i], s[i - 1])]
    BY Zenon, <1>8 DEF s
<1>10. s[0] = text /\ \A i \in 1..n : s[i] = ApplyRule(rl[i], s[i - 1])
    <2> HIDE DEF n
    <2>1. 0 \in 0..n /\ \A i \in 1..n : i \in 0..n /\ i # 0
        BY <1>1
    <2>2. QED
        BY Zenon, <1>9, <2>1
<1>11. QED
    BY Zenon, <1>10 DEF s

(* For every list of rules, in any order and with any repetitions, and     *)
(* every text: the rules of mask_sensitive_data (src/src/config.rs), each  *)
(* applied to what the ones before it left, leave the text with the part   *)
(* of every field after its first masked name replaced by one mask.        *)
THEOREM RulesMaskWhole ==
    ASSUME NEW rl \in Seq(Param), NEW text \in Seq(Token)
    PROVE  MaskSensitiveData(rl, text) = MaskedText({rl[i] : i \in DOMAIN rl}, text)
PROOF
<1> DEFINE n == Len(rl)
           s == Applied(rl, text)
           R(k) == {rl[i] : i \in 1..k}
           S == {k \in Nat : k <= n => s[k] = MaskedText(R(k), text)}
<1>1. n \in Nat /\ \A i \in 1..n : rl[i] \in Param
    OBVIOUS
<1>2. s[0] = text /\ \A i \in 1..n : s[i] = ApplyRule(rl[i], s[i - 1])
    BY Zenon, AppliedIs
<1> HIDE DEF s, n
<1>3. 0 \in S
    <2>1. R(0) = {}
        OBVIOUS
    <2>2. s[0] = MaskedText(R(0), text)
        BY Zenon, <1>2, <2>1, NothingMasked
    <2>3. QED
        BY <2>2
<1>4. ASSUME NEW k \in Nat, k \in S PROVE k + 1 \in S
    <2> SUFFICES ASSUME k + 1 <= n PROVE s[k + 1] = MaskedText(R(k + 1), text)
        OBVIOUS
    <2>1. k <= n /\ k + 1 \in 1..n /\ (k + 1) - 1 = k
        BY <1>1
    <2>2. PICK p \in Param : p = rl[k + 1]
        BY <1>1, <2>1
    <2>3. PICK P \in SUBSET Param : P = R(k)
        <3>1. \A i \in 1..k : i \in 1..n
            BY <1>1, <2>1
        <3>2. R(k) \in SUBSET Param
            BY Zenon, <1>1, <3>1
        <3>3. QED
            BY Zenon, <3>2
    <2>4. R(k + 1) = P \cup {p}
        <3>1. 1..(k + 1) = 1..k \cup {k + 1}
            OBVIOUS
        <3>2. QED
            BY <2>2, <2>3, <3>1
    <2>5. s[k] = MaskedText(P, text)
        BY <1>4, <2>1, <2>3
    <2>6. s[k + 1] = ApplyRule(p, s[k])
        BY Zenon, <1>2, <2>1, <2>2
    <2>7. ApplyRule(p, MaskedText(P, text)) = MaskedText(P \cup {p}, text)
        BY Zenon, RuleComposes
    <2> HIDE DEF R
    <2>8. QED
        BY Zenon, <2>4, <2>5, <2>6, <2>7
<1>5. Nat \subseteq S
    <2> HIDE DEF S
    <2>1. QED
        BY <1>3, <1>4, SetInduction
<1>6. s[n] = MaskedText(R(n), text)
    BY <1>1, <1>5
<1>7. DOMAIN rl = 1..n
    BY DEF n
<1>8. QED
    BY Zenon, <1>6, <1>7 DEF MaskSensitiveData, s, n

-----------------------------------------------------------------------------
(* What the answer is to a request whose body was collected.               *)
Reply(rl, text) ==
    LET body == MaskSensitiveData(rl, FromUtf8Lossy(text))
    IN  [text |-> body, length |-> Size(body)]

MaskInv ==
    \A q \in Slot : buffer[q] # <<>> /\ pc[q] = "answered" => masked[q] = Reply(rules, buffer[q])

(* The kinds of step of slot q, told apart by what they do to its answer:  *)
(* nothing is collected for it before or after; it is not answered by it;  *)
(* or it is masked.                                                        *)
LEMMA MaskCases ==
    ASSUME TypeOK, Next
    PROVE  \E q \in Slot :
              /\ rules' = rules
              /\ \A r \in Slot \ {q} : /\ buffer'[r] = buffer[r] /\ pc'[r] = pc[r]
                                       /\ masked'[r] = masked[r]
              /\ \/ buffer'[q] = <<>> \/ pc'[q] # "answered"
                 \/ buffer'[q] = buffer[q] /\ masked'[q] = Reply(rules, buffer[q])
PROOF
<1>1. PICK q \in Slot :
          \/ Refuse(q) \/ FindNone(q) \/ Forward(q) \/ RequestTimeout(q)
          \/ Arrive(q) \/ Release(q) \/ Responded(q) \/ BodyOverLimit(q)
          \/ UpstreamFailed(q) \/ Masked(q) \/ MaskFailed(q)
          \/ \E t \in Sendable : Collect(q, t)
    BY NextCases
<1>2. /\ pc \in [Slot -> {"free", "arrived", "sent", "collecting", "answered"}]
      /\ DOMAIN buffer = Slot /\ DOMAIN masked = Slot
      /\ pc[q] \in {"arrived", "sent"} => buffer[q] = <<>>
    BY DEF TypeOK
<1>3. ASSUME NEW e, pc[q] \in {"arrived", "sent"}, Fail(q, e), buffer' = buffer
      PROVE  /\ rules' = rules /\ buffer'[q] = <<>>
             /\ \A r \in Slot \ {q} : /\ buffer'[r] = buffer[r] /\ pc'[r] = pc[r]
                                      /\ masked'[r] = masked[r]
    BY <1>2, <1>3 DEF Fail
<1>4. CASE Refuse(q)
    BY <1>3, <1>4 DEF Refuse
<1>5. CASE FindNone(q)
    BY <1>3, <1>5 DEF FindNone
<1>6. CASE RequestTimeout(q)
    BY <1>3, <1>6 DEF RequestTimeout
<1>7. CASE BodyOverLimit(q)
    BY <1>3, <1>7 DEF BodyOverLimit
<1>8. CASE UpstreamFailed(q)
    BY <1>3, <1>8 DEF UpstreamFailed
<1>9. CASE Forward(q)
    <2>1. pc[q] = "arrived" /\ buffer' = buffer
        BY <1>9 DEF Forward
    <2>2. CASE Fail(q, "InvalidUpstream") \/ Fail(q, "Internal")
        BY <1>3, <2>1, <2>2
    <2>3. CASE pc' = [pc EXCEPT ![q] = "sent"] /\ UNCHANGED <<rules, flags, answer, masked>>
        BY <1>2, <2>1, <2>3
    <2>4. QED
        BY Zenon, <1>9, <2>2, <2>3 DEF Forward
<1>10. CASE Arrive(q)
    BY <1>2, <1>10 DEF Arrive, reply
<1>11. CASE Release(q)
    BY <1>2, <1>11 DEF Release
<1>12. CASE Responded(q)
    <2>1. pc[q] = "sent" /\ UNCHANGED <<rules, buffer, masked>>
        BY <1>12 DEF Responded, reply
    <2>2. \A r \in Slot \ {q} : pc'[r] = pc[r]
        BY <1>2, <1>12 DEF Responded
    <2>3. QED
        BY <1>2, <2>1, <2>2
<1>13. CASE MaskFailed(q)
    BY <1>2, <1>13 DEF MaskFailed, Fail
<1>14. CASE \E t \in Sendable : Collect(q, t)
    BY <1>2, <1>14 DEF Collect
<1>15. CASE Masked(q)
    <2>1. /\ pc' = [pc EXCEPT ![q] = "answered"]
          /\ masked' = [masked EXCEPT ![q] = MaskedReply(buffer[q])]
          /\ UNCHANGED <<rules, buffer>>
        BY <1>15 DEF Masked
    <2>2. MaskedReply(buffer[q]) = Reply(rules, buffer[q])
        BY DEF MaskedReply, Reply
    <2>3. masked'[q] = Reply(rules, buffer[q])
        BY Zenon, <1>2, <2>1, <2>2
    <2>4. \A r \in Slot \ {q} : pc'[r] = pc[r] /\ masked'[r] = masked[r]
        BY Zenon, <1>2, <2>1
    <2>5. QED
        BY Zenon, <2>1, <2>3, <2>4
<1>16. QED
    BY Zenon, <1>1, <1>4, <1>5, <1>6, <1>7, <1>8, <1>9, <1>10, <1>11, <1>12, <1>13, <1>14, <1>15

(* So the answer to a request whose body was collected is the masked body. *)
LEMMA MaskAlways == Spec => []MaskInv
PROOF
<1>1. Init => MaskInv
    BY DEF Init, MaskInv
<1>2. TypeOK /\ MaskInv /\ [Next]_vars => MaskInv'
    <2> SUFFICES ASSUME TypeOK, MaskInv, [Next]_vars PROVE MaskInv'
        OBVIOUS
    <2>1. CASE UNCHANGED vars
        BY Zenon, <2>1 DEF vars, MaskInv
    <2>2. CASE Next
        <3>1. PICK q \in Slot :
                  /\ rules' = rules
                  /\ \A r \in Slot \ {q} : /\ buffer'[r] = buffer[r] /\ pc'[r] = pc[r]
                                           /\ masked'[r] = masked[r]
                  /\ \/ buffer'[q] = <<>> \/ pc'[q] # "answered"
                     \/ buffer'[q] = buffer[q] /\ masked'[q] = Reply(rules, buffer[q])
            BY Zenon, <2>2, MaskCases
        <3> SUFFICES ASSUME NEW r \in Slot, buffer'[r] # <<>>, pc'[r] = "answered"
                     PROVE  masked'[r] = Reply(rules', buffer'[r])
            BY Zenon DEF MaskInv
        <3>2. CASE r = q
            BY Zenon, <3>1, <3>2
        <3>3. CASE r # q
            BY Zenon, <3>1, <3>3 DEF MaskInv
        <3>4. QED
            BY Zenon, <3>2, <3>3
    <2>3. QED
        BY Zenon, <2>1, <2>2
<1>3. QED
    BY <1>1, <1>2, PipelineTypeCorrect, PTL DEF Spec

(* A response that is masked is the text the backend sent with everything  *)
(* after the first masked name of a field replaced by one mask, and its    *)
(* Content-Length is the length of what is sent: for every list of rules   *)
(* in every order, every body and every ceiling (build_response in         *)
(* src/src/proxy.rs, mask_sensitive_data in src/src/config.rs).            *)
THEOREM ResponsesMaskedWhole == Spec => []MaskedWhole
PROOF
<1>1. TypeOK /\ MaskInv => MaskedWhole
    <2> SUFFICES ASSUME TypeOK, MaskInv, NEW q \in Slot, buffer[q] # <<>>, pc[q] = "answered"
                 PROVE  /\ masked[q].text = MaskedText({rules[i] : i \in DOMAIN rules},
                                                       FromUtf8Lossy(buffer[q]))
                        /\ masked[q].length = Size(masked[q].text)
        BY Zenon DEF MaskedWhole
    <2>1. rules \in Seq(Param)
        <3>1. PICK n \in 0..MaxRules : rules \in [1..n -> Param]
            BY Zenon DEF TypeOK, RuleLists
        <3>2. QED
            BY <3>1, PipelineAssumption
    <2>2. FromUtf8Lossy(buffer[q]) \in Seq(Token)
        <3>1. PICK b \in Seq(Token) : b = buffer[q]
            BY DEF TypeOK
        <3>2. FromUtf8Lossy(b) \in [1..Len(b) -> Token]
            BY DEF FromUtf8Lossy, Token
        <3>3. QED
            BY <3>1, <3>2
    <2>3. PICK body : body = MaskSensitiveData(rules, FromUtf8Lossy(buffer[q]))
        OBVIOUS
    <2>4. masked[q] = [text |-> body, length |-> Size(body)]
        BY Zenon, <2>3 DEF MaskInv, Reply
    <2>5. body = MaskedText({rules[i] : i \in DOMAIN rules}, FromUtf8Lossy(buffer[q]))
        BY Zenon, <2>1, <2>2, <2>3, RulesMaskWhole
    <2>6. masked[q].text = body /\ masked[q].length = Size(body)
        BY <2>4
    <2>7. QED
        BY Zenon, <2>5, <2>6
<1>2. QED
    BY <1>1, MaskAlways, PipelineTypeCorrect, PTL

=============================================================================
