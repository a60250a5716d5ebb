---------------------------- MODULE SmpRpcProofs ----------------------------
(* Proofs about SmpRpc: every safety property of the bounded cross-CPU call
   holds for any number of senders and of calls.

   None of the properties is inductive: each says something about the moment
   func runs, and that depends on who owned the slot before.  IInv writes the
   ownership down.  A sender between its claim and its return owns the word
   (Own), the target owns it while func runs (Target), and the tag in the word
   says whose data the slot holds and that it has not been served (Contents). *)
EXTENDS SmpRpc, TLAPS

Active == {"run", "return", "complete"}

(* Tags: one per call in progress, and every recorded one was handed out. *)
TagInv ==
    /\ \A k \in Callers : pc[k] # "idle" => tag[k] \in 1 .. gtag
    /\ \A j, k \in Callers : j # k /\ pc[j] # "idle" /\ pc[k] # "idle" => tag[j] # tag[k]
    /\ ran \subseteq 1 .. gtag
    /\ cancelled \subseteq 1 .. gtag
    /\ \A n \in ran : n \notin cancelled

(* What each sender knows of the slot, from where it stands. *)
Own ==
    \A k \in Callers :
        /\ pc[k] = "claim" => tag[k] \notin ran \cup cancelled /\ slot.tag # tag[k]
        /\ pc[k] \in {"fill", "publish"} => slot = Word("RESERVED", tag[k])
        /\ pc[k] = "publish" => payload.tag = tag[k]
        /\ pc[k] \in {"dispatch", "poll", "cancelQ", "cancelR"}
              => slot.tag = tag[k] /\ slot.st \in {"QUEUED", "RUNNING", "DONE"}
        /\ pc[k] = "cancelR" => slot.st # "QUEUED"
        /\ pc[k] \in {"consume", "release"} => slot = Word("DONE", tag[k])
        /\ pc[k] = "release" => value[k] = [tag |-> tag[k], kind |-> "result"]

(* What the word says about the slot's contents. *)
Contents ==
    /\ slot.st # "FREE" => slot.tag \in 1 .. gtag /\ slot.tag \notin cancelled
    /\ slot.st \in {"RESERVED", "QUEUED"} => slot.tag \notin ran
    /\ slot.st \in {"QUEUED", "RUNNING", "ABANDONED", "DONE"} => payload.tag = slot.tag
    /\ slot.st = "DONE" => payload.kind = "result"

(* What the target knows of the slot, and when it is the target's. *)
Target ==
    /\ slot.st \in {"RUNNING", "ABANDONED"} => dpc \in Active \cup {"reclaim"} /\ dtag = slot.tag
    /\ dpc \in Active => slot.tag = dtag /\ slot.st \in {"RUNNING", "ABANDONED"}
    /\ dpc = "complete" => payload.kind = "result"
    /\ dpc = "reclaim" => slot = Word("ABANDONED", dtag)
    /\ dpc = "run" => dtag \notin ran

IInv == TypeOK /\ TagInv /\ Own /\ Contents /\ Target

(* The invariant holds before the first call. *)
LEMMA InitIInv == Init => IInv
  BY MaxCallsNat DEF Init, IInv, TypeOK, TagInv, Own, Contents, Target, Active, Free, Word, Tags, PcValues

(* Adding a tag to a set of tags. *)
LEMMA AddWithin ==
  ASSUME NEW S, NEW T, NEW x, S \subseteq T, x \in T
  PROVE  S \cup {x} \subseteq T
  OBVIOUS

(* Every step of a sender preserves it. *)
LEMMA CallerIInv ==
  ASSUME IInv, NEW k \in Callers, Begin(k) \/ Caller(k)
  PROVE  IInv'
<1> USE MaxCallsNat DEF IInv, TypeOK, TagInv, Own, Contents, Target, Active, Free, Word, Tags, PcValues, Goto
<1>1. CASE Begin(k)
  BY <1>1 DEF Begin
<1>2. CASE Claim(k)
  <2>1. CASE slot = Free
    <3>1. /\ slot' = Word("RESERVED", tag[k]) /\ pc' = [pc EXCEPT ![k] = "fill"]
          /\ UNCHANGED <<payload, gtag, tag, value, dpc, dtag, ran, cancelled>>
      BY <1>2, <2>1 DEF Claim
    <3>2. pc[k] = "claim" /\ tag[k] \in 1 .. gtag /\ tag[k] \notin ran \cup cancelled
      BY <1>2 DEF Claim
    <3>3. ASSUME NEW j \in Callers \ {k}
          PROVE  pc[j] # "idle" => pc[j] = "claim" /\ tag[j] # tag[k]
      BY <2>1, <3>2
    <3>4. Own'
      BY <3>1, <3>2, <3>3
    <3>5. TypeOK' /\ TagInv'
      BY <3>1, <3>2
    <3>6. Contents' /\ Target'
      BY <2>1, <3>1, <3>2
    <3> QED
      BY <3>4, <3>5, <3>6
  <2>2. CASE slot # Free
    BY <1>2, <2>2 DEF Claim
  <2> QED
    BY <2>1, <2>2, SMTT(30)
<1>3. CASE Fill(k)
  BY <1>3 DEF Fill
<1>4. CASE Publish(k)
  BY <1>4 DEF Publish
<1>5. CASE Dispatch(k)
  BY <1>5 DEF Dispatch
<1>6. CASE Poll(k)
  BY <1>6 DEF Poll
<1>7. CASE CancelQueued(k)
  <2>1. CASE slot = Word("QUEUED", tag[k])
    <3>1. slot' = Free /\ cancelled' = cancelled \cup {tag[k]} /\ pc' = [pc EXCEPT ![k] = "idle"]
      BY <1>7, <2>1 DEF CancelQueued
    <3>2. UNCHANGED <<payload, gtag, tag, value, dpc, dtag, ran>>
      BY <1>7 DEF CancelQueued
    <3>3. pc[k] # "idle" /\ slot.st = "QUEUED" /\ slot.tag = tag[k]
      BY <1>7, <2>1 DEF CancelQueued
    <3>4. tag[k] \in 1 .. gtag /\ tag[k] \notin ran
      BY <3>3
    <3>5. dpc \notin Active \cup {"reclaim"}
      BY <3>3
    <3>6. ASSUME NEW j \in Callers \ {k}
          PROVE  pc[j] # "idle" => pc[j] = "claim" /\ tag[j] # tag[k]
      BY <3>3
    <3>7. TypeOK'
      <4>1. cancelled' \subseteq Tags
        <5>1. cancelled \subseteq Tags /\ tag[k] \in Tags
          OBVIOUS
        <5> QED
          BY <5>1, <3>1, AddWithin, Zenon
      <4>2. slot' \in [st : {"FREE", "RESERVED", "QUEUED", "RUNNING", "DONE", "ABANDONED"}, tag : Tags]
        BY <3>1
      <4>3. slot'.st = "FREE" /\ slot'.tag = 0
        BY <3>1
      <4>4. pc' \in [Callers -> PcValues]
        BY <3>1
      <4> QED
        BY <3>2, <4>1, <4>2, <4>3, <4>4
    <3>8. TagInv'
      <4>1. cancelled' \subseteq 1 .. gtag
        BY <3>1, <3>4
      <4>2. \A n \in ran : n \notin cancelled'
        BY <3>1, <3>4
      <4>3. \A j \in Callers : pc'[j] # "idle" => pc[j] # "idle"
        BY <3>1
      <4> QED
        BY <3>2, <4>1, <4>2, <4>3
    <3>9. Own'
      BY <3>1, <3>2, <3>4, <3>6
    <3>10. Contents' /\ Target'
      BY <3>1, <3>2, <3>5
    <3> QED
      BY <3>7, <3>8, <3>9, <3>10
  <2>2. CASE slot # Word("QUEUED", tag[k])
    <3>1. pc' = [pc EXCEPT ![k] = "cancelR"] /\ UNCHANGED <<slot, cancelled, payload, gtag, tag, value, dpc, dtag, ran>>
      BY <1>7, <2>2 DEF CancelQueued
    <3>2. pc[k] = "cancelQ" /\ slot.tag = tag[k] /\ slot.st # "QUEUED"
      BY <1>7, <2>2 DEF CancelQueued
    <3>3. Own'
      BY <3>1, <3>2
    <3>4. TypeOK' /\ TagInv' /\ Contents' /\ Target'
      BY <3>1, <3>2
    <3> QED
      BY <3>3, <3>4
  <2> QED
    BY <2>1, <2>2
<1>8. CASE CancelRunning(k)
  BY <1>8 DEF CancelRunning
<1>9. CASE Consume(k)
  BY <1>9 DEF Consume
<1>10. CASE Release(k)
  BY <1>10 DEF Release
<1> QED
  BY <1>1, <1>2, <1>3, <1>4, <1>5, <1>6, <1>7, <1>8, <1>9, <1>10 DEF Caller

(* Every step of the target preserves it. *)
LEMMA DrainIInv ==
  ASSUME IInv, DrainLoad \/ Drain
  PROVE  IInv'
<1> USE MaxCallsNat DEF IInv, TypeOK, TagInv, Own, Contents, Target, Active, Free, Word, Tags, PcValues
<1>1. CASE DrainLoad
  BY <1>1 DEF DrainLoad
<1>2. CASE DrainEnter
  BY <1>2 DEF DrainEnter
<1>3. CASE DrainCall
  BY <1>3 DEF DrainCall
<1>4. CASE DrainReturn
  BY <1>4 DEF DrainReturn
<1>5. CASE DrainComplete
  BY <1>5 DEF DrainComplete
<1>6. CASE DrainReclaim
  BY <1>6 DEF DrainReclaim
<1> QED
  BY <1>1, <1>2, <1>3, <1>4, <1>5, <1>6 DEF Drain

(* IInv is an inductive invariant of smp_rpc.c. *)
THEOREM Inductive == Spec => []IInv
<1>1. IInv /\ [Next]_vars => IInv'
  <2> SUFFICES ASSUME IInv, [Next]_vars PROVE IInv'
    OBVIOUS
  <2>1. CASE Next
    BY <2>1, CallerIInv, DrainIInv DEF Next
  <2>2. CASE UNCHANGED vars
    BY <2>2 DEF vars, IInv, TypeOK, TagInv, Own, Contents, Target
  <2> QED
    BY <2>1, <2>2
<1> QED
  BY <1>1, InitIInv, PTL DEF Spec

(* Every variable keeps its type, and the word is zero exactly when free. *)
THEOREM TypeCorrect == Spec => []TypeOK
  BY Inductive, PTL DEF IInv

(* A request is served at most once. *)
THEOREM AtMostOnce == Spec => []NoSecondRun
<1>1. IInv => NoSecondRun
  BY DEF IInv, Target, NoSecondRun
<1> QED
  BY <1>1, Inductive, PTL

(* A request cancelled while queued is never served. *)
THEOREM CancelIsFinal == Spec => []CancelledNeverRuns
<1>1. IInv => CancelledNeverRuns
  BY DEF IInv, TypeOK, TagInv, Contents, Target, Active, CancelledNeverRuns
<1> QED
  BY <1>1, Inductive, PTL

(* func never works on another request's data. *)
THEOREM PayloadOwned == Spec => []PayloadStable
<1>1. IInv => PayloadStable
  BY DEF IInv, TypeOK, Contents, Target, Active, PayloadStable
<1> QED
  BY <1>1, Inductive, PTL

(* A successful call returns its own answer. *)
THEOREM AnswerOwned == Spec => []OwnResult
<1>1. IInv => OwnResult
  BY DEF IInv, Own, OwnResult
<1> QED
  BY <1>1, Inductive, PTL
=============================================================================
