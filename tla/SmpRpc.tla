------------------------------- MODULE SmpRpc -------------------------------
(* The bounded by-value cross-CPU call of arch/x86_64/cpu/smp_rpc.c, with the
   ownership word of smp_rpc_state.h, for one target CPU (each has a slot of
   its own and the slots share nothing but the tag counter).

   Senders run on any CPU; the target drains its slot from the call-function
   interrupt and from its own polling loops, always with interrupts masked, so
   at most one drain is in progress.  Every atomic operation on the word is a
   step of its own; so are the copies into and out of the slot, which is what
   the word protects.  A CPU the fault injection of smp_rpc_init() drops is one
   that never starts a drain. *)
EXTENDS Naturals

CONSTANTS Callers,    \* threads that call smp_rpc_call() on the target
          MaxCalls    \* bound on the number of calls (g_rpc_tag / 8)

ASSUME MaxCallsNat == MaxCalls \in Nat

VARIABLES
    slot,        \* g_rpc_slots[cpu].state: its low bits and its tag
    payload,     \* whose data the slot holds and whether func has answered
    gtag,        \* g_rpc_tag
    pc, tag,     \* where each caller is in smp_rpc_call(), and its tag
    value,       \* what each caller last copied back
    dpc, dtag,   \* where the target is in smp_rpc_drain(), and its tag
    ran,         \* tags whose func has run
    cancelled    \* tags cancelled while still queued

vars == <<slot, payload, gtag, pc, tag, value, dpc, dtag, ran, cancelled>>

Free == [st |-> "FREE", tag |-> 0]
Word(s, n) == [st |-> s, tag |-> n]

Tags == 0 .. MaxCalls
PcValues == {"idle", "claim", "fill", "publish", "dispatch", "poll",
             "cancelQ", "cancelR", "consume", "release"}

TypeOK ==
    /\ slot \in [st : {"FREE", "RESERVED", "QUEUED", "RUNNING", "DONE", "ABANDONED"},
                 tag : Tags]
    /\ slot.st = "FREE" <=> slot.tag = 0
    /\ payload \in [tag : Tags, kind : {"arg", "result"}]
    /\ gtag \in Tags
    /\ pc \in [Callers -> PcValues]
    /\ tag \in [Callers -> Tags]
    /\ value \in [Callers -> [tag : Tags, kind : {"arg", "result"}]]
    /\ dpc \in {"idle", "enter", "run", "return", "complete", "reclaim"}
    /\ dtag \in Tags
    /\ ran \subseteq Tags
    /\ cancelled \subseteq Tags

Init ==
    /\ slot = Free
    /\ payload = [tag |-> 0, kind |-> "arg"]
    /\ gtag = 0
    /\ pc = [k \in Callers |-> "idle"]
    /\ tag = [k \in Callers |-> 0]
    /\ value = [k \in Callers |-> [tag |-> 0, kind |-> "arg"]]
    /\ dpc = "idle"
    /\ dtag = 0
    /\ ran = {}
    /\ cancelled = {}

Goto(k, l) == pc' = [pc EXCEPT ![k] = l]

----------------------------------------------------------------------------
(* smp_rpc_call().  Its early returns (bad argument, CPU offline, no clock,
   deadline already past) touch nothing. *)

(* A fresh tag: __atomic_add_fetch(&g_rpc_tag, 8). *)
Begin(k) ==
    /\ pc[k] = "idle"
    /\ gtag < MaxCalls
    /\ gtag' = gtag + 1
    /\ tag' = [tag EXCEPT ![k] = gtag + 1]
    /\ Goto(k, "claim")
    /\ UNCHANGED <<slot, payload, value, dpc, dtag, ran, cancelled>>

(* Mutant: rpc_claim() is a load and a store, and the load was too early. *)
Claim_Store(k) ==
    /\ pc[k] = "claim"
    /\ slot' = Word("RESERVED", tag[k])
    /\ Goto(k, "fill")
    /\ UNCHANGED <<payload, gtag, tag, value, dpc, dtag, ran, cancelled>>

(* rpc_claim(), or -EBUSY. *)
Claim(k) ==
    /\ pc[k] = "claim"
    /\ \/ slot = Free /\ slot' = Word("RESERVED", tag[k]) /\ Goto(k, "fill")
       \/ slot # Free /\ UNCHANGED slot /\ Goto(k, "idle")
    /\ UNCHANGED <<payload, gtag, tag, value, dpc, dtag, ran, cancelled>>

(* slot->func and the copy into slot->payload. *)
Fill(k) ==
    /\ pc[k] = "fill"
    /\ payload' = [tag |-> tag[k], kind |-> "arg"]
    /\ Goto(k, "publish")
    /\ UNCHANGED <<slot, gtag, tag, value, dpc, dtag, ran, cancelled>>

Publish(k) ==
    /\ pc[k] = "publish"
    /\ slot' = Word("QUEUED", tag[k])
    /\ Goto(k, "dispatch")
    /\ UNCHANGED <<payload, gtag, tag, value, dpc, dtag, ran, cancelled>>

(* Mutant: a dispatch that failed publishes the request again. *)
Dispatch_Requeue(k) ==
    /\ pc[k] = "dispatch"
    /\ slot' = Word("QUEUED", tag[k])
    /\ Goto(k, "poll")
    /\ UNCHANGED <<payload, gtag, tag, value, dpc, dtag, ran, cancelled>>

(* smp_send_ipi_bounded(), which can fail; a call to the caller's own CPU
   drains instead, which is the target's step.  A failed send only makes the
   loop below give up at its next pass, which it may do at any pass. *)
Dispatch(k) ==
    /\ pc[k] = "dispatch"
    /\ Goto(k, "poll")
    /\ UNCHANGED <<slot, payload, gtag, tag, value, dpc, dtag, ran, cancelled>>

(* Mutant: neither the deadline nor the spin bound is looked at. *)
Poll_NoDeadline(k) ==
    /\ pc[k] = "poll"
    /\ Goto(k, IF slot = Word("DONE", tag[k]) THEN "consume" ELSE "poll")
    /\ UNCHANGED <<slot, payload, gtag, tag, value, dpc, dtag, ran, cancelled>>

(* One pass of the wait loop: the result is there, or the dispatch the
   deadline passed or the spins ran out.  Otherwise the loop only drains. *)
Poll(k) ==
    /\ pc[k] = "poll"
    /\ Goto(k, IF slot = Word("DONE", tag[k]) THEN "consume" ELSE "cancelQ")
    /\ UNCHANGED <<slot, payload, gtag, tag, value, dpc, dtag, ran, cancelled>>

(* rpc_cancel(): two compare-and-swaps, one after the other. *)
CancelQueued(k) ==
    /\ pc[k] = "cancelQ"
    /\ \/ /\ slot = Word("QUEUED", tag[k])
          /\ slot' = Free
          /\ cancelled' = cancelled \cup {tag[k]}
          /\ Goto(k, "idle")
       \/ /\ slot # Word("QUEUED", tag[k])
          /\ Goto(k, "cancelR")
          /\ UNCHANGED <<slot, cancelled>>
    /\ UNCHANGED <<payload, gtag, tag, value, dpc, dtag, ran>>

(* Mutant: a sender that times out frees the slot under the running func. *)
CancelRunning_Free(k) ==
    /\ pc[k] = "cancelR"
    /\ \/ slot = Word("RUNNING", tag[k]) /\ slot' = Free /\ Goto(k, "idle")
       \/ slot # Word("RUNNING", tag[k]) /\ UNCHANGED slot /\ Goto(k, "poll")
    /\ UNCHANGED <<payload, gtag, tag, value, dpc, dtag, ran, cancelled>>

CancelRunning(k) ==
    /\ pc[k] = "cancelR"
    /\ \/ /\ slot = Word("RUNNING", tag[k])
          /\ slot' = Word("ABANDONED", tag[k])
          /\ Goto(k, "idle")
       \/ /\ slot # Word("RUNNING", tag[k])
          /\ UNCHANGED slot
          /\ Goto(k, "poll")
    /\ UNCHANGED <<payload, gtag, tag, value, dpc, dtag, ran, cancelled>>

(* The result is copied out, then the slot is given back. *)
Consume(k) ==
    /\ pc[k] = "consume"
    /\ value' = [value EXCEPT ![k] = payload]
    /\ Goto(k, "release")
    /\ UNCHANGED <<slot, payload, gtag, tag, dpc, dtag, ran, cancelled>>

(* Mutant: the state bits are cleared and the tag is left in the word. *)
Release_KeepTag(k) ==
    /\ pc[k] = "release"
    /\ slot' = [slot EXCEPT !.st = "FREE"]
    /\ Goto(k, "idle")
    /\ UNCHANGED <<payload, gtag, tag, value, dpc, dtag, ran, cancelled>>

Release(k) ==
    /\ pc[k] = "release"
    /\ slot' = Free
    /\ Goto(k, "idle")
    /\ UNCHANGED <<payload, gtag, tag, value, dpc, dtag, ran, cancelled>>

----------------------------------------------------------------------------
(* smp_rpc_drain() on the target. *)
DrainLoad ==
    /\ dpc = "idle"
    /\ slot.st = "QUEUED"
    /\ dtag' = slot.tag
    /\ dpc' = "enter"
    /\ UNCHANGED <<slot, payload, gtag, pc, tag, value, ran, cancelled>>

(* Mutant: rpc_enter() stores instead of comparing with the word loaded. *)
DrainEnter_Store ==
    /\ dpc = "enter"
    /\ slot' = Word("RUNNING", dtag)
    /\ dpc' = "run"
    /\ UNCHANGED <<payload, gtag, pc, tag, value, dtag, ran, cancelled>>

(* rpc_enter(). *)
DrainEnter ==
    /\ dpc = "enter"
    /\ \/ slot = Word("QUEUED", dtag) /\ slot' = Word("RUNNING", dtag) /\ dpc' = "run"
       \/ slot # Word("QUEUED", dtag) /\ UNCHANGED slot /\ dpc' = "idle"
    /\ UNCHANGED <<payload, gtag, pc, tag, value, dtag, ran, cancelled>>

(* slot->func(slot->payload): it starts on the argument ... *)
DrainCall ==
    /\ dpc = "run"
    /\ ran' = ran \cup {dtag}
    /\ dpc' = "return"
    /\ UNCHANGED <<slot, payload, gtag, pc, tag, value, dtag, cancelled>>

(* ... and leaves its answer in the same bytes. *)
DrainReturn ==
    /\ dpc = "return"
    /\ payload' = [payload EXCEPT !.kind = "result"]
    /\ dpc' = "complete"
    /\ UNCHANGED <<slot, gtag, pc, tag, value, dtag, ran, cancelled>>

(* rpc_complete(): DONE, or the slot is freed if the sender gave up. *)
DrainComplete ==
    /\ dpc = "complete"
    /\ \/ slot = Word("RUNNING", dtag) /\ slot' = Word("DONE", dtag) /\ dpc' = "idle"
       \/ slot # Word("RUNNING", dtag) /\ UNCHANGED slot /\ dpc' = "reclaim"
    /\ UNCHANGED <<payload, gtag, pc, tag, value, dtag, ran, cancelled>>

(* Mutant: rpc_complete() does nothing for an abandoned request. *)
DrainReclaim_Forget ==
    /\ dpc = "reclaim"
    /\ dpc' = "idle"
    /\ UNCHANGED <<slot, payload, gtag, pc, tag, value, dtag, ran, cancelled>>

DrainReclaim ==
    /\ dpc = "reclaim"
    /\ slot' = IF slot = Word("ABANDONED", dtag) THEN Free ELSE slot
    /\ dpc' = "idle"
    /\ UNCHANGED <<payload, gtag, pc, tag, value, dtag, ran, cancelled>>

Drain == DrainEnter \/ DrainCall \/ DrainReturn \/ DrainComplete \/ DrainReclaim

Caller(k) == \/ Claim(k) \/ Fill(k) \/ Publish(k) \/ Dispatch(k) \/ Poll(k)
             \/ CancelQueued(k) \/ CancelRunning(k) \/ Consume(k) \/ Release(k)

Next == \/ \E k \in Callers : Begin(k) \/ Caller(k)
        \/ DrainLoad
        \/ Drain

Spec == Init /\ [][Next]_vars

(* The spin bound ends every wait, and a drain that has begun runs with
   interrupts masked over a bounded callback.  The target need never start
   one: it may be hung, or be the CPU the fault injection drops. *)
Fairness == (\A k \in Callers : WF_vars(Caller(k))) /\ WF_vars(Drain)
LiveSpec == Spec /\ Fairness

----------------------------------------------------------------------------
(* PROPERTIES *)

(* No request runs twice, however cancellation, reuse of the slot and a drain
   that loaded an old word interleave. *)
NoSecondRun == dpc = "run" => dtag \notin ran

(* "Pending timeouts cancel execution": a request cancelled while queued has
   not run, and the target never starts it later. *)
CancelledNeverRuns ==
    /\ ran \cap cancelled = {}
    /\ dpc = "run" => dtag \notin cancelled

(* "Sender cannot reuse or change payload while RUNNING/ABANDONED": what func
   works on stays the data of the request it was called for. *)
PayloadStable == dpc \in {"run", "return", "complete"} => payload.tag = dtag

(* A call that succeeds returns the answer to its own request. *)
OwnResult ==
    \A k \in Callers : pc[k] = "release" => value[k] = [tag |-> tag[k], kind |-> "result"]

(* Every call returns, even when the target never answers. *)
CallsReturn == \A k \in Callers : pc[k] # "idle" ~> pc[k] = "idle"

(* A slot left to the target by a timed-out sender is usable again. *)
AbandonedRecovers == slot.st = "ABANDONED" ~> slot = Free
=============================================================================
