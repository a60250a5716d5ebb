----------------------------- MODULE TlbProofs -----------------------------
(***************************************************************************)
(* Proofs about the TLB shootdown for any number of CPUs, processes and    *)
(* frames, when no two processes share an address space.                   *)
(*                                                                         *)
(* StaleIsOwed is not inductive.  It speaks of the translations in use, but *)
(* a switch may bring back the entries of a tag, so every primed tag        *)
(* counts (Fresh); an acknowledgement is honest because a request is in the *)
(* pending scope until the handler takes it up and in the scope of the flush *)
(* from then on (Tickets); the primed mask misses nobody because an         *)
(* initiator stays on its process (Loaded, Owner); and that a frame freed   *)
(* on return is out of reach needs that a frame has one holder (Held).      *)
(***************************************************************************)
EXTENDS Tlb, FiniteSetTheorems, TLAPS

(* What the theorems assume of the constants; the shared-space run shows
   that the first is needed. *)
Separate ==
    /\ \A p, q \in Procs : SpaceOf[p] = SpaceOf[q] => p = q
    /\ \A p, q \in Users : Tag[p] = Tag[q] => p = q
    /\ ~Foreign

(* The page tables each CPU has loaded are its process's, and its process
   knows that it ran there. *)
Loaded ==
    /\ \A p, q \in Procs : space[p] = space[q] => p = q
    /\ space[Kernel] = KSpace
    /\ \A p \in Procs : pte[space[p]] # None
    /\ \A c \in CPUs : cr3[c] = [space |-> space[cur[c]], tag |-> Tag[cur[c]]]
    /\ \A c \in load.online : cur[c] \in Users => c \in primed[cur[c]]

(* A request is for a space some process has, or for one that is destroyed. *)
Known(s) == pte[s] = None \/ \E p \in Procs : space[p] = s

(* An initiator stays on the space it edits, unless it left it by execve(). *)
Owner ==
    /\ \A d \in CPUs : op[d].pc # "idle" =>
        /\ d \in load.online
        /\ \/ op[d].space = KSpace
           \/ op[d].space = space[cur[d]]
           \/ pte[op[d].space] = None
        /\ ~op[d].wait => op[d].space # KSpace
    /\ \A r \in late : Known(r.space)
    /\ \A s \in Spaces : pte[s] = None => \A p \in Procs : space[p] # s

(* A frame has one holder: a page table, the free list, or the edit that has
   taken it out of a page table. *)
Held ==
    /\ \A s, t \in Spaces : pte[s] = pte[t] /\ pte[s] # None => s = t
    /\ \A s \in Spaces : pte[s] \notin frames
    /\ \A d \in CPUs : op[d].pc # "idle" =>
        /\ op[d].old \in Frames \ frames
        /\ \A s \in Spaces : pte[s] # op[d].old
        /\ \A e \in CPUs : op[e].pc # "idle" /\ op[e].old = op[d].old => e = d
        /\ \A r \in late : r.old # op[d].old
    /\ \A r \in late : r.old \notin frames /\ \A s \in Spaces : pte[s] # r.old

(* A flush of everything, or of tag g, reaches every entry of space s. *)
Reaches(s, all, g) == all \/ \A p \in Procs : space[p] = s => p # Kernel /\ g = Tag[p]

(* The last request of c that the handler has taken up. *)
Taken(c) == IF isr[c].pc \in {"flush", "ack"} THEN isr[c].seen ELSE desc[c].done

(* A request for space s with ticket n at c: until it is taken up the pending
   scope covers it, and then the flush does. *)
Scoped(c, s, n) ==
    /\ n <= desc[c].req
    /\ n > Taken(c) => Reaches(s, desc[c].all, desc[c].pcid)
    /\ isr[c].pc = "flush" /\ n > desc[c].done /\ n <= isr[c].seen
          => Reaches(s, isr[c].tag = All, isr[c].tag)

Tickets ==
    /\ \A c \in CPUs : /\ desc[c].done <= Taken(c)
                       /\ Taken(c) <= desc[c].req
    /\ \A d \in CPUs : \A c \in CPUs :
        /\ op[d].pc \in {"idle", "aim"} => op[d].ticket[c] = 0
        /\ op[d].pc = "queue" /\ c \in op[d].left => op[d].ticket[c] = 0
        /\ op[d].pc = "wait" /\ c \notin op[d].left => desc[c].done >= op[d].ticket[c]
        /\ Scoped(c, op[d].space, op[d].ticket[c])
        /\ op[d].pc \in {"queue", "send", "wait"}
              => Reaches(op[d].space, op[d].tag = All, op[d].tag)
    /\ \A r \in late : \A c \in CPUs : Scoped(c, r.space, r.ticket[c])

(* What c has flushed for, published or about to be. *)
Answered(c) == IF isr[c].pc = "ack" THEN isr[c].seen ELSE desc[c].done

(* Owed, counting a flush that is done as answered. *)
Owes(c, s, f) ==
    \/ \E d \in CPUs \ {c} :
          /\ op[d].pc # "idle" /\ op[d].space = s /\ op[d].old = f
          /\ \/ op[d].pc = "aim"
             \/ op[d].pc = "queue" /\ c \in op[d].left
             \/ Answered(c) < op[d].ticket[c]
    \/ \E r \in late : /\ r.space = s /\ r.old = f
                       /\ Answered(c) < r.ticket[c]

(* Every translation a CPU could use without a further page walk, now or
   after a switch that keeps the tag's entries; one of the kernel half may also
   be left over from a shootdown that did not ask this CPU. *)
Fresh ==
    \A c \in load.online :
        /\ \A p \in Users :
              c \in primed[p] /\ tlb[c][Tag[p]] \notin {None, pte[space[p]]}
                 => Owes(c, space[p], tlb[c][Tag[p]])
        /\ gtlb[c] \notin {None, pte[KSpace]}
              => c \in missed \/ Owes(c, KSpace, gtlb[c])

TInv == TypeOK /\ Loaded /\ Owner /\ Held /\ Tickets /\ Fresh

-----------------------------------------------------------------------------
(* The initial states *)

LEMMA PlacedFrames ==
    /\ Placed \in [Spaces -> Frames]
    /\ \A s, t \in Spaces : Placed[s] = Placed[t] => s = t
  BY TlbAssumption DEF Placed

LEMMA InitTInv == Separate /\ Init => TInv
<1> SUFFICES ASSUME Separate, Init PROVE TInv
  OBVIOUS
<1> USE PlacedFrames
<1>0. KSpace \in Spaces /\ Kernel \in Procs /\ 0 \in Nat
  BY TlbAssumption DEF KSpace, Procs
<1>1. TypeOK
  <2>1. /\ pte \in [Spaces -> Frames \cup {None}]
        /\ space \in [Procs -> Spaces]
        /\ primed \in [Procs -> SUBSET CPUs]
        /\ cur \in [CPUs -> Procs]
        /\ cr3 \in [CPUs -> [space : Spaces, tag : Tags \cup {0}]]
    BY <1>0, TlbAssumption DEF Init
  <2>2. /\ tlb \in [CPUs -> [Tags -> Frames \cup {None}]]
        /\ gtlb \in [CPUs -> Frames \cup {None}]
        /\ frames \subseteq Frames
    BY <1>0 DEF Init
  <2>3. /\ desc \in [CPUs -> [req : Nat, done : Nat, pcid : Tags \cup {0}, all : BOOLEAN]]
        /\ \A c \in CPUs : desc[c].done <= desc[c].req
        /\ ipi \in [CPUs -> BOOLEAN]
    BY DEF Init
  <2>4. isr \in [CPUs -> [pc : {"out", "snap", "flush", "ack", "eoi"},
                         seen : Nat, tag : Tags \cup {All}]]
    BY DEF Init, Quiet
  <2>5. Idle \in [pc : {"idle", "aim", "queue", "send", "wait"},
                  space : Spaces, old : Frames \cup {None},
                  narrow : BOOLEAN, tag : Tags \cup {All},
                  wait : BOOLEAN, left : SUBSET CPUs,
                  ticket : [CPUs -> Nat]]
    BY <1>0 DEF Idle
  <2>6. /\ load \in Loads /\ late = {} /\ missed = {}
        /\ edits \in 0 .. load.maxEdits /\ lost \in 0 .. load.maxLost
    BY TlbAssumption DEF Init
  <2> QED BY <2>1, <2>2, <2>3, <2>4, <2>5, <2>6 DEF TypeOK, Init
<1>2. Loaded
  BY <1>0, TlbAssumption DEF Loaded, Init, Separate, KSpace, Procs
<1>3. Owner /\ Held
  BY <1>0, TlbAssumption DEF Owner, Held, Init, Idle
<1>4. Tickets
  BY <1>0 DEF Tickets, Scoped, Taken, Init, Idle, Quiet
<1>5. Fresh
  BY <1>0, TlbAssumption DEF Fresh, Init, Tags
<1> QED BY <1>1, <1>2, <1>3, <1>4, <1>5 DEF TInv

-----------------------------------------------------------------------------
(* One lemma per action *)

OpType == [pc : {"idle", "aim", "queue", "send", "wait"},
           space : Spaces, old : Frames \cup {None},
           narrow : BOOLEAN, tag : Tags \cup {All},
           wait : BOOLEAN, left : SUBSET CPUs, ticket : [CPUs -> Nat]]

(* One entry of one CPU is replaced. *)
LEMMA EntryReplaced ==
  ASSUME TypeOK, NEW c \in CPUs, NEW g \in Tags, NEW v \in Frames \cup {None},
         tlb' = [tlb EXCEPT ![c][g] = v]
  PROVE  /\ tlb' \in [CPUs -> [Tags -> Frames \cup {None}]]
         /\ \A d \in CPUs, h \in Tags :
                tlb'[d][h] = IF d = c /\ h = g THEN v ELSE tlb[d][h]
<1>1. tlb \in [CPUs -> [Tags -> Frames \cup {None}]]
  BY DEF TypeOK
<1>2. tlb' = [tlb EXCEPT ![c] = [tlb[c] EXCEPT ![g] = v]]
  BY <1>1
<1> QED BY <1>1, <1>2

(* The context switch: the CPU was on another process's tables, so it loads. *)
LEMMA SwitchTInv ==
  ASSUME Separate, TInv, NEW c \in CPUs, NEW p \in Procs, Switch(c, p)
  PROVE  TInv'
<1> USE TlbAssumption DEF TInv
<1>0. /\ c \in load.online /\ op[c].pc = "idle" /\ cur[c] # p
      /\ cur' = [cur EXCEPT ![c] = p]
      /\ cr3' = [cr3 EXCEPT ![c] = [space |-> space[p], tag |-> Tag[p]]]
      /\ primed' = [primed EXCEPT ![p] = @ \cup {c}]
      /\ tlb' = IF p = Kernel THEN tlb
                ELSE [tlb EXCEPT ![c][Tag[p]] =
                        IF c \in primed[p] /\ @ # None THEN @ ELSE pte[space[p]]]
      /\ UNCHANGED <<pte, space, gtlb, frames, desc, ipi, isr, op, late, load, missed, edits, lost>>
  BY DEF Switch, ThreadRuns, Loaded, TypeOK
<1>t. p # Kernel => p \in Users /\ Tag[p] \in Tags
  BY DEF Procs, Tags
<1>1. TypeOK'
  <2>1. cr3' \in [CPUs -> [space : Spaces, tag : Tags \cup {0}]]
    BY <1>0, <1>t DEF TypeOK
  <2>2. tlb' \in [CPUs -> [Tags -> Frames \cup {None}]]
    BY <1>0, <1>t DEF TypeOK
  <2>3. cur' \in [CPUs -> Procs] /\ primed' \in [Procs -> SUBSET CPUs]
    BY <1>0 DEF TypeOK
  <2> QED BY <1>0, <2>1, <2>2, <2>3 DEF TypeOK
<1>2. Loaded'
  BY <1>0 DEF Loaded, TypeOK
<1>3. Owner' /\ Held'
  BY <1>0 DEF Owner, Held, Known, TypeOK
<1>4. Tickets'
  BY <1>0 DEF Tickets, Scoped, Taken, Reaches
<1>5. Fresh'
  <2> SUFFICES ASSUME NEW d \in load.online
               PROVE  Fresh!(d)'
    BY <1>0 DEF Fresh
  <2>0. d \in CPUs
    BY DEF TypeOK
  <2>1. \A s, f : Owes(d, s, f) => Owes(d, s, f)'
    BY <1>0 DEF Owes, Answered
  <2>2. ASSUME NEW q \in Users, d \in primed'[q],
               tlb'[d][Tag[q]] \notin {None, pte[space[q]]}
        PROVE  Owes(d, space[q], tlb'[d][Tag[q]])
    <3>0. q \in Procs /\ q # Kernel /\ Tag[q] \in Tags
      BY DEF Procs, Tags
    <3>1. d \in primed[q] /\ tlb'[d][Tag[q]] = tlb[d][Tag[q]]
      <4>1. CASE q = p /\ d = c
        BY <1>0, <2>0, <2>2, <3>0, <4>1 DEF TypeOK
      <4>2. CASE ~(q = p /\ d = c)
        BY <1>0, <1>t, <2>0, <2>2, <3>0, <4>2 DEF TypeOK, Separate
      <4> QED BY <4>1, <4>2
    <3> QED BY <2>2, <3>1 DEF Fresh
  <2> QED BY <1>0, <2>1, <2>2 DEF Fresh
<1> QED BY <1>1, <1>2, <1>3, <1>4, <1>5

(* A shootdown that starts: its CPU takes frame `old' out of space s, while no
   request has been made yet. *)
Starts(c, s, new, w) ==
    /\ op[c].pc = "idle" /\ c \in load.online
    /\ op' = [op EXCEPT ![c] = new]
    /\ new \in OpType
    /\ new.pc = "aim" /\ new.space = s /\ new.old = pte[s] /\ new.wait = w
    /\ new.ticket = [i \in CPUs |-> 0]
    /\ UNCHANGED <<desc, isr, late, load>>

LEMMA StartsTickets ==
  ASSUME TInv, NEW c \in CPUs, NEW s, NEW new, NEW w, Starts(c, s, new, w),
         Kernel \in Procs,
         \A x \in Spaces : Known(x) => \A all, g : Reaches(x, all, g) => Reaches(x, all, g)'
  PROVE  Tickets'
<1> USE DEF TInv
<1>0. /\ op[c].pc = "idle" /\ op' = [op EXCEPT ![c] = new]
      /\ new.pc = "aim" /\ new.ticket = [i \in CPUs |-> 0]
      /\ UNCHANGED <<desc, isr, late>>
  BY DEF Starts
<1>1. op \in [CPUs -> OpType]
  BY DEF TypeOK, OpType
<1>2. \A e \in CPUs : op'[e] = IF e = c THEN new ELSE op[e]
  BY <1>0, <1>1
<1>3. \A d \in CPUs : /\ desc'[d] = desc[d] /\ isr'[d] = isr[d] /\ Taken(d)' = Taken(d)
                      /\ Taken(d) >= desc[d].done /\ desc[d].done \in Nat
                      /\ desc[d].req \in Nat
                      /\ Taken(d) <= desc[d].req /\ Taken(d) \in Nat
  BY <1>0 DEF Taken, Tickets, TypeOK
<1>4. \A d \in CPUs, x \in Spaces, n \in Nat : Known(x) /\ Scoped(d, x, n) => Scoped(d, x, n)'
  <2> TAKE d \in CPUs, x \in Spaces, n \in Nat
  <2> HAVE Known(x) /\ Scoped(d, x, n)
  <2>1. \A all, g : Reaches(x, all, g) => Reaches(x, all, g)'
    OBVIOUS
  <2>2. n > Taken(d) => Reaches(x, desc[d].all, desc[d].pcid)
    BY DEF Scoped
  <2>3. n > Taken(d)' => Reaches(x, desc[d].all, desc[d].pcid)'
    BY <1>3, <2>1, <2>2
  <2>4. isr'[d].pc = "flush" /\ n > desc'[d].done /\ n <= isr'[d].seen
          => Reaches(x, isr[d].tag = All, isr[d].tag)'
    BY <1>3, <2>1 DEF Scoped, All
  <2>5. n <= desc'[d].req
    BY <1>3 DEF Scoped
  <2> QED BY <2>3, <2>4, <2>5 DEF Scoped
<1>5. \A d \in CPUs : \A x : Scoped(d, x, 0)'
  BY <1>3 DEF Scoped
<1>k. \A e \in CPUs : op[e].pc # "idle" => Known(op[e].space)
  BY DEF Owner, Known, Loaded, TypeOK
<1>6. ASSUME NEW d \in CPUs, NEW e \in CPUs
      PROVE  /\ op'[e].pc \in {"idle", "aim"} => op'[e].ticket[d] = 0
             /\ op'[e].pc = "queue" /\ d \in op'[e].left => op'[e].ticket[d] = 0
             /\ op'[e].pc = "wait" /\ d \notin op'[e].left => desc'[d].done >= op'[e].ticket[d]
             /\ Scoped(d, op[e].space, op[e].ticket[d])'
             /\ op'[e].pc \in {"queue", "send", "wait"}
                   => Reaches(op[e].space, op[e].tag = All, op[e].tag)'
  <2>1. CASE e = c
    BY <1>0, <1>2, <1>5, <2>1
  <2>2. CASE e # c
    <3>1. /\ op'[e] = op[e] /\ op[e].space \in Spaces /\ op[e].ticket[d] \in Nat
          /\ Tickets!2!(e)!(d)
      BY <1>1, <1>2, <2>2 DEF OpType, Tickets
    <3>2. Scoped(d, op[e].space, op[e].ticket[d])'
      BY <1>4, <1>5, <1>k, <3>1
    <3>3. op[e].pc \in {"queue", "send", "wait"}
             => Reaches(op[e].space, op[e].tag = All, op[e].tag)'
      BY <1>k, <3>1
    <3> QED BY <1>3, <3>1, <3>2, <3>3
  <2> QED BY <2>1, <2>2
<1>7. \A r \in late : \A d \in CPUs : Scoped(d, r.space, r.ticket[d])'
  <2> TAKE r \in late
  <2> TAKE d \in CPUs
  <2>1. r.space \in Spaces /\ r.ticket[d] \in Nat /\ Known(r.space)
    BY DEF TypeOK, Owner
  <2>2. Scoped(d, r.space, r.ticket[d])
    BY DEF Tickets
  <2> QED BY <1>4, <2>1, <2>2
<1> QED BY <1>0, <1>3, <1>6, <1>7 DEF Tickets

(* Nobody's debt is forgotten when a shootdown starts, and the frame taken out
   is owed by all the other CPUs. *)
LEMMA StartsOwes ==
  ASSUME TInv, NEW c \in CPUs, NEW s, NEW new, NEW w, Starts(c, s, new, w)
  PROVE  /\ \A d \in CPUs : \A x, f : Owes(d, x, f) => Owes(d, x, f)'
         /\ \A d \in CPUs \ {c} : \A x, f : x = s /\ f = pte[s] => Owes(d, x, f)'
<1>0. /\ op[c].pc = "idle" /\ op' = [op EXCEPT ![c] = new]
      /\ new.pc = "aim" /\ new.space = s /\ new.old = pte[s]
      /\ UNCHANGED <<desc, isr, late>>
  BY DEF Starts
<1>1. \A e \in CPUs : op'[e] = IF e = c THEN new ELSE op[e]
  BY <1>0 DEF TInv, TypeOK
<1>2. \A d \in CPUs : Answered(d)' = Answered(d)
  BY <1>0 DEF Answered
<1>3. ASSUME NEW d \in CPUs, NEW x, NEW f, Owes(d, x, f) PROVE Owes(d, x, f)'
  BY <1>0, <1>1, <1>2, <1>3 DEF Owes
<1>4. ASSUME NEW d \in CPUs \ {c}, NEW x, NEW f, x = s, f = pte[s] PROVE Owes(d, x, f)'
  BY <1>0, <1>1, <1>4 DEF Owes
<1> QED BY <1>3, <1>4

(* Frames keep one holder when the page of s is given frame f, or none. *)
LEMMA StartsHeld ==
  ASSUME TInv, NEW c \in CPUs, NEW s \in Spaces, NEW new, NEW w, Starts(c, s, new, w),
         pte[s] # None, None \notin Frames,
         NEW f \in Frames \cup {None}, f = None \/ f \in frames,
         pte' = [pte EXCEPT ![s] = f], frames' = frames \ {f}
  PROVE  Held'
<1>0. /\ op[c].pc = "idle" /\ op' = [op EXCEPT ![c] = new]
      /\ new.pc = "aim" /\ new.old = pte[s]
      /\ late' = late
  BY DEF Starts
<1>1. \A e \in CPUs : op'[e] = IF e = c THEN new ELSE op[e]
  BY <1>0 DEF TInv, TypeOK
<1>2. /\ pte \in [Spaces -> Frames \cup {None}] /\ frames \subseteq Frames
      /\ pte' = [pte EXCEPT ![s] = f] /\ pte[s] \in Frames
  BY DEF TInv, TypeOK
<1>3. \A x \in Spaces : pte'[x] = IF x = s THEN f ELSE pte[x]
  BY <1>2
<1>4. Held
  BY DEF TInv
<1>5. /\ \A x, y \in Spaces : pte'[x] = pte'[y] /\ pte'[x] # None => x = y
      /\ \A x \in Spaces : pte'[x] \notin frames'
  BY <1>2, <1>3, <1>4 DEF Held
<1>6. ASSUME NEW d \in CPUs, op'[d].pc # "idle"
      PROVE  /\ op'[d].old \in Frames \ frames'
             /\ \A x \in Spaces : pte'[x] # op'[d].old
             /\ \A e \in CPUs : op'[e].pc # "idle" /\ op'[e].old = op'[d].old => e = d
             /\ \A r \in late : r.old # op'[d].old
  <2>1. CASE d = c
    BY <1>0, <1>1, <1>2, <1>3, <1>4, <2>1 DEF Held
  <2>2. CASE d # c
    BY <1>0, <1>1, <1>2, <1>3, <1>4, <1>6, <2>2 DEF Held
  <2> QED BY <2>1, <2>2
<1>7. \A r \in late : r.old \notin frames' /\ \A x \in Spaces : pte'[x] # r.old
  <2>1. late \subseteq [space : Spaces, old : Frames, ticket : [CPUs -> Nat]]
    BY DEF TInv, TypeOK
  <2> QED BY <1>2, <1>3, <1>4, <2>1 DEF Held
<1> QED BY <1>0, <1>5, <1>6, <1>7 DEF Held

LEMMA EditTInv ==
  ASSUME Separate, TInv, NEW c \in CPUs, NEW s \in Spaces, NEW kind \in Kinds, NEW f \in Frames,
         Edit(c, s, kind, f)
  PROVE  TInv'
<1> USE TlbAssumption DEF TInv
<1> DEFINE new == [Idle EXCEPT !.pc = "aim", !.space = s, !.old = pte[s],
                               !.narrow = kind # "clone", !.wait = kind # "fault"]
<1>0. /\ c \in load.online /\ op[c].pc = "idle" /\ edits < load.maxEdits
      /\ f \in frames
      /\ s = KSpace \/ s = space[cur[c]]
      /\ kind # "map" => s = space[cur[c]] /\ s # KSpace
      /\ pte' = [pte EXCEPT ![s] = f]
      /\ frames' = frames \ {f}
      /\ op' = [op EXCEPT ![c] = new]
      /\ edits' = edits + 1
      /\ UNCHANGED <<space, primed, cur, cr3, desc, ipi, isr, late, load, missed, lost>>
  BY DEF Edit, ThreadRuns, Separate
<1>1. /\ s = KSpace => gtlb' = [gtlb EXCEPT ![c] = f] /\ tlb' = tlb
      /\ s # KSpace => /\ tlb' = [tlb EXCEPT ![c][Tag[cur[c]]] = f]
                       /\ gtlb' = gtlb /\ cur[c] \in Users
  <2>1. cr3[c] = [space |-> space[cur[c]], tag |-> Tag[cur[c]]]
    BY DEF Loaded
  <2>2. cur[c] \in Procs /\ (s # KSpace => cur[c] \in Users)
    BY <1>0 DEF TypeOK, Loaded, Procs
  <2>3. s # KSpace => Tag[cur[c]] # 0 /\ pte'[space[cur[c]]] = f
    BY <1>0, <2>2 DEF TypeOK
  <2> QED BY <2>1, <2>2, <2>3 DEF Edit
<1>k. Kernel \in Procs /\ KSpace \in Spaces /\ space[Kernel] = KSpace /\ cur[c] \in Procs
  BY DEF Procs, KSpace, Loaded, TypeOK
<1>p. pte[s] # None
  BY <1>0, <1>k DEF Loaded
<1>2. /\ new \in OpType
      /\ new.pc = "aim" /\ new.space = s /\ new.old = pte[s]
      /\ new.wait = (kind # "fault") /\ new.ticket = [i \in CPUs |-> 0]
  BY <1>k DEF Idle, OpType, TypeOK
<1> HIDE DEF new
<1>3. Starts(c, s, new, kind # "fault")
  BY <1>0, <1>2 DEF Starts
<1>4. TypeOK'
  <2>1. op' \in [CPUs -> OpType]
    BY <1>0, <1>2 DEF TypeOK, OpType
  <2>2. tlb' \in [CPUs -> [Tags -> Frames \cup {None}]] /\ gtlb' \in [CPUs -> Frames \cup {None}]
    <3>0. tlb \in [CPUs -> [Tags -> Frames \cup {None}]] /\ gtlb \in [CPUs -> Frames \cup {None}]
      BY DEF TypeOK
    <3>1. CASE s = KSpace
      BY <1>1, <3>0, <3>1
    <3>2. CASE s # KSpace
      <4>1. Tag[cur[c]] \in Tags
        BY <1>1, <3>2 DEF Tags
      <4> QED BY <1>1, <3>0, <3>2, <4>1, EntryReplaced
    <3> QED BY <3>1, <3>2
  <2>3. edits' \in 0 .. load.maxEdits
    <3>1. load.maxEdits \in Nat
      BY DEF TypeOK
    <3> QED BY <1>0, <3>1 DEF TypeOK
  <2>4. pte' \in [Spaces -> Frames \cup {None}] /\ frames' \subseteq Frames
    BY <1>0 DEF TypeOK
  <2> QED BY <1>0, <2>1, <2>2, <2>3, <2>4 DEF TypeOK, OpType
<1>q. \A x \in Spaces : pte'[x] = IF x = s THEN f ELSE pte[x]
  BY <1>0 DEF TypeOK
<1>5. Loaded'
  BY <1>0, <1>q DEF Loaded, TypeOK
<1>6. Owner'
  <2>1. \A e \in CPUs : op'[e] = IF e = c THEN new ELSE op[e]
    BY <1>0 DEF TypeOK
  <2>2. \A x \in Spaces : Known(x) => Known(x)'
    BY <1>0, <1>k, <1>q DEF Known
  <2>3. late \subseteq [space : Spaces, old : Frames, ticket : [CPUs -> Nat]] /\ op \in [CPUs -> OpType]
    BY DEF TypeOK, OpType
  <2>4. \A d \in CPUs : op'[d].pc # "idle" =>
          /\ d \in load.online
          /\ \/ op'[d].space = KSpace
             \/ op'[d].space = space[cur[d]]
             \/ pte'[op'[d].space] = None
          /\ ~op'[d].wait => op'[d].space # KSpace
    <3> TAKE d \in CPUs
    <3>1. CASE d = c
      BY <1>0, <1>2, <2>1, <3>1 DEF Kinds
    <3>2. CASE d # c
      <4>1. op[d].space \in Spaces /\ op'[d] = op[d]
        BY <2>1, <2>3, <3>2 DEF OpType
      <4> QED BY <1>p, <1>q, <4>1 DEF Owner
    <3> QED BY <3>1, <3>2
  <2>5. \A x \in Spaces : pte'[x] = None => \A p \in Procs : space[p] # x
    BY <1>q DEF Owner
  <2> QED BY <1>0, <2>2, <2>3, <2>4, <2>5 DEF Owner
<1>7. Held'
  BY <1>0, <1>3, <1>p, StartsHeld
<1>8. Tickets'
  <2>1. \A x \in Spaces : \A all, g : Reaches(x, all, g) => Reaches(x, all, g)'
    BY <1>0 DEF Reaches
  <2> QED BY <1>3, <1>k, <2>1, StartsTickets
<1>9. Fresh'
  <2> SUFFICES ASSUME NEW d \in load.online
               PROVE  Fresh!(d)'
    BY <1>0 DEF Fresh
  <2>0. d \in CPUs
    BY DEF TypeOK
  <2>o. /\ \A x, y : Owes(d, x, y) => Owes(d, x, y)'
        /\ d # c => \A x, y : x = s /\ y = pte[s] => Owes(d, x, y)'
    BY <1>3, <2>0, StartsOwes
  <2>1. ASSUME NEW q \in Users, d \in primed[q],
               tlb'[d][Tag[q]] \notin {None, pte'[space[q]]}
        PROVE  \A x, y : x = space[q] /\ y = tlb'[d][Tag[q]] => Owes(d, x, y)'
    <3>0. q \in Procs /\ q # Kernel /\ Tag[q] \in Tags /\ space[q] \in Spaces
      BY DEF Procs, Tags, TypeOK
    <3>1. tlb'[d][Tag[q]] = tlb[d][Tag[q]]
      <4>1. CASE d = c /\ q = cur[c]
        <5>1. s # KSpace => s = space[q] /\ tlb'[d][Tag[q]] = f
          BY <1>0, <1>1, <2>0, <3>0, <4>1 DEF TypeOK
        <5>2. s # KSpace => pte'[space[q]] = f
          BY <1>q, <3>0, <5>1
        <5> QED BY <1>1, <2>1, <5>1, <5>2
      <4>2. CASE ~(d = c /\ q = cur[c])
        BY <1>1, <2>0, <3>0, <4>2 DEF TypeOK, Separate
      <4> QED BY <4>1, <4>2
    <3>2. CASE tlb[d][Tag[q]] \notin {None, pte[space[q]]}
      <4>1. Owes(d, space[q], tlb[d][Tag[q]])
        BY <2>1, <3>2 DEF Fresh
      <4> QED BY <1>0, <2>o, <3>1, <4>1
    <3>3. CASE tlb[d][Tag[q]] = pte[space[q]] /\ space[q] = s
      <4>1. s # KSpace /\ cur[c] = q
        BY <1>0, <1>k, <3>0, <3>3 DEF Loaded
      <4>2. d # c
        BY <1>0, <1>1, <2>0, <2>1, <3>0, <3>3, <4>1, <1>q DEF TypeOK
      <4> QED BY <1>0, <2>o, <3>1, <3>3, <4>2
    <3> QED BY <1>q, <2>1, <3>0, <3>1, <3>2, <3>3
  <2>2. ASSUME gtlb'[d] \notin {None, pte'[KSpace]} 
        PROVE  \A y : y = gtlb'[d] => d \in missed \/ Owes(d, KSpace, y)'
    <3>1. CASE s = KSpace /\ d = c
      BY <1>1, <1>q, <1>k, <2>0, <2>2, <3>1 DEF TypeOK
    <3>2. CASE ~(s = KSpace /\ d = c)
      <4>1. gtlb'[d] = gtlb[d]
        BY <1>1, <2>0, <3>2 DEF TypeOK
      <4>2. CASE gtlb[d] \notin {None, pte[KSpace]}
        <5>1. d \in missed \/ Owes(d, KSpace, gtlb[d])
          BY <4>2 DEF Fresh
        <5> QED BY <2>o, <4>1, <5>1
      <4>3. CASE gtlb[d] = pte[KSpace]
        BY <1>k, <1>q, <2>o, <2>2, <3>2, <4>1, <4>3
      <4> QED BY <2>2, <4>1, <4>2, <4>3
    <3> QED BY <3>1, <3>2
  <2> QED BY <1>0, <2>1, <2>2
<1> QED BY <1>4, <1>5, <1>6, <1>7, <1>8, <1>9

LEMMA ExecTInv ==
  ASSUME Separate, TInv, NEW c \in CPUs, NEW s \in Spaces, Exec(c, s)
  PROVE  TInv'
<1> USE TlbAssumption DEF TInv
<1>m. PICK me \in Users : me = cur[c]
  BY DEF Exec
<1>v. PICK old \in Spaces : old = space[me]
  BY DEF TypeOK, Procs
<1> DEFINE new == [Idle EXCEPT !.pc = "aim", !.space = old, !.old = pte[old]]
<1>0. /\ c \in load.online /\ op[c].pc = "idle" /\ edits < load.maxEdits
      /\ \A d \in CPUs \ {c} : cur[d] # me
      /\ pte[s] # None
      /\ \A p \in Procs : space[p] # s
      /\ space' = [space EXCEPT ![me] = s]
      /\ pte' = [pte EXCEPT ![old] = None]
      /\ primed' = [primed EXCEPT ![me] = {c}]
      /\ cr3' = [cr3 EXCEPT ![c] = [space |-> s, tag |-> Tag[me]]]
      /\ tlb' = [tlb EXCEPT ![c][Tag[me]] = pte[s]]
      /\ op' = [op EXCEPT ![c] = new]
      /\ edits' = edits + 1
      /\ UNCHANGED <<cur, gtlb, frames, desc, ipi, isr, late, load, missed, lost>>
  BY <1>m, <1>v DEF Exec, ThreadRuns
<1>k. /\ Kernel \in Procs /\ KSpace \in Spaces /\ space[Kernel] = KSpace
      /\ me \in Procs /\ me # Kernel /\ Tag[me] \in Tags /\ Tag[me] # 0
      /\ old # KSpace /\ old # s /\ s # KSpace
  BY <1>0, <1>m, <1>v DEF Procs, KSpace, Loaded, Tags
<1>p. pte[old] # None
  BY <1>k, <1>v DEF Loaded
<1>2. /\ new \in OpType
      /\ new.pc = "aim" /\ new.space = old /\ new.old = pte[old]
      /\ new.wait = TRUE /\ new.ticket = [i \in CPUs |-> 0]
  BY <1>k DEF Idle, OpType, TypeOK
<1> HIDE DEF new
<1>3. Starts(c, old, new, TRUE)
  BY <1>0, <1>2 DEF Starts
<1>q. /\ \A x \in Spaces : pte'[x] = IF x = old THEN None ELSE pte[x]
      /\ \A p \in Procs : space'[p] = IF p = me THEN s ELSE space[p]
      /\ \A p \in Procs : primed'[p] = IF p = me THEN {c} ELSE primed[p]
      /\ \A d \in CPUs : op'[d] = IF d = c THEN new ELSE op[d]
      /\ \A d \in CPUs : cr3'[d] = IF d = c THEN [space |-> s, tag |-> Tag[me]] ELSE cr3[d]
  BY <1>0 DEF TypeOK
<1>e. /\ tlb' \in [CPUs -> [Tags -> Frames \cup {None}]]
      /\ \A d \in CPUs, h \in Tags :
            tlb'[d][h] = IF d = c /\ h = Tag[me] THEN pte[s] ELSE tlb[d][h]
  <2>1. PICK v \in Frames \cup {None} : v = pte[s]
    BY DEF TypeOK
  <2>2. PICK g \in Tags : g = Tag[me]
    BY <1>k
  <2>3. TypeOK /\ tlb' = [tlb EXCEPT ![c][g] = v]
    BY <1>0, <2>1, <2>2
  <2> HIDE TlbAssumption DEF TInv
  <2>4. /\ tlb' \in [CPUs -> [Tags -> Frames \cup {None}]]
        /\ \A d \in CPUs, h \in Tags :
              tlb'[d][h] = IF d = c /\ h = g THEN v ELSE tlb[d][h]
    BY <2>3, EntryReplaced
  <2> QED BY <2>1, <2>2, <2>4
<1>4. TypeOK'
  <2>1. op' \in [CPUs -> OpType]
    BY <1>0, <1>2 DEF TypeOK, OpType
  <2>3. edits' \in 0 .. load.maxEdits
    <3>1. load.maxEdits \in Nat
      BY DEF TypeOK
    <3> QED BY <1>0, <3>1 DEF TypeOK
  <2>4. pte' \in [Spaces -> Frames \cup {None}] /\ space' \in [Procs -> Spaces]
    BY <1>0 DEF TypeOK
  <2>5. primed' \in [Procs -> SUBSET CPUs]
    BY <1>0 DEF TypeOK
  <2>6. cr3' \in [CPUs -> [space : Spaces, tag : Tags \cup {0}]]
    BY <1>0, <1>k DEF TypeOK
  <2> QED BY <1>0, <1>e, <2>1, <2>3, <2>4, <2>5, <2>6 DEF TypeOK, OpType
<1>5. Loaded'
  <2>1. \A p, q \in Procs : space'[p] = space'[q] => p = q
    BY <1>0, <1>q DEF Loaded
  <2>2. space'[Kernel] = KSpace
    BY <1>k, <1>q
  <2>3. \A p \in Procs : pte'[space'[p]] # None
    <3> TAKE p \in Procs
    <3>1. space[p] \in Spaces /\ (p # me => space[p] # old)
      BY <1>k, <1>v DEF TypeOK, Loaded
    <3> QED BY <1>0, <1>k, <1>q, <3>1 DEF Loaded
  <2>4. \A d \in CPUs : cr3'[d] = [space |-> space'[cur'[d]], tag |-> Tag[cur'[d]]]
    <3> TAKE d \in CPUs
    <3>1. cur[d] \in Procs
      BY DEF TypeOK
    <3> QED BY <1>0, <1>m, <1>q, <3>1 DEF Loaded
  <2>5. \A d \in load.online : cur'[d] \in Users => d \in primed'[cur'[d]]
    <3> TAKE d \in load.online
    <3> HAVE cur'[d] \in Users
    <3>1. d \in CPUs /\ cur[d] \in Procs
      BY DEF TypeOK
    <3> QED BY <1>0, <1>m, <1>q, <3>1 DEF Loaded
  <2> QED BY <1>0, <2>1, <2>2, <2>3, <2>4, <2>5 DEF Loaded
<1>6. Owner'
  <2>1. \A x \in Spaces : Known(x) => Known(x)'
    BY <1>0, <1>q, <1>v DEF Known
  <2>2. \A r \in late : Known(r.space)'
    BY <2>1 DEF TypeOK, Owner
  <2>3. \A x \in Spaces : pte'[x] = None => \A p \in Procs : space'[p] # x
    <3> TAKE x \in Spaces
    <3>1. CASE x = old
      BY <1>k, <1>q, <1>v, <3>1 DEF Loaded
    <3>2. CASE x # old
      BY <1>0, <1>q, <3>2 DEF Owner
    <3> QED BY <3>1, <3>2
  <2>4. \A d \in CPUs : op'[d].pc # "idle" =>
          /\ d \in load.online
          /\ \/ op'[d].space = KSpace
             \/ op'[d].space = space'[cur[d]]
             \/ pte'[op'[d].space] = None
          /\ ~op'[d].wait => op'[d].space # KSpace
    <3> TAKE d \in CPUs
    <3>1. CASE d = c
      BY <1>0, <1>2, <1>q, <3>1
    <3>2. CASE d # c
      <4>1. op[d].space \in Spaces /\ op'[d] = op[d] /\ cur[d] \in Procs /\ cur[d] # me
        BY <1>0, <1>q, <3>2 DEF TypeOK
      <4> QED BY <1>q, <4>1 DEF Owner
    <3> QED BY <3>1, <3>2
  <2> QED BY <1>0, <2>2, <2>3, <2>4 DEF Owner
<1>7. Held'
  <2>1. frames' = frames \ {None}
    BY <1>0 DEF TypeOK
  <2> QED BY <1>0, <1>3, <1>p, <2>1, StartsHeld
<1>8. Tickets'
  <2>1. \A x \in Spaces : Known(x) => \A all, g : Reaches(x, all, g) => Reaches(x, all, g)'
    BY <1>0, <1>q DEF Known, Reaches
  <2> QED BY <1>3, <1>k, <2>1, StartsTickets
<1>9. Fresh'
  <2> SUFFICES ASSUME NEW d \in load.online
               PROVE  Fresh!(d)'
    BY <1>0 DEF Fresh
  <2>0. d \in CPUs
    BY DEF TypeOK
  <2>o. \A x, y : Owes(d, x, y) => Owes(d, x, y)'
    BY <1>3, <2>0, StartsOwes
  <2>1. ASSUME NEW q \in Users, d \in primed'[q],
               tlb'[d][Tag[q]] \notin {None, pte'[space'[q]]}
        PROVE  \A x, y : x = space'[q] /\ y = tlb'[d][Tag[q]] => Owes(d, x, y)'
    <3>0. q \in Procs /\ q # Kernel /\ Tag[q] \in Tags /\ space[q] \in Spaces
      BY DEF Procs, Tags, TypeOK
    <3>1. q # me
      BY <1>e, <1>k, <1>q, <2>0, <2>1
    <3>2. /\ tlb'[d][Tag[q]] = tlb[d][Tag[q]] /\ d \in primed[q]
          /\ space'[q] = space[q] /\ pte'[space[q]] = pte[space[q]]
      BY <1>e, <1>k, <1>q, <1>v, <2>0, <2>1, <3>0, <3>1 DEF Separate, Loaded
    <3>3. Owes(d, space[q], tlb[d][Tag[q]])
      BY <2>1, <3>2 DEF Fresh
    <3> QED BY <2>o, <3>2, <3>3
  <2>2. ASSUME gtlb'[d] \notin {None, pte'[KSpace]}
        PROVE  \A y : y = gtlb'[d] => d \in missed \/ Owes(d, KSpace, y)'
    <3>1. d \in missed \/ Owes(d, KSpace, gtlb[d])
      BY <1>0, <1>k, <1>q, <2>2 DEF Fresh
    <3> QED BY <1>0, <2>o, <3>1
  <2> QED BY <1>0, <2>1, <2>2
<1> QED BY <1>4, <1>5, <1>6, <1>7, <1>8, <1>9

(* The CPUs an initiator does not ask hold no entry of a user space: the primed
   mask it asks by is its own process's, and it is still on that process. *)
LEMMA AimMisses ==
  ASSUME Separate, TInv, NEW c \in CPUs, op[c].pc = "aim",
         NEW d \in load.online, d \notin Mask(c, op[c].space)
  PROVE  \A p \in Users : space[p] = op[c].space => d \notin primed[p]
<1> USE TlbAssumption DEF TInv
<1>1. d \in CPUs /\ cur[c] \in Procs /\ Users \subseteq Procs
  BY DEF TypeOK, Procs
<1>2. space[cur[c]] = op[c].space /\ d \notin primed[cur[c]]
  BY <1>1 DEF Mask
<1>3. \A p \in Users : space[p] = op[c].space => p = cur[c]
  BY <1>1, <1>2 DEF Loaded
<1> QED BY <1>2, <1>3

(* Nothing c has under way is owed by d: d has answered it, or was not asked,
   for a user space with reason and for the kernel half as one more miss. *)
Settled(c, d) ==
    \/ /\ op[c].pc # "aim"
       /\ op[c].pc = "queue" => d \notin op[c].left
       /\ Answered(d) >= op[c].ticket[d]
    \/ /\ op[c].space = KSpace => d \in missed'
       /\ \A p \in Users : space[p] = op[c].space => d \notin primed[p]

LEMMA ReturnTInv ==
  ASSUME TInv, NEW c \in CPUs, op[c].pc # "idle", Return(c),
         \A d \in load.online \ {c} : Settled(c, d),
         missed \subseteq missed', missed' \subseteq CPUs,
         UNCHANGED <<mm, tlb, gtlb, desc, ipi, isr, late, load, edits, lost>>
  PROVE  TInv'
<1> USE TlbAssumption DEF TInv
<1>0. /\ frames' = IF op[c].wait THEN frames \cup {op[c].old} ELSE frames
      /\ op' = [op EXCEPT ![c] = Idle]
      /\ UNCHANGED <<pte, space, primed, cur, cr3>>
  BY DEF Return, mm
<1>1. op \in [CPUs -> OpType]
  BY DEF TypeOK, OpType
<1>2. \A d \in CPUs : op'[d] = IF d = c THEN Idle ELSE op[d]
  BY <1>0, <1>1
<1>i. Idle \in OpType /\ Idle.pc = "idle" /\ Idle.ticket = [i \in CPUs |-> 0]
  BY DEF Idle, OpType, KSpace, Procs
<1>3. TypeOK'
  <2>1. op' \in [CPUs -> OpType]
    BY <1>0, <1>1, <1>i
  <2>2. frames' \subseteq Frames
    BY <1>0 DEF Held, TypeOK
  <2> QED BY <1>0, <2>1, <2>2 DEF TypeOK, OpType
<1>4. Loaded'
  BY <1>0 DEF Loaded
<1>5. Owner'
  BY <1>0, <1>2, <1>i DEF Owner, Known
<1>6. Held'
  <2>1. /\ \A x, y \in Spaces : pte'[x] = pte'[y] /\ pte'[x] # None => x = y
        /\ \A x \in Spaces : pte'[x] \notin frames'
        /\ \A r \in late : r.old \notin frames' /\ \A x \in Spaces : pte'[x] # r.old
    BY <1>0 DEF Held
  <2>2. ASSUME NEW d \in CPUs, op'[d].pc # "idle"
        PROVE  /\ op'[d].old \in Frames \ frames'
               /\ \A x \in Spaces : pte'[x] # op'[d].old
               /\ \A e \in CPUs : op'[e].pc # "idle" /\ op'[e].old = op'[d].old => e = d
               /\ \A r \in late : r.old # op'[d].old
    <3>1. d # c /\ op'[d] = op[d]
      BY <1>2, <1>i, <2>2
    <3>2. op[d].old \in Frames \ frames /\ op[d].old # op[c].old
      BY <2>2, <3>1 DEF Held
    <3>3. \A e \in CPUs : op'[e].pc # "idle" => op'[e] = op[e]
      BY <1>2, <1>i
    <3> QED BY <1>0, <2>2, <3>1, <3>2, <3>3 DEF Held
  <2> QED BY <2>1, <2>2 DEF Held
<1>7. Tickets'
  <2>1. \A d \in CPUs : /\ Taken(d)' = Taken(d)
                        /\ Taken(d) \in Nat /\ desc[d].req \in Nat
    BY DEF Taken, TypeOK
  <2>2. \A d \in CPUs : \A x, n : Scoped(d, x, n) => Scoped(d, x, n)'
    BY <1>0, <2>1 DEF Scoped, Reaches
  <2>3. \A d \in CPUs : \A x : Scoped(d, x, 0)'
    BY <2>1 DEF Scoped, TypeOK
  <2>4. ASSUME NEW d \in CPUs, NEW e \in CPUs PROVE Tickets!2!(e)!(d)'
    <3>1. CASE e = c
      BY <1>2, <1>i, <2>3, <3>1
    <3>2. CASE e # c
      BY <1>0, <1>2, <2>1, <2>2, <3>2 DEF Tickets, Reaches
    <3> QED BY <3>1, <3>2
  <2>5. \A r \in late : \A d \in CPUs : Scoped(d, r.space, r.ticket[d])'
    BY <2>2 DEF Tickets
  <2>6. \A d \in CPUs : desc'[d].done <= Taken(d)' /\ Taken(d)' <= desc'[d].req
    BY <2>1 DEF Tickets
  <2> QED BY <2>4, <2>5, <2>6 DEF Tickets
<1>8. Fresh'
  <2> SUFFICES ASSUME NEW d \in load.online
               PROVE  Fresh!(d)'
    BY DEF Fresh
  <2>0. d \in CPUs /\ Answered(d)' = Answered(d) /\ Answered(d) \in Nat
    BY DEF TypeOK, Answered
  <2>1. ASSUME NEW x, NEW f, Owes(d, x, f),
               \/ x = KSpace /\ d \notin missed'
               \/ \E p \in Users : x = space[p] /\ d \in primed[p]
        PROVE  Owes(d, x, f)'
    <3>1. CASE \E r \in late : r.space = x /\ r.old = f /\ Answered(d) < r.ticket[d]
      BY <2>0, <3>1 DEF Owes
    <3>2. CASE \E e \in CPUs \ {d} :
                  /\ op[e].pc # "idle" /\ op[e].space = x /\ op[e].old = f
                  /\ \/ op[e].pc = "aim"
                     \/ op[e].pc = "queue" /\ d \in op[e].left
                     \/ Answered(d) < op[e].ticket[d]
      <4>1. PICK e \in CPUs \ {d} :
                  /\ op[e].pc # "idle" /\ op[e].space = x /\ op[e].old = f
                  /\ \/ op[e].pc = "aim"
                     \/ op[e].pc = "queue" /\ d \in op[e].left
                     \/ Answered(d) < op[e].ticket[d]
        BY <3>2
      <4>2. e # c
        <5>1. op[c].ticket[d] \in Nat
          BY <1>1, <2>0 DEF OpType
        <5>2. e = c => Settled(c, d)
          BY <2>0
        <5> QED BY <2>0, <2>1, <4>1, <5>1, <5>2 DEF Settled
      <4>3. op'[e] = op[e]
        BY <1>2, <4>2
      <4> QED BY <2>0, <4>1, <4>3 DEF Owes
    <3> QED BY <2>1, <3>1, <3>2 DEF Owes
  <2>2. ASSUME NEW q \in Users, d \in primed[q],
               tlb[d][Tag[q]] \notin {None, pte[space[q]]}
        PROVE  \A x, y : x = space[q] /\ y = tlb[d][Tag[q]] => Owes(d, x, y)'
    BY <2>1, <2>2 DEF Fresh
  <2>3. ASSUME gtlb[d] \notin {None, pte[KSpace]}, d \notin missed'
        PROVE  \A y : y = gtlb[d] => Owes(d, KSpace, y)'
    BY <2>1, <2>3 DEF Fresh
  <2> QED BY <1>0, <2>2, <2>3
<1> QED BY <1>3, <1>4, <1>5, <1>6, <1>7, <1>8

(* A step that changes only op[c], which stays the same edit and keeps its
   tickets, and owes no less: what is left to show is about op[c] alone. *)
LEMMA SameEdit ==
  ASSUME TInv, NEW c \in CPUs, op[c].pc # "idle", NEW new \in OpType,
         op' = [op EXCEPT ![c] = new],
         new.pc \in {"queue", "send", "wait"},
         new.space = op[c].space, new.old = op[c].old, new.wait = op[c].wait,
         new.ticket = op[c].ticket,
         UNCHANGED <<mm, tlb, gtlb, frames, desc, isr, late, load, edits>>,
         missed \subseteq missed', missed' \subseteq CPUs,
         ipi' \in [CPUs -> BOOLEAN], lost' \in 0 .. load.maxLost,
         Reaches(op[c].space, new.tag = All, new.tag),
         \A d \in CPUs : /\ new.pc = "queue" /\ d \in new.left => new.ticket[d] = 0
                         /\ new.pc = "wait" /\ d \notin new.left
                               => desc[d].done >= new.ticket[d],
         \A d \in load.online \ {c} : \/ Settled(c, d)
                                      \/ new.pc = "queue" /\ d \in new.left
                                      \/ Answered(d) < new.ticket[d]
  PROVE  TInv'
<1> USE TlbAssumption DEF TInv
<1>0. UNCHANGED <<pte, space, primed, cur, cr3>>
  BY DEF mm
<1>1. op \in [CPUs -> OpType]
  BY DEF TypeOK, OpType
<1>2. \A d \in CPUs : op'[d] = IF d = c THEN new ELSE op[d]
  BY <1>1
<1>3. TypeOK'
  <2>1. op' \in [CPUs -> OpType]
    BY <1>1
  <2> QED BY <1>0, <2>1 DEF TypeOK, OpType
<1>4. Loaded'
  BY <1>0 DEF Loaded
<1>5. Owner'
  BY <1>0, <1>2 DEF Owner, Known
<1>6. Held'
  <2>1. \A d \in CPUs : /\ op'[d].pc = "idle" <=> op[d].pc = "idle"
                        /\ op'[d].old = op[d].old
    BY <1>2
  <2> QED BY <1>0, <2>1 DEF Held
<1>7. Tickets'
  <2>1. \A d \in CPUs : Taken(d)' = Taken(d)
    BY DEF Taken
  <2>2. \A d \in CPUs : \A x, n : Scoped(d, x, n) => Scoped(d, x, n)'
    BY <1>0, <2>1 DEF Scoped, Reaches
  <2>4. ASSUME NEW d \in CPUs, NEW e \in CPUs PROVE Tickets!2!(e)!(d)'
    <3>1. CASE e = c
      <4>1. op'[e] = new
        BY <1>2, <3>1
      <4>2. Scoped(d, op[c].space, op[c].ticket[d])
        BY DEF Tickets
      <4>3. Scoped(d, op[e].space, op[e].ticket[d])'
        BY <2>2, <4>1, <4>2
      <4>4. Reaches(op[e].space, op[e].tag = All, op[e].tag)'
        BY <1>0, <4>1 DEF Reaches
      <4> QED BY <4>1, <4>3, <4>4
    <3>2. CASE e # c
      BY <1>0, <1>2, <2>1, <2>2, <3>2 DEF Tickets, Reaches
    <3> QED BY <3>1, <3>2
  <2>5. \A r \in late : \A d \in CPUs : Scoped(d, r.space, r.ticket[d])'
    BY <2>2 DEF Tickets
  <2>6. \A d \in CPUs : desc'[d].done <= Taken(d)' /\ Taken(d)' <= desc'[d].req
    BY <2>1 DEF Tickets
  <2> QED BY <2>4, <2>5, <2>6 DEF Tickets
<1>8. Fresh'
  <2> SUFFICES ASSUME NEW d \in load.online
               PROVE  Fresh!(d)'
    BY DEF Fresh
  <2>0. d \in CPUs /\ Answered(d)' = Answered(d) /\ Answered(d) \in Nat
    BY DEF TypeOK, Answered
  <2>1. ASSUME NEW x, NEW f, Owes(d, x, f),
               \/ x = KSpace /\ d \notin missed'
               \/ \E p \in Users : x = space[p] /\ d \in primed[p]
        PROVE  Owes(d, x, f)'
    <3>1. CASE \E r \in late : r.space = x /\ r.old = f /\ Answered(d) < r.ticket[d]
      BY <2>0, <3>1 DEF Owes
    <3>2. CASE \E e \in CPUs \ {d} :
                  /\ op[e].pc # "idle" /\ op[e].space = x /\ op[e].old = f
                  /\ \/ op[e].pc = "aim"
                     \/ op[e].pc = "queue" /\ d \in op[e].left
                     \/ Answered(d) < op[e].ticket[d]
      <4>1. PICK e \in CPUs \ {d} :
                  /\ op[e].pc # "idle" /\ op[e].space = x /\ op[e].old = f
                  /\ \/ op[e].pc = "aim"
                     \/ op[e].pc = "queue" /\ d \in op[e].left
                     \/ Answered(d) < op[e].ticket[d]
        BY <3>2
      <4>2. CASE e # c
        BY <1>2, <2>0, <4>1, <4>2 DEF Owes
      <4>3. CASE e = c
        <5>1. op[c].ticket[d] \in Nat
          BY <1>1, <2>0 DEF OpType
        <5>2. ~Settled(c, d)
          BY <2>0, <2>1, <4>1, <4>3, <5>1 DEF Settled
        <5>3. op'[e] = new /\ e # d
          BY <1>2, <4>1, <4>3
        <5>4. \/ new.pc = "queue" /\ d \in new.left
              \/ Answered(d) < new.ticket[d]
          BY <4>1, <4>3, <5>2
        <5> QED BY <2>0, <4>1, <4>3, <5>3, <5>4 DEF Owes
      <4> QED BY <4>2, <4>3
    <3> QED BY <2>1, <3>1, <3>2 DEF Owes
  <2>2. ASSUME NEW q \in Users, d \in primed[q],
               tlb[d][Tag[q]] \notin {None, pte[space[q]]}
        PROVE  \A x, y : x = space[q] /\ y = tlb[d][Tag[q]] => Owes(d, x, y)'
    BY <2>1, <2>2 DEF Fresh
  <2>3. ASSUME gtlb[d] \notin {None, pte[KSpace]}, d \notin missed'
        PROVE  \A y : y = gtlb[d] => Owes(d, KSpace, y)'
    BY <2>1, <2>3 DEF Fresh
  <2> QED BY <1>0, <2>2, <2>3
<1> QED BY <1>3, <1>4, <1>5, <1>6, <1>7, <1>8

LEMMA AimTInv ==
  ASSUME Separate, TInv, NEW c \in CPUs, Aim(c)
  PROVE  TInv'
<1> USE TlbAssumption DEF TInv
<1> DEFINE targets == (Mask(c, op[c].space) \cap load.online) \ {c}
           new == [op[c] EXCEPT !.tag = Pcid(c), !.left = targets, !.pc = "queue"]
<1>0. /\ c \in load.online /\ op[c].pc = "aim"
      /\ UNCHANGED <<mm, tlb, gtlb, desc, ipi, isr, late, load, edits, lost>>
      /\ op[c] \in OpType
  BY DEF Aim, ThreadRuns, TypeOK, OpType
<1>m. /\ missed \subseteq missed' /\ missed' \subseteq CPUs
      /\ op[c].space = KSpace
           => \A d \in load.online \ {c} : d \notin targets => d \in missed'
  BY DEF Aim, TypeOK
<1>1. \A d \in load.online \ {c} : d \notin targets => Settled(c, d)
  BY <1>0, <1>m, AimMisses DEF Settled
<1>2. CASE targets = {}
  <2>1. Return(c)
    BY <1>2 DEF Aim
  <2> QED BY <1>0, <1>1, <1>2, <1>m, <2>1, ReturnTInv
<1>3. CASE targets # {}
  <2>1. op' = [op EXCEPT ![c] = new] /\ frames' = frames
    BY <1>3 DEF Aim, TypeOK
  <2>2. Pcid(c) \in Tags \cup {All} /\ targets \subseteq CPUs
    <3>1. cur[c] \in Procs /\ (space[cur[c]] # KSpace => cur[c] \in Users)
      BY DEF TypeOK, Procs, Loaded
    <3> QED BY <3>1 DEF Pcid, Tags, TypeOK
  <2>3. Reaches(op[c].space, Pcid(c) = All, Pcid(c))
    <3>1. CASE op[c].narrow /\ op[c].space # KSpace /\ space[cur[c]] = op[c].space
      <4>1. Pcid(c) = Tag[cur[c]] /\ cur[c] \in Procs /\ Kernel \in Procs
        BY <3>1 DEF Pcid, TypeOK, Procs
      <4>2. \A p \in Procs : space[p] = op[c].space => p = cur[c] /\ p # Kernel
        BY <3>1, <4>1 DEF Loaded
      <4> QED BY <4>1, <4>2 DEF Reaches
    <3>2. CASE ~(op[c].narrow /\ op[c].space # KSpace /\ space[cur[c]] = op[c].space)
      BY <3>2 DEF Pcid, Reaches
    <3> QED BY <3>1, <3>2
  <2>4. /\ new \in OpType /\ new.pc = "queue" /\ new.left = targets /\ new.tag = Pcid(c)
        /\ new.space = op[c].space /\ new.old = op[c].old /\ new.wait = op[c].wait
        /\ new.ticket = op[c].ticket
    BY <1>0, <2>2 DEF OpType
  <2>5. \A d \in CPUs : op[c].ticket[d] = 0
    BY <1>0 DEF Tickets
  <2>6. ipi' \in [CPUs -> BOOLEAN] /\ lost' \in 0 .. load.maxLost
    BY <1>0 DEF TypeOK
  <2> HIDE DEF new, targets
  <2> QED BY <1>0, <1>1, <1>m, <2>1, <2>3, <2>4, <2>5, <2>6, SameEdit, ZenonT(40)
<1> QED BY <1>2, <1>3

(* Whatever is lost on the way, the interrupt lines stay lines and the count
   of lost interrupts within its bound. *)
LEMMA PostFacts ==
  ASSUME TypeOK, NEW S \in SUBSET CPUs, Post(S)
  PROVE  ipi' \in [CPUs -> BOOLEAN] /\ lost' \in 0 .. load.maxLost
<1>1. PICK gone \in SUBSET S :
        /\ lost + Cardinality({i \in gone : isr[i].pc = "out"}) <= load.maxLost
        /\ lost' = lost + Cardinality({i \in gone : isr[i].pc = "out"})
        /\ ipi' = [i \in CPUs |-> ipi[i] \/ i \in S \ gone]
  BY DEF Post
<1>2. Cardinality({i \in gone : isr[i].pc = "out"}) \in Nat
  BY TlbAssumption, FS_Subset, FS_CardinalityType
<1>3. lost \in Nat /\ load.maxLost \in Nat
  BY TlbAssumption DEF TypeOK
<1> QED BY <1>1, <1>2, <1>3

LEMMA AwaitTInv ==
  ASSUME TInv, NEW c \in CPUs, NEW i \in CPUs, Await(c, i)
  PROVE  TInv'
<1> USE TlbAssumption DEF TInv
<1> DEFINE new == [op[c] EXCEPT !.left = @ \ {i}]
<1>0. /\ c \in load.online /\ op[c].pc = "wait" /\ i \in op[c].left
      /\ desc[i].done >= op[c].ticket[i]
      /\ UNCHANGED <<mm, tlb, gtlb, desc, ipi, isr, late, load, edits, lost>>
      /\ op[c] \in OpType
      /\ missed \subseteq missed' /\ missed' \subseteq CPUs
  BY DEF Await, ThreadRuns, TypeOK, OpType
<1>1. \A d \in CPUs : /\ Answered(d) >= desc[d].done
                      /\ desc[d].done \in Nat /\ Answered(d) \in Nat /\ op[c].ticket[d] \in Nat
  BY DEF TypeOK, Tickets, Taken, Answered
<1>2. CASE op[c].left = {i}
  <2>1. Return(c)
    BY <1>2 DEF Await
  <2>2. \A d \in CPUs : desc[d].done >= op[c].ticket[d]
    BY <1>0, <1>2 DEF Tickets
  <2>3. \A d \in load.online \ {c} : Settled(c, d)
    <3> TAKE d \in load.online \ {c}
    <3>1. d \in CPUs
      BY DEF TypeOK
    <3>2. Answered(d) >= op[c].ticket[d]
      BY <1>1, <2>2, <3>1
    <3> QED BY <1>0, <3>2 DEF Settled
  <2> QED BY <1>0, <2>1, <2>3, ReturnTInv
<1>3. CASE op[c].left # {i}
  <2>1. op' = [op EXCEPT ![c] = new] /\ frames' = frames
    BY <1>0, <1>3 DEF Await, TypeOK
  <2>4. /\ new \in OpType /\ new.pc = "wait" /\ new.left = op[c].left \ {i} /\ new.tag = op[c].tag
        /\ new.space = op[c].space /\ new.old = op[c].old /\ new.wait = op[c].wait
        /\ new.ticket = op[c].ticket
    BY <1>0 DEF OpType
  <2> HIDE DEF new
  <2>5. Reaches(op[c].space, new.tag = All, new.tag)
    BY <1>0, <2>4 DEF Tickets
  <2>6. \A d \in CPUs : d \notin new.left => desc[d].done >= new.ticket[d]
    BY <1>0, <2>4 DEF Tickets
  <2>7. \A d \in load.online \ {c} : Settled(c, d) \/ Answered(d) < new.ticket[d]
    <3> TAKE d \in load.online \ {c}
    <3>1. d \in CPUs
      BY DEF TypeOK
    <3>2. Answered(d) >= op[c].ticket[d] \/ Answered(d) < op[c].ticket[d]
      BY <1>1, <3>1
    <3> QED BY <1>0, <2>4, <3>2 DEF Settled
  <2>8. ipi' \in [CPUs -> BOOLEAN] /\ lost' \in 0 .. load.maxLost
    BY <1>0 DEF TypeOK
  <2> QED BY <1>0, <2>1, <2>4, <2>5, <2>6, <2>7, <2>8, SameEdit
<1> QED BY <1>2, <1>3

(* The wait loop's second interrupt changes nothing but the lines. *)
LEMMA ResendTInv ==
  ASSUME TInv, NEW c \in CPUs, NEW i \in CPUs, Resend(c, i)
  PROVE  TInv'
<1>0. /\ UNCHANGED <<pte, space, primed, cur, cr3, tlb, gtlb, frames, desc, isr, op, late, load, missed, edits>>
      /\ ipi' \in [CPUs -> BOOLEAN] /\ lost' \in 0 .. load.maxLost
  BY PostFacts DEF Resend, mm, TInv
<1>1. TypeOK'
  BY <1>0 DEF TInv, TypeOK
<1>2. Loaded' /\ Owner' /\ Held'
  BY <1>0 DEF TInv, Loaded, Owner, Known, Held
<1>3. Tickets'
  BY <1>0 DEF TInv, Tickets, Scoped, Taken, Reaches
<1>4. Fresh'
  BY <1>0 DEF TInv, Fresh, Owes, Answered
<1> QED BY <1>1, <1>2, <1>3, <1>4 DEF TInv

LEMMA SendTInv ==
  ASSUME TInv, NEW c \in CPUs, Send(c)
  PROVE  TInv'
<1> USE TlbAssumption DEF TInv
<1> DEFINE new == [op[c] EXCEPT !.pc = "wait", !.left = Sent(c)]
           rec == [space |-> op[c].space, old |-> op[c].old, ticket |-> op[c].ticket]
<1>0. /\ c \in load.online /\ op[c].pc = "send"
      /\ UNCHANGED <<mm, tlb, gtlb, frames, desc, isr, load, missed, edits>>
      /\ missed \subseteq missed' /\ missed' \subseteq CPUs
      /\ op[c] \in OpType /\ op \in [CPUs -> OpType]
      /\ UNCHANGED <<pte, space, primed, cur, cr3>>
  BY DEF Send, ThreadRuns, TypeOK, OpType, mm
<1>1. ipi' \in [CPUs -> BOOLEAN] /\ lost' \in 0 .. load.maxLost
  <2>1. Sent(c) \in SUBSET CPUs
    BY DEF Sent
  <2> QED BY <2>1, PostFacts DEF Send
<1>2. CASE op[c].wait
  <2>1. op' = [op EXCEPT ![c] = new] /\ late' = late
    BY <1>0, <1>2 DEF Send, TypeOK
  <2>2. /\ new \in OpType /\ new.pc = "wait" /\ new.left = Sent(c) /\ new.tag = op[c].tag
        /\ new.space = op[c].space /\ new.old = op[c].old /\ new.wait = op[c].wait
        /\ new.ticket = op[c].ticket
    BY <1>0 DEF OpType, Sent
  <2> HIDE DEF new
  <2>3. Reaches(op[c].space, new.tag = All, new.tag)
    BY <1>0, <2>2 DEF Tickets
  <2>4. \A d \in CPUs : d \notin new.left => desc[d].done >= new.ticket[d]
    BY <1>0, <2>2 DEF Sent, TypeOK, OpType
  <2>5. \A d \in load.online \ {c} : Settled(c, d) \/ Answered(d) < new.ticket[d]
    <3> TAKE d \in load.online \ {c}
    <3>1. Answered(d) \in Nat /\ op[c].ticket[d] \in Nat
      BY DEF TypeOK, Answered
    <3>2. Answered(d) >= op[c].ticket[d] \/ Answered(d) < op[c].ticket[d]
      BY <3>1
    <3> QED BY <1>0, <2>2, <3>2 DEF Settled
  <2> QED BY <1>0, <1>1, <2>1, <2>2, <2>3, <2>4, <2>5, SameEdit
<1>3. CASE ~op[c].wait
  <2>1. op' = [op EXCEPT ![c] = Idle] /\ late' = late \cup {rec}
    BY <1>3 DEF Send
  <2>2. \A d \in CPUs : op'[d] = IF d = c THEN Idle ELSE op[d]
    BY <1>0, <2>1
  <2>i. Idle \in OpType /\ Idle.pc = "idle" /\ Idle.ticket = [i \in CPUs |-> 0]
    BY DEF Idle, OpType, KSpace, Procs
  <2>r. /\ rec.space = op[c].space /\ rec.old = op[c].old /\ rec.ticket = op[c].ticket
        /\ rec \in [space : Spaces, old : Frames, ticket : [CPUs -> Nat]]
    BY <1>0 DEF OpType, Held
  <2> HIDE DEF rec
  <2>3. TypeOK'
    <3>1. op' \in [CPUs -> OpType]
      BY <1>0, <2>1, <2>i
    <3>2. late' \subseteq [space : Spaces, old : Frames, ticket : [CPUs -> Nat]]
      BY <2>1, <2>r DEF TypeOK
    <3> QED BY <1>0, <1>1, <3>1, <3>2 DEF TypeOK, OpType
  <2>4. Loaded'
    BY <1>0 DEF Loaded
  <2>5. Owner'
    <3>1. Known(op[c].space)
      BY <1>0 DEF Owner, Known, Loaded, TypeOK, Procs
    <3> QED BY <1>0, <2>1, <2>2, <2>i, <2>r, <3>1 DEF Owner, Known
  <2>6. Held'
    <3>1. /\ \A x, y \in Spaces : pte[x] = pte[y] /\ pte[x] # None => x = y
          /\ \A x \in Spaces : pte[x] \notin frames
          /\ \A r \in late' : r.old \notin frames /\ \A x \in Spaces : pte[x] # r.old
      BY <1>0, <2>1, <2>r DEF Held
    <3>2. ASSUME NEW d \in CPUs, op'[d].pc # "idle"
          PROVE  /\ op'[d].old \in Frames \ frames
                 /\ \A x \in Spaces : pte[x] # op'[d].old
                 /\ \A e \in CPUs : op'[e].pc # "idle" /\ op'[e].old = op'[d].old => e = d
                 /\ \A r \in late' : r.old # op'[d].old
      <4>1. d # c /\ op'[d] = op[d]
        BY <2>2, <2>i, <3>2
      <4>2. \A e \in CPUs : op'[e].pc # "idle" => op'[e] = op[e]
        BY <2>2, <2>i
      <4>3. op[d].old # op[c].old
        BY <1>0, <3>2, <4>1 DEF Held
      <4> QED BY <2>1, <2>r, <3>2, <4>1, <4>2, <4>3 DEF Held
    <3> QED BY <1>0, <3>1, <3>2 DEF Held
  <2>7. Tickets'
    <3>1. \A d \in CPUs : /\ Taken(d)' = Taken(d)
                          /\ Taken(d) \in Nat /\ desc[d].req \in Nat
      BY <1>0 DEF Taken, TypeOK
    <3>2. \A d \in CPUs : \A x, n : Scoped(d, x, n) => Scoped(d, x, n)'
      BY <1>0, <3>1 DEF Scoped, Reaches
    <3>3. \A d \in CPUs : \A x : Scoped(d, x, 0)'
      BY <1>0, <3>1 DEF Scoped, TypeOK
    <3>4. ASSUME NEW d \in CPUs, NEW e \in CPUs PROVE Tickets!2!(e)!(d)'
      <4>1. CASE e = c
        BY <2>2, <2>i, <3>3, <4>1
      <4>2. CASE e # c
        BY <1>0, <2>2, <3>1, <3>2, <4>2 DEF Tickets, Reaches
      <4> QED BY <4>1, <4>2
    <3>5. \A r \in late' : \A d \in CPUs : Scoped(d, r.space, r.ticket[d])'
      BY <2>1, <2>r, <3>2 DEF Tickets
    <3>6. \A d \in CPUs : desc'[d].done <= Taken(d)' /\ Taken(d)' <= desc'[d].req
      BY <1>0, <3>1 DEF Tickets
    <3> QED BY <3>4, <3>5, <3>6 DEF Tickets
  <2>8. Fresh'
    <3>1. \A d \in CPUs : Answered(d)' = Answered(d)
      BY <1>0 DEF Answered
    <3>2. \A d \in CPUs : \A x, f : Owes(d, x, f) => Owes(d, x, f)'
      BY <1>0, <2>1, <2>2, <2>r, <3>1 DEF Owes
    <3>3. load.online \subseteq CPUs
      BY DEF TypeOK
    <3> QED BY <1>0, <3>2, <3>3 DEF Fresh
  <2> QED BY <2>3, <2>4, <2>5, <2>6, <2>7, <2>8
<1> QED BY <1>2, <1>3

DescType == [req : Nat, done : Nat, pcid : Tags \cup {0}, all : BOOLEAN]

(* Merging a request into the pending scope covers it and all that was
   covered before: two different tags become everything. *)
LEMMA MergeFacts ==
  ASSUME NEW d \in DescType, NEW tag \in Tags \cup {All}
  PROVE  /\ Merge(d, tag) \in DescType
         /\ Merge(d, tag).req = d.req /\ Merge(d, tag).done = d.done
         /\ \A x : Reaches(x, d.all, d.pcid)
                      => Reaches(x, Merge(d, tag).all, Merge(d, tag).pcid)
         /\ \A x : Reaches(x, tag = All, tag)
                      => Reaches(x, Merge(d, tag).all, Merge(d, tag).pcid)
<1> USE TlbAssumption
<1>1. \A p \in Procs : p # Kernel => Tag[p] # 0
  BY DEF Procs
<1>2. CASE d.all
  BY <1>2 DEF Merge, Reaches
<1>3. CASE ~d.all /\ (tag = All \/ (d.pcid # 0 /\ d.pcid # tag))
  <2>1. Merge(d, tag) = [d EXCEPT !.all = TRUE, !.pcid = 0]
    BY <1>3 DEF Merge
  <2> QED BY <2>1 DEF Reaches, DescType
<1>4. CASE ~d.all /\ ~(tag = All \/ (d.pcid # 0 /\ d.pcid # tag))
  <2>1. Merge(d, tag) = [d EXCEPT !.pcid = tag]
    BY <1>4 DEF Merge
  <2>2. /\ Merge(d, tag) \in DescType /\ Merge(d, tag).pcid = tag
        /\ Merge(d, tag).all = d.all /\ Merge(d, tag).req = d.req
        /\ Merge(d, tag).done = d.done
    BY <1>4, <2>1 DEF DescType, All
  <2>3. d.pcid = 0 \/ d.pcid = tag
    BY <1>4
  <2> QED BY <1>1, <1>4, <2>2, <2>3 DEF Reaches
<1> QED BY <1>2, <1>3, <1>4

LEMMA QueueTInv ==
  ASSUME TInv, NEW c \in CPUs, NEW i \in CPUs, Queue(c, i)
  PROVE  TInv'
<1> USE TlbAssumption DEF TInv
<1> DEFINE m == Merge(desc[i], op[c].tag)
           nd == [m EXCEPT !.req = @ + 1]
           tk == [op[c].ticket EXCEPT ![i] = desc[i].req + 1]
           new == [op[c] EXCEPT !.ticket = tk, !.left = @ \ {i},
                                !.pc = IF op[c].left = {i} THEN "send" ELSE "queue"]
<1>0. /\ c \in load.online /\ op[c].pc = "queue" /\ i \in op[c].left
      /\ UNCHANGED <<pte, space, primed, cur, cr3>>
      /\ UNCHANGED <<tlb, gtlb, frames, ipi, isr, late, load, missed, edits, lost>>
      /\ op[c] \in OpType /\ op \in [CPUs -> OpType]
      /\ desc \in [CPUs -> DescType]
  BY DEF Queue, ThreadRuns, TypeOK, OpType, DescType, mm
<1>1. desc' = [desc EXCEPT ![i] = nd] /\ op' = [op EXCEPT ![c] = new]
  BY <1>0, SMTT(30) DEF Queue, OpType
<1>2. /\ m \in DescType /\ m.req = desc[i].req /\ m.done = desc[i].done
      /\ \A x : Reaches(x, desc[i].all, desc[i].pcid) => Reaches(x, m.all, m.pcid)
      /\ \A x : Reaches(x, op[c].tag = All, op[c].tag) => Reaches(x, m.all, m.pcid)
  BY <1>0, MergeFacts DEF OpType
<1> HIDE DEF m
<1>3. /\ nd \in DescType /\ nd.req = desc[i].req + 1 /\ nd.done = desc[i].done
      /\ nd.all = m.all /\ nd.pcid = m.pcid
  BY <1>2 DEF DescType
<1> HIDE DEF nd
<1>4. /\ tk \in [CPUs -> Nat]
      /\ \A d \in CPUs : tk[d] = IF d = i THEN desc[i].req + 1 ELSE op[c].ticket[d]
  BY <1>0 DEF OpType, DescType
<1> HIDE DEF tk
<1>5. /\ new \in OpType /\ new.ticket = tk /\ new.left = op[c].left \ {i}
      /\ new.pc = IF op[c].left = {i} THEN "send" ELSE "queue"
      /\ new.space = op[c].space /\ new.old = op[c].old /\ new.wait = op[c].wait
      /\ new.tag = op[c].tag
  BY <1>0, <1>4 DEF OpType
<1> HIDE DEF new
<1>6. /\ \A d \in CPUs : op'[d] = IF d = c THEN new ELSE op[d]
      /\ \A d \in CPUs : desc'[d] = IF d = i THEN nd ELSE desc[d]
  BY <1>0, <1>1
<1>7. TypeOK'
  <2>1. op' \in [CPUs -> OpType] /\ desc' \in [CPUs -> DescType]
    BY <1>0, <1>1, <1>3, <1>5
  <2>2. \A d \in CPUs : desc'[d].done <= desc'[d].req
    <3> TAKE d \in CPUs
    <3>1. desc[d].done \in Nat /\ desc[d].req \in Nat /\ desc[d].done <= desc[d].req
      BY DEF TypeOK
    <3>2. CASE d = i
      BY <1>3, <1>6, <3>1, <3>2
    <3>3. CASE d # i
      BY <1>6, <3>1, <3>3
    <3> QED BY <3>2, <3>3
  <2> QED BY <1>0, <2>1, <2>2 DEF TypeOK, OpType, DescType
<1>8. Loaded'
  BY <1>0 DEF Loaded
<1>9. Owner'
  BY <1>0, <1>5, <1>6 DEF Owner, Known
<1>10. Held'
  <2>1. \A d \in CPUs : /\ op'[d].pc = "idle" <=> op[d].pc = "idle"
                        /\ op'[d].old = op[d].old
    BY <1>0, <1>5, <1>6
  <2> QED BY <1>0, <2>1 DEF Held
<1>n. \A d \in CPUs : /\ Taken(d) \in Nat /\ Answered(d) \in Nat /\ desc[d].req \in Nat
                      /\ desc[d].done <= Taken(d) /\ Taken(d) <= desc[d].req
                      /\ Answered(d) <= desc[d].req /\ desc[d].done \in Nat
                      /\ isr[d].seen \in Nat
                      /\ isr[d].pc = "flush" => isr[d].seen <= desc[d].req
  BY DEF TypeOK, Taken, Tickets, Answered
<1>11. Tickets'
  <2>1. \A d \in CPUs : Taken(d)' = Taken(d) /\ desc'[d].done = desc[d].done
                        /\ desc'[d].req \in Nat /\ desc[d].req <= desc'[d].req
    BY <1>0, <1>3, <1>6, <1>n DEF Taken
  <2>2. \A d \in CPUs : \A x : \A n \in Nat : Scoped(d, x, n) => Scoped(d, x, n)'
    <3> SUFFICES ASSUME NEW d \in CPUs, NEW x, NEW n \in Nat, Scoped(d, x, n)
                 PROVE  Scoped(d, x, n)'
      OBVIOUS
    <3>1. n <= desc'[d].req
      BY <1>n, <2>1 DEF Scoped
    <3>2. \A a, g : Reaches(x, a, g)' <=> Reaches(x, a, g)
      BY <1>0 DEF Reaches
    <3>3. n > Taken(d)' => Reaches(x, desc[d].all, desc[d].pcid)'
      BY <1>2, <1>3, <1>6, <2>1, <3>2 DEF Scoped
    <3> QED BY <1>0, <2>1, <3>1, <3>2, <3>3 DEF Scoped
  <2>3. \A x, n : x = op[c].space /\ n = desc[i].req + 1 => Scoped(i, x, n)'
    <3>1. Reaches(op[c].space, op[c].tag = All, op[c].tag)
      BY <1>0 DEF Tickets
    <3>2. Reaches(op[c].space, nd.all, nd.pcid)
      BY <1>2, <1>3, <3>1
    <3> QED BY <1>0, <1>3, <1>6, <1>n, <3>2 DEF Scoped, Reaches
  <2>4. ASSUME NEW d \in CPUs, NEW e \in CPUs PROVE Tickets!2!(e)!(d)'
    <3>1. CASE e = c
      <4>1. op'[e] = new
        BY <1>6, <3>1
      <4>2. Scoped(d, op[c].space, op[c].ticket[d]) /\ op[c].ticket[d] \in Nat
        BY <1>0 DEF Tickets, OpType
      <4>3. Scoped(d, op[e].space, op[e].ticket[d])'
        <5>1. \A x, n : x = op[c].space /\ n = tk[d] => Scoped(d, x, n)'
          BY <1>4, <2>2, <2>3, <4>2
        <5> QED BY <1>5, <4>1, <5>1
      <4>4. Reaches(op[e].space, op[e].tag = All, op[e].tag)'
        <5>1. Reaches(op[c].space, op[c].tag = All, op[c].tag)
          BY <1>0 DEF Tickets
        <5> QED BY <1>0, <1>5, <4>1, <5>1 DEF Reaches
      <4>5. op'[e].pc = "queue" /\ d \in op'[e].left => op'[e].ticket[d] = 0
        BY <1>0, <1>4, <1>5, <4>1 DEF Tickets
      <4> QED BY <1>5, <4>1, <4>3, <4>4, <4>5
    <3>2. CASE e # c
      <4>1. op'[e] = op[e] /\ op[e].ticket[d] \in Nat
        BY <1>0, <1>6, <3>2 DEF OpType
      <4>2. Tickets!2!(e)!(d)
        BY DEF Tickets
      <4>3. Scoped(d, op[e].space, op[e].ticket[d])'
        BY <2>2, <4>1, <4>2
      <4>4. op[e].pc \in {"queue", "send", "wait"}
               => Reaches(op[e].space, op[e].tag = All, op[e].tag)'
        BY <1>0, <4>1, <4>2 DEF Reaches
      <4> QED BY <2>1, <4>1, <4>2, <4>3, <4>4
    <3> QED BY <3>1, <3>2
  <2>5. \A r \in late : \A d \in CPUs : Scoped(d, r.space, r.ticket[d])'
    BY <2>2 DEF Tickets, TypeOK
  <2>6. \A d \in CPUs : desc'[d].done <= Taken(d)' /\ Taken(d)' <= desc'[d].req
    BY <1>n, <2>1
  <2> QED BY <1>0, <2>4, <2>5, <2>6 DEF Tickets
<1>12. Fresh'
  <2>1. \A d \in CPUs : Answered(d)' = Answered(d)
    BY <1>0, <1>3, <1>6 DEF Answered
  <2>2. ASSUME NEW d \in CPUs, NEW x, NEW f, Owes(d, x, f) PROVE Owes(d, x, f)'
    <3>1. CASE \E r \in late : r.space = x /\ r.old = f /\ Answered(d) < r.ticket[d]
      BY <1>0, <2>1, <3>1 DEF Owes
    <3>2. CASE \E e \in CPUs \ {d} :
                  /\ op[e].pc # "idle" /\ op[e].space = x /\ op[e].old = f
                  /\ \/ op[e].pc = "aim"
                     \/ op[e].pc = "queue" /\ d \in op[e].left
                     \/ Answered(d) < op[e].ticket[d]
      <4>1. PICK e \in CPUs \ {d} :
                  /\ op[e].pc # "idle" /\ op[e].space = x /\ op[e].old = f
                  /\ \/ op[e].pc = "aim"
                     \/ op[e].pc = "queue" /\ d \in op[e].left
                     \/ Answered(d) < op[e].ticket[d]
        BY <3>2
      <4>2. CASE e # c
        BY <1>6, <2>1, <4>1, <4>2 DEF Owes
      <4>3. CASE e = c
        <5>1. op'[e] = new
          BY <1>6, <4>3
        <5>2. \/ new.pc = "queue" /\ d \in new.left
              \/ Answered(d) < new.ticket[d]
          <6>1. CASE d = i
            <7>1. Answered(d) < desc[i].req + 1
              BY <1>n, <6>1
            <7> QED BY <1>4, <1>5, <6>1, <7>1
          <6>2. CASE d # i
            BY <1>0, <1>4, <1>5, <4>1, <4>3, <6>2
          <6> QED BY <6>1, <6>2
        <5> QED BY <1>0, <1>5, <2>1, <4>1, <4>3, <5>1, <5>2 DEF Owes
      <4> QED BY <4>2, <4>3
    <3> QED BY <2>2, <3>1, <3>2 DEF Owes
  <2>3. load.online \subseteq CPUs
    BY DEF TypeOK
  <2> QED BY <1>0, <2>2, <2>3 DEF Fresh
<1> QED BY <1>7, <1>8, <1>9, <1>10, <1>11, <1>12

-----------------------------------------------------------------------------
(* The interrupt handler *)

(* The handler changes no page table and no request: what has to be shown of
   its steps is the types, the tickets of one CPU and the entries. *)
LEMMA HandlerTInv ==
  ASSUME TInv,
         UNCHANGED <<pte, space, primed, cur, cr3, frames, op, late, load>>,
         TypeOK',
         \A d \in CPUs : /\ desc[d].done <= desc'[d].done
                         /\ desc'[d].done <= Taken(d)' /\ Taken(d)' <= desc'[d].req,
         \A d \in CPUs : \A x : \A n \in Nat : Scoped(d, x, n) => Scoped(d, x, n)',
         Fresh'
  PROVE  TInv'
<1> USE DEF TInv
<1>0. /\ op \in [CPUs -> OpType] /\ op' = op /\ late' = late
      /\ late \subseteq [space : Spaces, old : Frames, ticket : [CPUs -> Nat]]
  BY DEF TypeOK, OpType
<1>1. Loaded' /\ Owner' /\ Held'
  BY DEF Loaded, Owner, Held, Known
<1>2. ASSUME NEW d \in CPUs, NEW e \in CPUs PROVE Tickets!2!(e)!(d)'
  <2>1. Tickets!2!(e)!(d) /\ op[e].ticket[d] \in Nat
    BY <1>0 DEF Tickets, OpType
  <2>2. Scoped(d, op[e].space, op[e].ticket[d])'
    BY <1>0, <2>1
  <2>3. op'[e].pc \in {"queue", "send", "wait"}
           => Reaches(op[e].space, op[e].tag = All, op[e].tag)'
    BY <1>0, <2>1 DEF Reaches
  <2>4. op'[e].pc = "wait" /\ d \notin op'[e].left => desc'[d].done >= op'[e].ticket[d]
    <3>1. desc[d].done \in Nat /\ desc'[d].done \in Nat /\ desc[d].done <= desc'[d].done
      BY DEF TypeOK
    <3> QED BY <1>0, <2>1, <3>1
  <2> QED BY <1>0, <2>1, <2>2, <2>3, <2>4
<1>3. \A r \in late : \A d \in CPUs : Scoped(d, r.space, r.ticket[d])'
  <2> TAKE r \in late
  <2> TAKE d \in CPUs
  <2>1. r.ticket[d] \in Nat /\ Scoped(d, r.space, r.ticket[d])
    BY <1>0 DEF Tickets
  <2> QED BY <2>1
<1>4. Tickets'
  BY <1>0, <1>2, <1>3 DEF Tickets
<1> QED BY <1>1, <1>4

(* The steps of the handler around the flush leave the entries alone, and what
   has been answered stays answered. *)
LEMMA SameEntries ==
  ASSUME TInv,
         UNCHANGED <<pte, space, primed, op, late, load, missed, tlb, gtlb>>,
         \A d \in CPUs : Answered(d)' = Answered(d)
  PROVE  Fresh'
<1> USE DEF TInv
<1>1. \A d \in CPUs : \A x, f : Owes(d, x, f) => Owes(d, x, f)'
  BY DEF Owes
<1>2. load.online \subseteq CPUs
  BY TlbAssumption DEF TypeOK
<1> QED BY <1>1, <1>2 DEF Fresh

LEMMA CounterTypes ==
  ASSUME TInv
  PROVE  \A d \in CPUs : /\ desc[d].done \in Nat /\ desc[d].req \in Nat
                         /\ isr[d].seen \in Nat /\ desc[d].done <= Taken(d)
                         /\ Taken(d) <= desc[d].req /\ desc[d].done <= desc[d].req
  BY DEF TInv, TypeOK, Tickets

IsrType == [pc : {"out", "snap", "flush", "ack", "eoi"}, seen : Nat,
            tag : Tags \cup {All}]

LEMMA EnterTInv ==
  ASSUME TInv, NEW c \in CPUs, Enter(c)
  PROVE  TInv'
<1> USE DEF TInv
<1> DEFINE h == [isr[c] EXCEPT !.pc = "snap"]
<1>0. /\ isr[c].pc = "out" /\ ipi' = [ipi EXCEPT ![c] = FALSE]
      /\ isr' = [isr EXCEPT ![c] = h]
      /\ UNCHANGED <<pte, space, primed, cur, cr3, frames, op, late, load,
                     missed, tlb, gtlb, desc, edits, lost>>
      /\ isr \in [CPUs -> IsrType]
  BY DEF Enter, mm, TypeOK, IsrType
<1>1. h \in IsrType /\ h.pc = "snap"
  BY <1>0 DEF IsrType
<1> HIDE DEF h
<1>2. \A d \in CPUs : isr'[d] = IF d = c THEN h ELSE isr[d]
  BY <1>0
<1>3. TypeOK'
  <2>1. isr' \in [CPUs -> IsrType] /\ ipi' \in [CPUs -> BOOLEAN]
    BY <1>0, <1>1 DEF TypeOK
  <2> QED BY <1>0, <2>1 DEF TypeOK, IsrType
<1>4. \A d \in CPUs : Taken(d)' = Taken(d) /\ Answered(d)' = Answered(d)
  BY <1>0, <1>1, <1>2 DEF Taken, Answered
<1>5. \A d \in CPUs : \A x : \A n \in Nat : Scoped(d, x, n) => Scoped(d, x, n)'
  BY <1>0, <1>1, <1>2, <1>4 DEF Scoped, Reaches
<1>6. \A d \in CPUs : /\ desc[d].done <= desc'[d].done
                      /\ desc'[d].done <= Taken(d)' /\ Taken(d)' <= desc'[d].req
  BY <1>0, <1>4, CounterTypes
<1>7. Fresh'
  BY <1>0, <1>4, SameEntries
<1> QED BY <1>0, <1>3, <1>5, <1>6, <1>7, HandlerTInv

LEMMA EoiTInv ==
  ASSUME TInv, NEW c \in CPUs, Eoi(c)
  PROVE  TInv'
<1> USE DEF TInv
<1>0. /\ isr[c].pc = "eoi" /\ isr' = [isr EXCEPT ![c] = Quiet]
      /\ UNCHANGED <<pte, space, primed, cur, cr3, frames, op, late, load,
                     missed, tlb, gtlb, desc, ipi, edits, lost>>
      /\ isr \in [CPUs -> IsrType]
  BY DEF Eoi, mm, TypeOK, IsrType
<1>1. Quiet \in IsrType /\ Quiet.pc = "out"
  BY DEF IsrType, Quiet
<1>2. \A d \in CPUs : isr'[d] = IF d = c THEN Quiet ELSE isr[d]
  BY <1>0
<1>3. TypeOK'
  <2>1. isr' \in [CPUs -> IsrType]
    BY <1>0, <1>1
  <2> QED BY <1>0, <2>1 DEF TypeOK, IsrType
<1>4. \A d \in CPUs : Taken(d)' = Taken(d) /\ Answered(d)' = Answered(d)
  BY <1>0, <1>1, <1>2 DEF Taken, Answered
<1>5. \A d \in CPUs : \A x : \A n \in Nat : Scoped(d, x, n) => Scoped(d, x, n)'
  BY <1>0, <1>1, <1>2, <1>4 DEF Scoped, Reaches
<1>6. \A d \in CPUs : /\ desc[d].done <= desc'[d].done
                      /\ desc'[d].done <= Taken(d)' /\ Taken(d)' <= desc'[d].req
  BY <1>0, <1>4, CounterTypes
<1>7. Fresh'
  BY <1>0, <1>4, SameEntries
<1> QED BY <1>0, <1>3, <1>5, <1>6, <1>7, HandlerTInv

(* The scope is cleared with the counter read under the same lock: whatever
   the pending scope covered, the flush to come covers. *)
LEMMA SnapshotTInv ==
  ASSUME TInv, NEW c \in CPUs, Snapshot(c)
  PROVE  TInv'
<1> USE DEF TInv
<1> DEFINE g == IF desc[c].all THEN All ELSE desc[c].pcid
           h == [pc |-> "flush", seen |-> desc[c].req, tag |-> g]
           nd == [desc[c] EXCEPT !.all = FALSE, !.pcid = 0]
<1>0. /\ isr[c].pc = "snap"
      /\ UNCHANGED <<pte, space, primed, cur, cr3, frames, op, late, load,
                     missed, tlb, gtlb, ipi, edits, lost>>
      /\ isr \in [CPUs -> IsrType] /\ desc \in [CPUs -> DescType]
      /\ isr' = [isr EXCEPT ![c] = h]
  BY DEF Snapshot, mm, TypeOK, IsrType, DescType
<1>d. desc' = [desc EXCEPT ![c] = nd]
  BY <1>0 DEF Snapshot, DescType
<1>1. /\ h \in IsrType /\ h.pc = "flush" /\ h.seen = desc[c].req /\ h.tag = g
      /\ nd \in DescType /\ nd.req = desc[c].req /\ nd.done = desc[c].done
  BY <1>0 DEF IsrType, DescType, All
<1>r. \A x : Reaches(x, desc[c].all, desc[c].pcid) => Reaches(x, h.tag = All, h.tag)
  BY <1>1 DEF Reaches
<1> HIDE DEF h, nd, g
<1>2. \A d \in CPUs : /\ isr'[d] = IF d = c THEN h ELSE isr[d]
                      /\ desc'[d] = IF d = c THEN nd ELSE desc[d]
  BY <1>0, <1>d
<1>m. \A d \in CPUs : desc'[d].done = desc[d].done /\ desc'[d].req = desc[d].req
  BY <1>1, <1>2
<1>3. TypeOK'
  <2>1. isr' \in [CPUs -> IsrType] /\ desc' \in [CPUs -> DescType]
    BY <1>0, <1>1, <1>d
  <2>2. \A d \in CPUs : desc'[d].done <= desc'[d].req
    BY <1>m, CounterTypes
  <2> QED BY <1>0, <2>1, <2>2 DEF TypeOK, IsrType, DescType
<1>4. \A d \in CPUs : /\ Answered(d)' = Answered(d)
                      /\ Taken(d)' = IF d = c THEN desc[c].req ELSE Taken(d)
  BY <1>0, <1>1, <1>2 DEF Taken, Answered
<1>5. ASSUME NEW d \in CPUs, NEW x, NEW n \in Nat, Scoped(d, x, n) PROVE Scoped(d, x, n)'
  <2>0. \A a, k : Reaches(x, a, k)' <=> Reaches(x, a, k)
    BY <1>0 DEF Reaches
  <2>1. CASE d = c
    <3>1. Taken(c) = desc[c].done
      BY <1>0 DEF Taken
    <3>2. n <= desc[c].req /\ (n > desc[c].done => Reaches(x, desc[c].all, desc[c].pcid))
      BY <1>5, <2>1, <3>1 DEF Scoped
    <3>3. n > desc[c].done => Reaches(x, h.tag = All, h.tag)
      BY <3>2, <1>r
    <3>4. n > desc[c].done => Reaches(x, isr[c].tag = All, isr[c].tag)'
      BY <1>2, <2>0, <3>3
    <3>5. n <= desc'[d].req /\ ~(n > Taken(d)')
      BY <1>4, <1>m, <2>1, <3>2, CounterTypes
    <3> QED BY <1>m, <2>1, <3>4, <3>5 DEF Scoped
  <2>2. CASE d # c
    BY <1>0, <1>2, <1>4, <1>5, <2>2 DEF Scoped, Reaches
  <2> QED BY <2>1, <2>2
<1>6. \A d \in CPUs : /\ desc[d].done <= desc'[d].done
                      /\ desc'[d].done <= Taken(d)' /\ Taken(d)' <= desc'[d].req
  BY <1>4, <1>m, CounterTypes
<1>7. Fresh'
  BY <1>0, <1>4, SameEntries
<1> QED BY <1>0, <1>3, <1>5, <1>6, <1>7, HandlerTInv

LEMMA AckTInv ==
  ASSUME TInv, NEW c \in CPUs, Ack(c)
  PROVE  TInv'
<1> USE DEF TInv
<1> DEFINE h == [isr[c] EXCEPT !.pc = IF desc[c].req = isr[c].seen THEN "eoi" ELSE "snap"]
           nd == [desc[c] EXCEPT !.done = isr[c].seen]
<1>0. /\ isr[c].pc = "ack"
      /\ UNCHANGED <<pte, space, primed, cur, cr3, frames, op, late, load,
                     missed, tlb, gtlb, ipi, edits, lost>>
      /\ isr \in [CPUs -> IsrType] /\ desc \in [CPUs -> DescType]
      /\ isr' = [isr EXCEPT ![c] = h] /\ desc' = [desc EXCEPT ![c] = nd]
  BY DEF Ack, mm, TypeOK, IsrType, DescType
<1>1. /\ h \in IsrType /\ h.pc \in {"eoi", "snap"}
      /\ nd \in DescType /\ nd.req = desc[c].req /\ nd.done = isr[c].seen
      /\ nd.all = desc[c].all /\ nd.pcid = desc[c].pcid
  BY <1>0 DEF IsrType, DescType
<1> HIDE DEF h, nd
<1>2. \A d \in CPUs : /\ isr'[d] = IF d = c THEN h ELSE isr[d]
                      /\ desc'[d] = IF d = c THEN nd ELSE desc[d]
  BY <1>0
<1>t. Taken(c) = isr[c].seen
  BY <1>0 DEF Taken
<1>4. \A d \in CPUs : Answered(d)' = Answered(d) /\ Taken(d)' = Taken(d)
  BY <1>0, <1>1, <1>2 DEF Taken, Answered
<1>6. \A d \in CPUs : /\ desc[d].done <= desc'[d].done /\ desc'[d].req = desc[d].req
                      /\ desc'[d].done <= Taken(d)' /\ Taken(d)' <= desc'[d].req
                      /\ desc'[d].done <= desc'[d].req
  <2> TAKE d \in CPUs
  <2>1. CASE d = c
    BY <1>1, <1>2, <1>4, <1>t, <2>1, CounterTypes
  <2>2. CASE d # c
    BY <1>2, <1>4, <2>2, CounterTypes
  <2> QED BY <2>1, <2>2
<1>3. TypeOK'
  <2>1. isr' \in [CPUs -> IsrType] /\ desc' \in [CPUs -> DescType]
    BY <1>0, <1>1
  <2> QED BY <1>0, <1>6, <2>1 DEF TypeOK, IsrType, DescType
<1>5. \A d \in CPUs : \A x : \A n \in Nat : Scoped(d, x, n) => Scoped(d, x, n)'
  BY <1>0, <1>1, <1>2, <1>4, <1>6 DEF Scoped, Reaches
<1>7. Fresh'
  BY <1>0, <1>4, SameEntries
<1> QED BY <1>0, <1>3, <1>5, <1>6, <1>7, HandlerTInv

(* The flush is honest: an entry in its scope is what the page table says, or
   gone; an entry out of its scope is owed by a request that came later. *)
LEMMA FlushTInv ==
  ASSUME Separate, TInv, NEW c \in CPUs, Flush(c)
  PROVE  TInv'
<1> USE TlbAssumption DEF TInv
<1> DEFINE h == [isr[c] EXCEPT !.pc = "ack"]
<1>0. /\ isr[c].pc = "flush"
      /\ UNCHANGED <<pte, space, primed, cur, cr3, frames, op, late, load,
                     desc, ipi, edits, lost>>
      /\ isr \in [CPUs -> IsrType]
      /\ isr' = [isr EXCEPT ![c] = h]
  BY DEF Flush, mm, TypeOK, IsrType
<1>1. h \in IsrType /\ h.pc = "ack" /\ h.seen = isr[c].seen
  BY <1>0 DEF IsrType
<1> HIDE DEF h
<1>2. \A d \in CPUs : isr'[d] = IF d = c THEN h ELSE isr[d]
  BY <1>0
<1>b. /\ \A g \in Tags : Reload(c, g) \in Frames \cup {None}
      /\ pte[KSpace] \in Frames \cup {None}
  BY DEF Reload, TypeOK, KSpace, Procs
<1>e. /\ tlb' \in [CPUs -> [Tags -> Frames \cup {None}]]
      /\ gtlb' \in [CPUs -> Frames \cup {None}]
      /\ \A d \in CPUs : \A g \in Tags :
            tlb'[d][g] = IF d = c /\ isr[c].tag \in {All, g} THEN Reload(c, g)
                         ELSE tlb[d][g]
      /\ \A d \in CPUs :
            gtlb'[d] = IF d = c /\ isr[c].tag = All THEN pte[KSpace] ELSE gtlb[d]
      /\ missed' = IF isr[c].tag = All THEN missed \ {c} ELSE missed
  <2>0. /\ tlb \in [CPUs -> [Tags -> Frames \cup {None}]]
        /\ gtlb \in [CPUs -> Frames \cup {None}]
    BY DEF TypeOK
  <2>1. CASE isr[c].tag # All
    <3>1. isr[c].tag \in Tags
      BY <1>0, <2>1 DEF IsrType
    <3>2. /\ tlb' = [tlb EXCEPT ![c][isr[c].tag] = Reload(c, isr[c].tag)]
          /\ gtlb' = gtlb /\ missed' = missed
      BY <2>1 DEF Flush
    <3>3. Reload(c, isr[c].tag) \in Frames \cup {None}
      BY <1>b, <3>1
    <3> QED BY <2>0, <2>1, <3>1, <3>2, <3>3, EntryReplaced
  <2>2. CASE isr[c].tag = All
    <3>1. [g \in Tags |-> Reload(c, g)] \in [Tags -> Frames \cup {None}]
      BY <1>b
    <3>2. /\ tlb' = [tlb EXCEPT ![c] = [g \in Tags |-> Reload(c, g)]]
          /\ gtlb' = [gtlb EXCEPT ![c] = pte[KSpace]]
          /\ missed' = missed \ {c}
      BY <2>2 DEF Flush
    <3> QED BY <1>b, <2>0, <2>2, <3>1, <3>2
  <2> QED BY <2>1, <2>2
<1>3. TypeOK'
  <2>1. isr' \in [CPUs -> IsrType]
    BY <1>0, <1>1
  <2> QED BY <1>0, <1>e, <2>1 DEF TypeOK, IsrType
<1>4. \A d \in CPUs : /\ Taken(d)' = Taken(d)
                      /\ Answered(d)' = IF d = c THEN isr[c].seen ELSE Answered(d)
  BY <1>0, <1>1, <1>2 DEF Taken, Answered
<1>5. \A d \in CPUs : \A x : \A n \in Nat : Scoped(d, x, n) => Scoped(d, x, n)'
  BY <1>0, <1>1, <1>2, <1>4 DEF Scoped, Reaches
<1>6. \A d \in CPUs : /\ desc[d].done <= desc'[d].done
                      /\ desc'[d].done <= Taken(d)' /\ Taken(d)' <= desc'[d].req
  BY <1>0, <1>4, CounterTypes
<1>7. \A d \in CPUs \ {c} : \A x, f : Owes(d, x, f) => Owes(d, x, f)'
  BY <1>0, <1>4 DEF Owes
<1>8. ASSUME NEW x, NEW f, Owes(c, x, f), ~Reaches(x, isr[c].tag = All, isr[c].tag)
      PROVE  Owes(c, x, f)'
  <2>0. Answered(c) = desc[c].done /\ Answered(c)' = isr[c].seen
    BY <1>0, <1>4 DEF Answered
  <2>1. \A n \in Nat : Scoped(c, x, n) /\ desc[c].done < n => isr[c].seen < n
    BY <1>0, <1>8, CounterTypes DEF Scoped
  <2>2. CASE \E r \in late : r.space = x /\ r.old = f /\ Answered(c) < r.ticket[c]
    <3>1. PICK r \in late : r.space = x /\ r.old = f /\ desc[c].done < r.ticket[c]
      BY <2>0, <2>2
    <3>2. Scoped(c, x, r.ticket[c]) /\ r.ticket[c] \in Nat
      BY <3>1 DEF Tickets, TypeOK
    <3> QED BY <1>0, <2>0, <2>1, <3>1, <3>2 DEF Owes
  <2>3. CASE \E e \in CPUs \ {c} :
                /\ op[e].pc # "idle" /\ op[e].space = x /\ op[e].old = f
                /\ \/ op[e].pc = "aim"
                   \/ op[e].pc = "queue" /\ c \in op[e].left
                   \/ Answered(c) < op[e].ticket[c]
    <3>1. PICK e \in CPUs \ {c} :
                /\ op[e].pc # "idle" /\ op[e].space = x /\ op[e].old = f
                /\ \/ op[e].pc = "aim"
                   \/ op[e].pc = "queue" /\ c \in op[e].left
                   \/ desc[c].done < op[e].ticket[c]
      BY <2>0, <2>3
    <3>2. Scoped(c, x, op[e].ticket[c]) /\ op[e].ticket[c] \in Nat
      BY <3>1 DEF Tickets, TypeOK
    <3> QED BY <1>0, <2>0, <2>1, <3>1, <3>2 DEF Owes
  <2> QED BY <1>8, <2>2, <2>3 DEF Owes
<1>9. Fresh'
  <2> SUFFICES ASSUME NEW d \in load.online PROVE Fresh!(d)'
    BY <1>0 DEF Fresh
  <2>0. d \in CPUs
    BY DEF TypeOK
  <2>1. ASSUME NEW p \in Users, d \in primed[p], NEW x, NEW v,
               x = space[p], v = tlb'[d][Tag[p]], v \notin {None, pte[x]}
        PROVE  Owes(d, x, v)'
    <3>0. Tag[p] \in Tags /\ p \in Procs /\ p # Kernel
      BY DEF Tags, Procs
    <3>1. CASE d # c
      <4>1. v = tlb[d][Tag[p]]
        BY <1>e, <2>0, <2>1, <3>0, <3>1
      <4>2. Owes(d, x, v)
        BY <2>1, <4>1 DEF Fresh
      <4> QED BY <1>7, <2>0, <3>1, <4>2
    <3>2. CASE d = c /\ isr[c].tag \in {All, Tag[p]}
      <4>1. v = Reload(c, Tag[p])
        BY <1>e, <2>1, <3>0, <3>2
      <4>2. cr3[c].tag = Tag[cur[c]] /\ cr3[c].space = space[cur[c]] /\ cur[c] \in Procs
        BY DEF Loaded, TypeOK
      <4>3. Tag[p] = cr3[c].tag => cur[c] = p
        BY <3>0, <4>2 DEF Separate, Procs
      <4> QED BY <2>1, <4>1, <4>2, <4>3 DEF Reload
    <3>3. CASE d = c /\ isr[c].tag \notin {All, Tag[p]}
      <4>1. v = tlb[d][Tag[p]]
        BY <1>e, <2>0, <2>1, <3>0, <3>3
      <4>2. Owes(d, x, v)
        BY <2>1, <4>1 DEF Fresh
      <4>3. ~Reaches(x, isr[c].tag = All, isr[c].tag)
        BY <2>1, <3>0, <3>3 DEF Reaches
      <4> QED BY <1>8, <3>3, <4>2, <4>3
    <3> QED BY <3>1, <3>2, <3>3
  <2>2. ASSUME NEW x, NEW v, x = KSpace, v = gtlb'[d], v \notin {None, pte[x]},
               d \notin missed'
        PROVE  Owes(d, x, v)'
    <3>0. ~(d = c /\ isr[c].tag = All) /\ v = gtlb[d] /\ d \notin missed
      BY <1>e, <2>0, <2>2
    <3>1. Owes(d, x, v)
      BY <2>2, <3>0 DEF Fresh
    <3>2. d = c => ~Reaches(x, isr[c].tag = All, isr[c].tag)
      BY <2>2, <3>0 DEF Reaches, Loaded, Procs
    <3> QED BY <1>7, <1>8, <2>0, <3>1, <3>2
  <2> QED BY <1>0, <2>1, <2>2
<1> QED BY <1>0, <1>3, <1>5, <1>6, <1>9, HandlerTInv

-----------------------------------------------------------------------------
(* The theorems *)

LEMMA NextTInv == Separate /\ TInv /\ [Next]_vars => TInv'
<1> SUFFICES ASSUME Separate, TInv, [Next]_vars PROVE TInv'
  OBVIOUS
<1>1. CASE UNCHANGED vars
  BY <1>1 DEF vars, TInv, TypeOK, Loaded, Owner, Known, Held, Tickets, Scoped,
              Taken, Reaches, Fresh, Owes, Answered
<1>2. CASE Next
  <2>1. PICK c \in CPUs :
          \/ \E p \in Procs : Switch(c, p)
          \/ \E s \in Spaces, kind \in Kinds, f \in Frames : Edit(c, s, kind, f)
          \/ \E s \in Spaces : Exec(c, s)
          \/ Aim(c)
          \/ \E i \in CPUs : Queue(c, i)
          \/ Send(c)
          \/ \E i \in CPUs : Await(c, i) \/ Resend(c, i)
          \/ Enter(c) \/ Snapshot(c) \/ Flush(c) \/ Ack(c) \/ Eoi(c)
    BY <1>2 DEF Next
  <2> QED BY <2>1, SwitchTInv, EditTInv, ExecTInv, AimTInv, QueueTInv, SendTInv,
             AwaitTInv, ResendTInv, EnterTInv, SnapshotTInv, FlushTInv, AckTInv,
             EoiTInv
<1> QED BY <1>1, <1>2

LEMMA Invariant == ASSUME Separate PROVE Spec => []TInv
<1>1. Init => TInv
  BY InitTInv
<1>2. TInv /\ [Next]_vars => TInv'
  BY NextTInv
<1> QED BY <1>1, <1>2, PTL DEF Spec

(* What is owed counting flushes is owed counting acknowledgements. *)
LEMMA OwesOwed ==
  ASSUME TInv, NEW c \in CPUs, NEW s, NEW f, Owes(c, s, f)
  PROVE  Owed(c, s, f)
<1>1. Answered(c) >= desc[c].done /\ Answered(c) \in Nat /\ desc[c].done \in Nat
  BY CounterTypes DEF Answered, Taken
<1>2. \A n \in Nat : Answered(c) < n => desc[c].done < n
  BY <1>1
<1>3. /\ \A d \in CPUs : op[d].ticket[c] \in Nat
      /\ \A r \in late : r.ticket[c] \in Nat
  BY DEF TInv, TypeOK
<1> QED BY <1>2, <1>3 DEF Owes, Owed

(* The translation in use is the one of the process's tag. *)
LEMMA HitIsFresh ==
  ASSUME TInv, NEW c \in load.online, UserHit(c) \notin {None, pte[cr3[c].space]}
  PROVE  Owes(c, cr3[c].space, UserHit(c))
<1> USE TlbAssumption DEF TInv
<1>1. /\ c \in CPUs /\ cur[c] \in Procs
      /\ cur[c] \in Users => c \in primed[cur[c]]
      /\ cr3[c].space = space[cur[c]] /\ cr3[c].tag = Tag[cur[c]]
  BY DEF TypeOK, Loaded
<1>2. cur[c] \in Users /\ UserHit(c) = tlb[c][Tag[cur[c]]]
  BY <1>1 DEF UserHit, Procs
<1> QED BY <1>1, <1>2 DEF Fresh

(* Whenever a CPU can still use a translation that the page table no longer
   holds, there is a shootdown for that very edit which this CPU has yet to
   answer: the acknowledgement tlb_shootdown_ipi() publishes is honest, for
   any number of CPUs, processes, frames and lost interrupts, as long as the
   processes do not share address spaces or tags.  Every CPU may be idle since
   boot; one that a shootdown of the kernel half has left out (`missed') is not
   claimed to be up to date on that half until it next flushes everything. *)
THEOREM StaleTranslationsAreOwed == ASSUME Separate PROVE Spec => []StaleIsOwed
<1>1. TInv => StaleIsOwed
  <2> SUFFICES ASSUME TInv PROVE StaleIsOwed
    OBVIOUS
  <2>1. load.online \subseteq CPUs
    BY TlbAssumption DEF TInv, TypeOK
  <2>2. \A c \in load.online : UserHit(c) \notin {None, pte[cr3[c].space]}
                                  => Owed(c, cr3[c].space, UserHit(c))
    BY <2>1, HitIsFresh, OwesOwed
  <2>3. \A c \in load.online : gtlb[c] \notin {None, pte[KSpace]}
                                  => c \in missed \/ Owed(c, KSpace, gtlb[c])
    BY <2>1, OwesOwed DEF TInv, Fresh
  <2> QED BY <2>2, <2>3 DEF StaleIsOwed, TInv
<1> QED BY <1>1, Invariant, PTL

(* What the shootdown is for: under the same hypothesis no CPU ever reaches,
   through a user translation, a frame that is free or belongs to another
   address space, although a caller gives its frame back as soon as
   tlb_shootdown_user() returns; nor through a kernel translation, unless a
   shootdown of the kernel half left that CPU out. *)
THEOREM FreedFramesUnreachable == ASSUME Separate PROVE Spec => []FreedUnreachable
<1>1. TInv => FreedUnreachable
  <2> SUFFICES ASSUME TInv PROVE FreedUnreachable
    OBVIOUS
  <2> USE TlbAssumption DEF TInv
  <2>1. ASSUME NEW c, NEW s, NEW f, Owes(c, s, f) PROVE f \notin NotOf(s)
    BY <2>1 DEF Owes, Held, NotOf, TypeOK
  <2>2. ASSUME NEW s \in Spaces, pte[s] # None PROVE pte[s] \notin NotOf(s)
    BY <2>2 DEF Held, NotOf
  <2>3. KSpace \in Spaces /\ load.online \subseteq CPUs
    BY DEF KSpace, Procs, TypeOK
  <2>4. ASSUME NEW c \in load.online, UserHit(c) # None
        PROVE  UserHit(c) \notin NotOf(cr3[c].space)
    <3>1. cr3[c].space \in Spaces
      BY <2>3 DEF TypeOK
    <3>2. CASE UserHit(c) = pte[cr3[c].space]
      BY <2>2, <2>4, <3>1, <3>2
    <3>3. CASE UserHit(c) # pte[cr3[c].space]
      BY <2>1, <2>4, <3>3, HitIsFresh
    <3> QED BY <3>2, <3>3
  <2>5. ASSUME NEW c \in load.online, gtlb[c] # None, c \notin missed
        PROVE  gtlb[c] \notin NotOf(KSpace)
    <3>1. CASE gtlb[c] = pte[KSpace]
      BY <2>2, <2>3, <2>5, <3>1
    <3>2. CASE gtlb[c] # pte[KSpace]
      BY <2>1, <2>5, <3>2 DEF Fresh
    <3> QED BY <3>1, <3>2
  <2> QED BY <2>4, <2>5 DEF FreedUnreachable
<1> QED BY <1>1, Invariant, PTL
=============================================================================
