---------------------- MODULE AuthorizationLedgerProofs ----------------------
(***************************************************************************)
(* Proofs about the authorization ledger, for every set of authorizations, *)
(* decisions, submissions, contexts, concurrent calls and bumps.           *)
(*                                                                         *)
(* First what the two locks do whoever takes them, then the invariant that *)
(* checkAndConsume rests on from its first half to its second, then what   *)
(* more holds when there is one bump at a time.                            *)
(***************************************************************************)
EXTENDS AuthorizationLedger, WellFoundedInduction, TLAPS

(* A call that is in progress is in the line of its mutex, and at the head *)
(* of the line once it has gone on to the epoch lock.                      *)
MutexInOrder ==
  \A c \in Caller : pc[c] # "idle" =>
    /\ call[c].sub \in Submission
    /\ \E i \in 1 .. Len(mutex[Ref(c)]) : mutex[Ref(c)][i] = c
    /\ pc[c] # "mutex" => mutex[Ref(c)][1] = c

OneKindHolds == writer # NoOne => readers = {}

HookReads ==
  \A c \in Caller : pc[c] = "hook" => c \in readers /\ call[c].epoch = epoch

LocksOK ==
  /\ mutex \in [Auth -> Seq(Caller)]
  /\ queue \in Seq(Proc)
  /\ readers \in SUBSET Caller
  /\ writer \in Bumper \cup {NoOne}
  /\ pc \in [Proc -> {"idle", "mutex", "epoch", "hook"}]
  /\ call \in [Proc -> Call]
  /\ MutexInOrder
  /\ OneKindHolds

DataOK ==
  /\ epoch \in Epoch
  /\ context \in Context
  /\ grants \in [Envelope -> GrantState]
  /\ consumed \in SUBSET Auth
  /\ allowed \in [Auth -> Seq(Consumption)]
  /\ fenced \in Epoch
  /\ ConsumedOnce
  /\ GrantsMatchLedger

(* The inductive invariant.                                                *)
LInv == LocksOK /\ DataOK /\ HookReads

-----------------------------------------------------------------------------
(* The epoch lock.                                                         *)

Below == {p \in Nat \X Nat : p[1] < p[2]}

LEMMA BelowWellFounded == IsWellFoundedOn(Below, Nat)
  BY NatLessThanWellFounded, Zenon DEF OpToRel, Below

(* There is a longest run of readers at the front of the queue.            *)
LEMMA LongestLead ==
  ASSUME NEW q \in Seq(Proc)
  PROVE  LET n == CHOOSE n \in Leading(q) : \A m \in Leading(q) : m <= n
         IN  n \in 0 .. Len(q) /\ \A i \in 1 .. n : ~Writes(q[i])
<1> DEFINE T == {k \in 0 .. Len(q) : Len(q) - k \in Leading(q)}
<1>0. Len(q) \in Nat /\ 0 \in Leading(q)
  BY DEF Leading
<1>1. Len(q) \in T
  BY <1>0
<1>2. PICK k \in T : \A j \in T : ~ <<j, k>> \in Below
  <2>1. T \subseteq Nat /\ T # {}
    BY <1>1, <1>0
  <2> HIDE DEF T
  <2> QED
    BY <2>1, BelowWellFounded, WFMin
<1>3. ASSUME NEW j \in T
      PROVE  k <= j
  <2>1. j \in Nat /\ k \in Nat
    BY <1>0
  <2>2. <<j, k>> \notin Below
    BY <1>2
  <2> QED
    BY <2>1, <2>2 DEF Below
<1>4. Len(q) - k \in Leading(q)
  OBVIOUS
<1>5. ASSUME NEW m \in Leading(q)
      PROVE  m <= Len(q) - k
  <2>1. m \in 0 .. Len(q)
    BY DEF Leading
  <2>2. Len(q) - m \in 0 .. Len(q) /\ Len(q) - (Len(q) - m) = m
    BY <2>1, <1>0
  <2>3. k <= Len(q) - m
    BY <2>2, <1>3
  <2> QED
    BY <2>1, <2>3, <1>0
<1> HIDE DEF T
<1> QED
  BY <1>4, <1>5 DEF Leading

(* Whoever is let in leaves the queue from its front, and is one writer    *)
(* when nobody holds the lock, or readers when no writer does.             *)
LEMMA EnteringAdmits ==
  ASSUME NEW q \in Seq(Proc), NEW r, NEW w
  PROVE  LET n == Entering(q, r, w)
         IN  /\ n \in 0 .. Len(q)
             /\ n # 0 => w = NoOne
             /\ \/ n = 1 /\ Writes(q[1]) /\ r = {}
                \/ \A i \in 1 .. n : ~Writes(q[i])
<1>1. CASE w # NoOne \/ q = <<>>
  BY <1>1 DEF Entering
<1>2. CASE w = NoOne /\ q # <<>> /\ Writes(q[1])
  BY <1>2 DEF Entering
<1>3. CASE w = NoOne /\ q # <<>> /\ ~Writes(q[1])
  BY <1>3, LongestLead DEF Entering
<1> QED
  BY <1>1, <1>2, <1>3

(* Draining keeps the readers that were in and never lets a writer in      *)
(* beside them; who comes in was waiting.                                  *)
LEMMA DrainAdmits ==
  ASSUME NEW q \in Seq(Proc), NEW r \in SUBSET Caller, NEW w \in Bumper \cup {NoOne},
         w # NoOne => r = {},
         Drain(q, r, w)
  PROVE  /\ queue' \in Seq(Proc)
         /\ readers' \in SUBSET Caller
         /\ writer' \in Bumper \cup {NoOne}
         /\ r \subseteq readers'
         /\ writer' # NoOne => readers' = {}
<1> DEFINE n == Entering(q, r, w)
           in == {q[i] : i \in 1 .. n}
<1>0. n \in 0 .. Len(q) /\ Len(q) \in Nat
  BY EnteringAdmits
<1>1. \A c \in in : c \in Proc
  BY <1>0
<1>2. queue' = SubSeq(q, n + 1, Len(q)) /\ readers' = r \cup {c \in in : ~Writes(c)}
      /\ writer' = IF \E c \in in : Writes(c) THEN q[1] ELSE w
  BY DEF Drain
<1>3. queue' \in Seq(Proc)
  BY <1>0, <1>2
<1>4. {c \in in : ~Writes(c)} \subseteq Caller
  BY <1>1 DEF Writes, Proc
<1>5. CASE n = 1 /\ Writes(q[1]) /\ r = {}
  <2>1. in = {q[1]}
    BY <1>5
  <2> QED
    BY <2>1, <1>2, <1>3, <1>5 DEF Writes
<1>6. CASE \A i \in 1 .. n : ~Writes(q[i])
  <2>1. \A c \in in : ~Writes(c)
    BY <1>6
  <2>2. writer' = w
    BY <2>1, <1>2
  <2>3. w # NoOne => in = {}
    BY EnteringAdmits, <1>0
  <2> HIDE DEF in
  <2> QED
    BY <2>2, <2>3, <1>2, <1>3, <1>4
<1> QED
  BY <1>5, <1>6, EnteringAdmits

-----------------------------------------------------------------------------
(* The locks of a call.                                                    *)

LEMMA RefOfCall ==
  ASSUME LocksOK, NEW c \in Caller, pc[c] # "idle"
  PROVE  /\ Ref(c) \in Auth
         /\ mutex[Ref(c)] \in Seq(Caller)
         /\ mutex[Ref(c)] # <<>>
<1>1. Ref(c) \in Auth
  BY LedgerAssumption DEF LocksOK, MutexInOrder, Ref
<1>2. mutex[Ref(c)] \in Seq(Caller)
  BY <1>1 DEF LocksOK
<1> QED
  BY <1>1, <1>2 DEF LocksOK, MutexInOrder

(* Calls at the hook are none of those that move.                          *)
HooksStay ==
  \A x \in Caller : pc'[x] = "hook" =>
    pc[x] = "hook" /\ call'[x] = call[x] /\ (x \in readers => x \in readers')

LEMMA EndsKeeps ==
  ASSUME LocksOK, NEW c \in Proc, Ends(c), c \in Caller => pc[c] \in {"epoch", "hook"}
  PROVE  LocksOK' /\ HooksStay
<1> USE LedgerAssumption
<1>1. /\ pc' = [pc EXCEPT ![c] = "idle"]
      /\ call' = [call EXCEPT ![c] = NoCall]
      /\ mutex' = IF Writes(c) THEN mutex ELSE [mutex EXCEPT ![Ref(c)] = Tail(@)]
  BY DEF Ends
<1>2. pc' \in [Proc -> {"idle", "mutex", "epoch", "hook"}] /\ call' \in [Proc -> Call]
  BY <1>1 DEF LocksOK, Call, NoCall, Op, Epoch
<1>3. /\ queue' \in Seq(Proc)
      /\ readers' \in SUBSET Caller
      /\ writer' \in Bumper \cup {NoOne}
      /\ readers \ {c} \subseteq readers'
      /\ OneKindHolds'
  <2> DEFINE r == readers \ {c}
             w == IF writer = c THEN NoOne ELSE writer
  <2>1. queue \in Seq(Proc) /\ r \in SUBSET Caller /\ w \in Bumper \cup {NoOne} /\ (w # NoOne => r = {})
    BY DEF LocksOK, OneKindHolds
  <2>2. Drain(queue, r, w)
    BY DEF Ends
  <2> HIDE DEF r, w
  <2>3. /\ queue' \in Seq(Proc)
        /\ readers' \in SUBSET Caller
        /\ writer' \in Bumper \cup {NoOne}
        /\ r \subseteq readers'
        /\ writer' # NoOne => readers' = {}
    BY <2>1, <2>2, DrainAdmits
  <2> QED
    BY <2>3 DEF r, OneKindHolds
<1>4. mutex' \in [Auth -> Seq(Caller)] /\ MutexInOrder'
  <2>1. CASE c \in Bumper
    <3>1. \A x \in Caller : pc'[x] = pc[x] /\ call'[x] = call[x] /\ mutex' = mutex
      BY <2>1, <1>1 DEF LocksOK, Writes, Proc
    <3> QED
      BY <3>1, <2>1, <1>1 DEF LocksOK, MutexInOrder, Ref, Writes
  <2>2. CASE c \in Caller
    <3> DEFINE a == Ref(c)
               m == mutex[a]
    <3>1. a \in Auth /\ m \in Seq(Caller) /\ m # <<>> /\ m[1] = c /\ pc[c] # "idle"
      BY <2>2, RefOfCall DEF LocksOK, MutexInOrder
    <3>2. mutex' = [mutex EXCEPT ![a] = Tail(m)]
      BY <2>2, <1>1 DEF Writes
    <3>3. Tail(m) \in Seq(Caller) /\ Len(Tail(m)) = Len(m) - 1
          /\ \A i \in 1 .. Len(m) - 1 : Tail(m)[i] = m[i + 1]
      BY <3>1
    <3>4. mutex' \in [Auth -> Seq(Caller)]
      BY <3>2, <3>3 DEF LocksOK
    <3>5. ASSUME NEW x \in Caller, pc'[x] # "idle"
          PROVE  /\ call'[x].sub \in Submission
                 /\ \E i \in 1 .. Len(mutex'[call'[x].sub.ref]) : mutex'[call'[x].sub.ref][i] = x
                 /\ pc'[x] # "mutex" => mutex'[call'[x].sub.ref][1] = x
      <4>1. x # c /\ pc'[x] = pc[x] /\ call'[x] = call[x]
        BY <3>5, <1>1 DEF LocksOK, Proc
      <4>2. /\ call[x].sub \in Submission
            /\ \E i \in 1 .. Len(mutex[Ref(x)]) : mutex[Ref(x)][i] = x
            /\ pc[x] # "mutex" => mutex[Ref(x)][1] = x
            /\ Ref(x) \in Auth
        BY <4>1, <3>5, RefOfCall DEF LocksOK, MutexInOrder
      <4>3. CASE Ref(x) # a
        BY <4>1, <4>2, <4>3, <3>2 DEF LocksOK, Ref
      <4>4. CASE Ref(x) = a
        <5>1. pc[x] = "mutex"
          BY <4>2, <4>1, <3>1, <4>4
        <5>2. PICK i \in 1 .. Len(m) : m[i] = x
          BY <4>2, <4>4
        <5>3. i # 1 /\ i - 1 \in 1 .. Len(m) - 1
          BY <5>2, <4>1, <3>1
        <5>4. Tail(m)[i - 1] = x
          BY <5>2, <5>3, <3>3
        <5>5. mutex'[call'[x].sub.ref] = Tail(m)
          BY <4>4, <4>1, <3>2, <3>1 DEF LocksOK, Ref
        <5> QED
          BY <5>1, <5>3, <5>4, <5>5, <4>1, <4>2, <3>3
      <4> QED
        BY <4>3, <4>4
    <3> QED
      BY <3>4, <3>5 DEF MutexInOrder, Ref
  <2> QED
    BY <2>1, <2>2 DEF Proc
<1>5. HooksStay
  BY <1>1, <1>3 DEF HooksStay, LocksOK, Proc
<1> QED
  BY <1>2, <1>3, <1>4, <1>5 DEF LocksOK

(* Waiting for the epoch lock.                                             *)
LEMMA QueueKeeps ==
  ASSUME LocksOK, NEW c \in Proc, Drain(Append(queue, c), readers, writer)
  PROVE  /\ queue' \in Seq(Proc)
         /\ readers' \in SUBSET Caller
         /\ writer' \in Bumper \cup {NoOne}
         /\ readers \subseteq readers'
         /\ OneKindHolds'
<1> DEFINE q == Append(queue, c)
<1>1. q \in Seq(Proc)
  BY DEF LocksOK
<1>2. /\ readers \in SUBSET Caller /\ writer \in Bumper \cup {NoOne}
      /\ writer # NoOne => readers = {}
  BY DEF LocksOK, OneKindHolds
<1> HIDE DEF q
<1>3. /\ queue' \in Seq(Proc)
      /\ readers' \in SUBSET Caller
      /\ writer' \in Bumper \cup {NoOne}
      /\ readers \subseteq readers'
      /\ writer' # NoOne => readers' = {}
  BY <1>1, <1>2, DrainAdmits DEF q
<1> QED
  BY <1>3 DEF OneKindHolds

LEMMA SubmitKeeps ==
  ASSUME LocksOK, NEW c \in Caller, NEW s \in Submission,
         NEW op \in {"consume", "issue", "revoke"}, Submit(c, op, s)
  PROVE  LocksOK' /\ HooksStay
<1> USE LedgerAssumption
<1>1. s.ref \in Auth /\ mutex[s.ref] \in Seq(Caller)
  BY DEF LocksOK
<1>2. /\ pc' = [pc EXCEPT ![c] = "mutex"]
      /\ call' = [call EXCEPT ![c] = [NoCall EXCEPT !.op = op, !.sub = s]]
      /\ mutex' = [mutex EXCEPT ![s.ref] = Append(@, c)]
      /\ pc[c] = "idle" /\ c \in Proc
      /\ UNCHANGED <<queue, readers, writer>>
  BY DEF Submit, Proc
<1>3. pc' \in [Proc -> {"idle", "mutex", "epoch", "hook"}] /\ call' \in [Proc -> Call]
  <2>1. NoCall \in Call
    BY DEF NoCall, Call, Op, Epoch
  <2>2. op \in Op
    BY DEF Op
  <2>3. [NoCall EXCEPT !.op = op, !.sub = s] \in Call
    BY <2>1, <2>2 DEF Call
  <2> QED
    BY <2>3, <1>2 DEF LocksOK
<1>4. mutex' \in [Auth -> Seq(Caller)]
  BY <1>1, <1>2 DEF LocksOK
<1>5. ASSUME NEW x \in Caller, pc'[x] # "idle"
      PROVE  /\ call'[x].sub \in Submission
             /\ \E i \in 1 .. Len(mutex'[call'[x].sub.ref]) : mutex'[call'[x].sub.ref][i] = x
             /\ pc'[x] # "mutex" => mutex'[call'[x].sub.ref][1] = x
  <2>1. CASE x = c
    <3>1. call'[x].sub = s /\ pc'[x] = "mutex"
      BY <2>1, <1>2 DEF LocksOK, NoCall, Proc
    <3>2. mutex'[s.ref] = Append(mutex[s.ref], c)
      BY <1>1, <1>2 DEF LocksOK
    <3>3. Len(mutex'[s.ref]) \in 1 .. Len(mutex'[s.ref])
          /\ mutex'[s.ref][Len(mutex'[s.ref])] = c
      BY <3>2, <1>1
    <3> QED
      BY <3>1, <3>3, <2>1
  <2>2. CASE x # c
    <3>1. pc'[x] = pc[x] /\ call'[x] = call[x] /\ pc[x] # "idle"
      BY <2>2, <1>2, <1>5 DEF LocksOK, Proc
    <3>2. /\ call[x].sub \in Submission
          /\ \E i \in 1 .. Len(mutex[Ref(x)]) : mutex[Ref(x)][i] = x
          /\ pc[x] # "mutex" => mutex[Ref(x)][1] = x
          /\ Ref(x) \in Auth /\ mutex[Ref(x)] \in Seq(Caller) /\ mutex[Ref(x)] # <<>>
      BY <3>1, RefOfCall DEF LocksOK, MutexInOrder
    <3>3. mutex'[Ref(x)] = mutex[Ref(x)] \/ mutex'[Ref(x)] = Append(mutex[Ref(x)], c)
      BY <3>2, <1>2 DEF LocksOK
    <3>4. \A i \in 1 .. Len(mutex[Ref(x)]) :
            i \in 1 .. Len(mutex'[Ref(x)]) /\ mutex'[Ref(x)][i] = mutex[Ref(x)][i]
      BY <3>2, <3>3
    <3>5. 1 \in 1 .. Len(mutex[Ref(x)])
      BY <3>2
    <3> QED
      BY <3>1, <3>2, <3>4, <3>5 DEF Ref
  <2> QED
    BY <2>1, <2>2
<1>6. HooksStay
  BY <1>2 DEF HooksStay, LocksOK, Proc
<1> QED
  BY <1>2, <1>3, <1>4, <1>5, <1>6 DEF LocksOK, MutexInOrder, OneKindHolds, Ref

LEMMA LockKeeps ==
  ASSUME LocksOK, NEW c \in Caller, Lock(c)
  PROVE  LocksOK' /\ HooksStay
<1>1. /\ pc[c] = "mutex" /\ Head(mutex[Ref(c)]) = c /\ c \in Proc
      /\ pc' = [pc EXCEPT ![c] = "epoch"]
      /\ UNCHANGED <<call, mutex>>
  BY DEF Lock, Proc
<1>2. /\ queue' \in Seq(Proc)
      /\ readers' \in SUBSET Caller
      /\ writer' \in Bumper \cup {NoOne}
      /\ readers \subseteq readers'
      /\ OneKindHolds'
  BY <1>1, QueueKeeps DEF Lock
<1>3. mutex[Ref(c)][1] = c
  BY <1>1, RefOfCall
<1>4. MutexInOrder'
  <2>1. ASSUME NEW x \in Caller, pc'[x] # "idle"
        PROVE  /\ call[x].sub \in Submission
               /\ \E i \in 1 .. Len(mutex[Ref(x)]) : mutex[Ref(x)][i] = x
               /\ pc'[x] # "mutex" => mutex[Ref(x)][1] = x
    <3>1. CASE x = c
      BY <3>1, <1>1, <1>3 DEF LocksOK, MutexInOrder
    <3>2. CASE x # c
      BY <3>2, <2>1, <1>1 DEF LocksOK, MutexInOrder, Proc
    <3> QED
      BY <3>1, <3>2
  <2> QED
    BY <2>1, <1>1 DEF MutexInOrder, Ref
<1>5. HooksStay
  BY <1>1, <1>2 DEF HooksStay, LocksOK
<1> QED
  BY <1>1, <1>2, <1>4, <1>5 DEF LocksOK

LEMMA RequestBumpKeeps ==
  ASSUME LocksOK, NEW c \in Bumper, NEW e \in Epoch, RequestBump(c, e)
  PROVE  LocksOK' /\ HooksStay
<1> USE LedgerAssumption
<1>1. /\ c \in Proc /\ c \notin Caller
      /\ pc' = [pc EXCEPT ![c] = "epoch"]
      /\ call' = [call EXCEPT ![c] = [NoCall EXCEPT !.op = "bump", !.epoch = e]]
      /\ UNCHANGED mutex
  BY DEF RequestBump, Proc
<1>2. /\ queue' \in Seq(Proc)
      /\ readers' \in SUBSET Caller
      /\ writer' \in Bumper \cup {NoOne}
      /\ readers \subseteq readers'
      /\ OneKindHolds'
  BY <1>1, QueueKeeps DEF RequestBump
<1>3. pc' \in [Proc -> {"idle", "mutex", "epoch", "hook"}] /\ call' \in [Proc -> Call]
  BY <1>1 DEF LocksOK, Call, NoCall, Op
<1>4. \A x \in Caller : pc'[x] = pc[x] /\ call'[x] = call[x]
  BY <1>1 DEF LocksOK
<1>5. MutexInOrder' /\ HooksStay
  BY <1>1, <1>2, <1>4 DEF LocksOK, MutexInOrder, Ref, HooksStay
<1> QED
  BY <1>1, <1>2, <1>3, <1>5 DEF LocksOK

-----------------------------------------------------------------------------
(* The calls.                                                              *)

LEMMA HooksKeep ==
  ASSUME HookReads, HooksStay, UNCHANGED epoch
  PROVE  HookReads'
  BY DEF HookReads, HooksStay

LEMMA DataStays ==
  ASSUME DataOK, UNCHANGED dataVars
  PROVE  DataOK'
  BY DEF DataOK, dataVars, ConsumedOnce, GrantsMatchLedger

LEMMA InitLInv == LedgerInit => LInv
<1> USE LedgerAssumption
<1> SUFFICES ASSUME LedgerInit PROVE LInv
  OBVIOUS
<1>1. 0 \in Epoch
  BY DEF Epoch
<1>2. NoCall \in Call
  BY <1>1 DEF NoCall, Call, Op
<1>3. LocksOK
  BY <1>2 DEF LedgerInit, LocksOK, MutexInOrder, OneKindHolds, Proc
<1>4. DataOK
  BY <1>1 DEF LedgerInit, DataOK, ConsumedOnce, GrantsMatchLedger, GrantState, Consumption
<1>5. HookReads
  BY DEF LedgerInit, HookReads, Proc
<1> QED
  BY <1>3, <1>4, <1>5 DEF LInv

LEMMA IssueLInv ==
  ASSUME LInv, NEW c \in Caller, Issue(c)
  PROVE  LInv'
<1>1. LocksOK' /\ HooksStay
  BY EndsKeeps DEF Issue, Holds, LInv, Proc
<1>2. HookReads'
  BY <1>1, HooksKeep DEF LInv, Issue
<1>3. DataOK'
  <2>1. \/ grants' = grants
        \/ /\ grants[Derived(Ref(c))] = "NONE"
           /\ grants' = [grants EXCEPT ![Derived(Ref(c))] = "AUTHORIZED"]
    BY DEF Issue
  <2>2. grants' \in [Envelope -> GrantState]
        /\ \A e \in Envelope : grants'[e] = "CONSUMED" <=> grants[e] = "CONSUMED"
    BY <2>1 DEF LInv, DataOK, GrantState
  <2> QED
    BY <2>2 DEF LInv, DataOK, ConsumedOnce, GrantsMatchLedger, Issue
<1> QED
  BY <1>1, <1>2, <1>3 DEF LInv

LEMMA RevokeLInv ==
  ASSUME LInv, NEW c \in Caller, Revoke(c)
  PROVE  LInv'
<1>1. LocksOK' /\ HooksStay
  BY EndsKeeps DEF Revoke, Holds, LInv, Proc
<1>2. HookReads'
  BY <1>1, HooksKeep DEF LInv, Revoke
<1>3. DataOK'
  <2> DEFINE e == call[c].sub.hash
  <2>1. \/ grants' = grants
        \/ /\ grants[e] = "AUTHORIZED"
           /\ grants' = [grants EXCEPT ![e] = "REVOKED"]
    BY DEF Revoke
  <2>2. grants' \in [Envelope -> GrantState]
        /\ \A x \in Envelope : grants'[x] = "CONSUMED" <=> grants[x] = "CONSUMED"
    BY <2>1 DEF LInv, DataOK, GrantState
  <2> QED
    BY <2>2 DEF LInv, DataOK, ConsumedOnce, GrantsMatchLedger, Revoke
<1> QED
  BY <1>1, <1>2, <1>3 DEF LInv

(* The call at the hook read the epoch while it held the lock.             *)
LEMMA DeriveLInv ==
  ASSUME LInv, NEW c \in Caller, Derive(c)
  PROVE  LInv'
<1>1. c \in readers /\ pc[c] = "epoch" /\ c \in Proc /\ UNCHANGED dataVars
  BY DEF Derive, Holds, Proc
<1>2. DataOK'
  BY <1>1, DataStays DEF LInv
<1>3. CASE Derivable(Ref(c))
  <2>1. /\ pc' = [pc EXCEPT ![c] = "hook"]
        /\ call' = [call EXCEPT ![c].epoch = epoch]
        /\ UNCHANGED lockVars
    BY <1>3 DEF Derive
  <2>2. call[c] \in Call /\ epoch \in Epoch
    BY <1>1 DEF LInv, LocksOK, DataOK
  <2>3. call' = [call EXCEPT ![c] = [call[c] EXCEPT !.epoch = epoch]]
    BY <2>1
  <2>4. [call[c] EXCEPT !.epoch = epoch] \in Call
        /\ [call[c] EXCEPT !.epoch = epoch].sub = call[c].sub
        /\ [call[c] EXCEPT !.epoch = epoch].epoch = epoch
    BY <2>2 DEF Call
  <2>5. pc' \in [Proc -> {"idle", "mutex", "epoch", "hook"}] /\ call' \in [Proc -> Call]
    BY <2>1, <2>3, <2>4 DEF LInv, LocksOK
  <2>6. call'[c].epoch = epoch
        /\ \A x \in Caller : /\ call'[x].sub = call[x].sub
                             /\ x # c => pc'[x] = pc[x] /\ call'[x] = call[x]
    BY <2>1, <2>3, <2>4, <1>1 DEF LInv, LocksOK, Proc
  <2>7. MutexInOrder'
    <3>1. ASSUME NEW x \in Caller, pc'[x] # "idle"
          PROVE  /\ call'[x].sub \in Submission
                 /\ \E i \in 1 .. Len(mutex[call'[x].sub.ref]) : mutex[call'[x].sub.ref][i] = x
                 /\ pc'[x] # "mutex" => mutex[call'[x].sub.ref][1] = x
      <4>1. call'[x].sub = call[x].sub
        BY <2>6
      <4>2. pc[x] # "idle" /\ (pc'[x] # "mutex" => pc[x] # "mutex")
        BY <3>1, <1>1, <2>6
      <4> QED
        BY <4>1, <4>2 DEF LInv, LocksOK, MutexInOrder, Ref
    <3> QED
      BY <3>1, <2>1 DEF MutexInOrder, Ref, lockVars
  <2>8. HookReads'
    BY <2>1, <2>6, <1>1 DEF LInv, HookReads, lockVars, dataVars
  <2> QED
    BY <1>2, <2>1, <2>5, <2>7, <2>8 DEF LInv, LocksOK, OneKindHolds, lockVars
<1>4. CASE ~Derivable(Ref(c))
  <2>1. LocksOK' /\ HooksStay
    BY <1>1, <1>4, EndsKeeps DEF Derive, LInv
  <2> QED
    BY <1>1, <1>2, <2>1, HooksKeep DEF LInv, dataVars
<1> QED
  BY <1>3, <1>4

LEMMA ConsumeLInv ==
  ASSUME LInv, NEW c \in Caller, Consume(c)
  PROVE  LInv'
<1> USE LedgerAssumption
<1> DEFINE e == [auth |-> Ref(c), epoch |-> call[c].epoch]
<1>0. /\ pc[c] = "hook" /\ c \in Proc
      /\ Ref(c) \in Auth /\ call[c] \in Call /\ call[c].epoch \in Epoch
      /\ e \in Envelope /\ e.auth = Ref(c)
  BY RefOfCall DEF Consume, Proc, LInv, LocksOK, Call, Envelope
<1>1. LocksOK' /\ HooksStay
  BY <1>0, EndsKeeps DEF Consume, LInv
<1>2. HookReads'
  BY <1>1, HooksKeep DEF LInv, Consume
<1>3. DataOK'
  <2>1. CASE UNCHANGED <<grants, consumed, allowed>>
    <3>1. UNCHANGED dataVars
      BY <2>1 DEF Consume, dataVars
    <3> QED
      BY <3>1, DataStays DEF LInv
  <2>2. CASE /\ Consumable(c, e)
             /\ grants' = GrantUsed(e)
             /\ consumed' = consumed \cup {e.auth}
             /\ allowed' = [allowed EXCEPT ![e.auth] =
                               Append(@, [env |-> call[c].sub.hash, fence |-> fenced])]
    <3> DEFINE a == e.auth
               n == [env |-> e, fence |-> fenced]
    <3>1. a \in Auth /\ a \notin consumed /\ allowed[a] \in Seq(Consumption) /\ Len(allowed[a]) = 0
      BY <1>0, <2>2 DEF Consumable, LInv, DataOK, ConsumedOnce
    <3>2. n \in Consumption
      BY <1>0 DEF LInv, DataOK, Consumption
    <3>3. allowed' = [allowed EXCEPT ![a] = Append(allowed[a], n)]
      BY <2>2 DEF Consumable
    <3> HIDE DEF n
    <3>4. Append(allowed[a], n) \in Seq(Consumption) /\ Len(Append(allowed[a], n)) = 1
          /\ Append(allowed[a], n)[1] = n
      BY <3>1, <3>2
    <3>5. /\ allowed' \in [Auth -> Seq(Consumption)]
          /\ allowed'[a] = Append(allowed[a], n)
          /\ \A x \in Auth \ {a} : allowed'[x] = allowed[x]
      BY <3>1, <3>3, <3>4 DEF LInv, DataOK
    <3>6. consumed' \in SUBSET Auth /\ ConsumedOnce'
      <4>1. consumed \in SUBSET Auth /\ ConsumedOnce
        BY DEF LInv, DataOK
      <4>2. consumed' = consumed \cup {a}
        BY <2>2
      <4>3. consumed' \in SUBSET Auth
        BY <3>1, <4>1, <4>2
      <4>4. ConsumedOnce'
        BY <3>4, <3>5, <4>1, <4>2 DEF ConsumedOnce
      <4> QED
        BY <4>3, <4>4
    <3>7. grants' \in [Envelope -> GrantState]
      BY <1>0, <2>2 DEF GrantUsed, LInv, DataOK, GrantState
    <3>8. GrantsMatchLedger'
      <4>1. ASSUME NEW x \in Envelope
            PROVE  grants'[x] = "CONSUMED" <=>
                     /\ x.auth \in Human
                     /\ \E i \in 1 .. Len(allowed'[x.auth]) : allowed'[x.auth][i].env = x
        <5>0. x.auth \in Auth
          BY DEF Envelope
        <5>1. grants[x] = "CONSUMED" <=>
                /\ x.auth \in Human
                /\ \E i \in 1 .. Len(allowed[x.auth]) : allowed[x.auth][i].env = x
          BY DEF LInv, DataOK, GrantsMatchLedger
        <5>2. CASE x.auth # a
          <6>1. grants'[x] = grants[x]
            BY <5>2, <2>2, <1>0 DEF GrantUsed, LInv, DataOK
          <6> QED
            BY <6>1, <5>0, <5>1, <5>2, <3>5
        <5>3. CASE x.auth = a
          <6>1. grants[x] # "CONSUMED"
            BY <5>1, <5>3, <3>1
          <6>2. (\E i \in 1 .. Len(allowed'[x.auth]) : allowed'[x.auth][i].env = x) <=> e = x
            BY <5>3, <3>4, <3>5 DEF n
          <6>3. grants'[x] = "CONSUMED" <=> a \in Human /\ e = x
            BY <6>1, <2>2, <1>0 DEF GrantUsed, LInv, DataOK
          <6> QED
            BY <6>2, <6>3, <5>3
        <5> QED
          BY <5>2, <5>3
      <4> QED
        BY <4>1 DEF GrantsMatchLedger
    <3> QED
      BY <3>5, <3>6, <3>7, <3>8 DEF LInv, DataOK, Consume
  <2> QED
    BY <2>1, <2>2 DEF Consume
<1> QED
  BY <1>1, <1>2, <1>3 DEF LInv

(* A bump holds the lock alone, so that no call is at the hook.            *)
LEMMA BumpLInv ==
  ASSUME LInv, NEW c \in Bumper, Bump(c)
  PROVE  LInv'
<1> USE LedgerAssumption
<1>1. LocksOK' /\ HooksStay
  BY EndsKeeps DEF Bump, LInv, Proc
<1>2. readers = {}
  BY DEF Bump, LInv, LocksOK, OneKindHolds
<1>3. HookReads'
  BY <1>1, <1>2 DEF LInv, HookReads, HooksStay
<1>4. epoch' \in Epoch /\ fenced' \in Epoch
  BY DEF Bump, LInv, LocksOK, DataOK, Call, Proc
<1>5. DataOK'
  BY <1>4 DEF LInv, DataOK, Bump, ConsumedOnce, GrantsMatchLedger
<1> QED
  BY <1>1, <1>3, <1>5 DEF LInv

LEMMA SetContextLInv ==
  ASSUME LInv, NEW x \in Context, SetContext(x)
  PROVE  LInv'
<1>1. UNCHANGED <<epoch, grants, consumed, allowed, fenced, lockVars, pc, call>>
  BY DEF SetContext
<1>2. LocksOK'
  BY <1>1 DEF LInv, LocksOK, MutexInOrder, OneKindHolds, Ref, lockVars
<1>3. DataOK'
  BY <1>1 DEF LInv, DataOK, ConsumedOnce, GrantsMatchLedger, SetContext
<1>4. HookReads'
  BY <1>1 DEF LInv, HookReads, lockVars
<1> QED
  BY <1>2, <1>3, <1>4 DEF LInv

-----------------------------------------------------------------------------
(* The invariant, and what follows from it.                                *)

LEMMA NextLInv == LInv /\ [LedgerNext]_ledgerVars => LInv'
<1> SUFFICES ASSUME LInv, [LedgerNext]_ledgerVars PROVE LInv'
  OBVIOUS
<1>1. ASSUME NEW c \in Caller, Lock(c) PROVE LInv'
  <2>1. LocksOK' /\ HooksStay /\ UNCHANGED dataVars
    BY <1>1, LockKeeps DEF LInv, Lock
  <2> QED
    BY <2>1, HooksKeep, DataStays DEF LInv, dataVars
<1>2. ASSUME NEW c \in Caller, NEW s \in Submission,
             NEW op \in {"consume", "issue", "revoke"}, Submit(c, op, s)
      PROVE  LInv'
  <2>1. LocksOK' /\ HooksStay /\ UNCHANGED dataVars
    BY <1>2, SubmitKeeps DEF LInv, Submit
  <2> QED
    BY <2>1, HooksKeep, DataStays DEF LInv, dataVars
<1>3. ASSUME NEW c \in Bumper, NEW e \in Epoch, RequestBump(c, e) PROVE LInv'
  <2>1. LocksOK' /\ HooksStay /\ UNCHANGED dataVars
    BY <1>3, RequestBumpKeeps DEF LInv, RequestBump
  <2> QED
    BY <2>1, HooksKeep, DataStays DEF LInv, dataVars
<1>4. CASE UNCHANGED ledgerVars
  <2>1. DataOK' /\ UNCHANGED <<lockVars, pc, call, epoch>>
    BY <1>4, DataStays DEF LInv, ledgerVars, dataVars
  <2> QED
    BY <2>1 DEF LInv, LocksOK, MutexInOrder, OneKindHolds, Ref, lockVars, HookReads
<1> QED
  BY <1>1, <1>2, <1>3, <1>4, IssueLInv, RevokeLInv, DeriveLInv, ConsumeLInv, BumpLInv,
     SetContextLInv DEF LedgerNext, CallStep

THEOREM LedgerInvariant == LedgerSpec => []LInv
  BY InitLInv, NextLInv, PTL DEF LedgerSpec

(* Every variable of the ledger keeps its type.                            *)
THEOREM LedgerTypes == LedgerSpec => []LedgerTypeOK
<1>1. LInv => LedgerTypeOK
  BY DEF LInv, LocksOK, DataOK, LedgerTypeOK
<1> QED
  BY <1>1, LedgerInvariant, PTL

(* Whatever calls and bumps are in progress, the epoch checkAndConsume     *)
(* read before its hook is the one in force after it.                      *)
THEOREM EpochIsHeld == LedgerSpec => []ReadersSeeTheEpoch
<1>1. LInv => ReadersSeeTheEpoch
  BY DEF LInv, LocksOK, OneKindHolds, HookReads, ReadersSeeTheEpoch
<1> QED
  BY <1>1, LedgerInvariant, PTL

(* ALLOW_ONCE is answered at most once for a decision, and is on record.   *)
THEOREM AllowedOnce == LedgerSpec => []ConsumedOnce
<1>1. LInv => ConsumedOnce
  BY DEF LInv, DataOK
<1> QED
  BY <1>1, LedgerInvariant, PTL

(* A consumption that needs a human and a consumed grant come in pairs.    *)
THEOREM GrantsAccountFor == LedgerSpec => []GrantsMatchLedger
<1>1. LInv => GrantsMatchLedger
  BY DEF LInv, DataOK
<1> QED
  BY <1>1, LedgerInvariant, PTL

(* A grant is issued once, and then consumed or revoked, not both.         *)
THEOREM GrantsDoNotReturn == LedgerSpec => GrantsMoveForward
<1> DEFINE Forward ==
      \A e \in Envelope :
        \/ grants'[e] = grants[e]
        \/ grants[e] = "NONE" /\ grants'[e] = "AUTHORIZED"
        \/ grants[e] = "AUTHORIZED" /\ grants'[e] \in {"CONSUMED", "REVOKED"}
<1>1. ASSUME LInv, NEW c \in Caller, Issue(c) PROVE Forward
  BY <1>1 DEF LInv, DataOK, Issue
<1>2. ASSUME LInv, NEW c \in Caller, Revoke(c) PROVE Forward
  BY <1>2 DEF LInv, DataOK, Revoke
<1>3. ASSUME LInv, NEW c \in Caller, Consume(c) PROVE Forward
  BY <1>3 DEF LInv, DataOK, Consume, Consumable, Approved, GrantUsed
<1>4. LInv /\ [LedgerNext]_ledgerVars => [Forward]_ledgerVars
  <2> SUFFICES ASSUME LInv, LedgerNext PROVE Forward
    OBVIOUS
  <2>1. CASE UNCHANGED grants
    BY <2>1
  <2>2. CASE ~UNCHANGED grants
    BY <2>2, <1>1, <1>2, <1>3 DEF LedgerNext, CallStep, Lock, Derive, Submit, Bump, RequestBump,
       SetContext, dataVars
  <2> QED
    BY <2>1, <2>2
<1> QED
  BY <1>4, LedgerInvariant, PTL DEF LedgerSpec, GrantsMoveForward

-----------------------------------------------------------------------------
(* One bump at a time.  Two that are called together may be carried out in *)
(* the order that lowers the epoch; a single one cannot.                   *)

(* A bump that is in progress holds the lock or waits once, not both.      *)
BumpsInOrder ==
  /\ writer # NoOne => pc[writer] = "epoch"
  /\ \A i \in 1 .. Len(queue) : queue[i] \in Bumper => pc[queue[i]] = "epoch" /\ queue[i] # writer
  /\ \A i, j \in 1 .. Len(queue) : queue[i] \in Bumper /\ queue[i] = queue[j] => i = j

(* The last bump is the highest, and one in progress is higher.            *)
BumpsAhead ==
  /\ fenced = epoch
  /\ \A b \in Bumper : pc[b] = "epoch" => call[b].epoch > epoch

FInv == LInv /\ BumpsInOrder /\ BumpsAhead /\ FencedNeverAllowed

(* Draining keeps the bumps in order.                                      *)
LEMMA DrainKeepsOrder ==
  ASSUME NEW q \in Seq(Proc), NEW r, NEW w, Drain(q, r, w),
         w # NoOne => pc'[w] = "epoch",
         \A i \in 1 .. Len(q) : q[i] \in Bumper => pc'[q[i]] = "epoch" /\ q[i] # w,
         \A i, j \in 1 .. Len(q) : q[i] \in Bumper /\ q[i] = q[j] => i = j
  PROVE  BumpsInOrder'
<1> DEFINE n == Entering(q, r, w)
           in == {q[i] : i \in 1 .. n}
<1>0. n \in 0 .. Len(q) /\ Len(q) \in Nat
  BY EnteringAdmits
<1>1. queue' = SubSeq(q, n + 1, Len(q))
      /\ writer' = IF \E c \in in : Writes(c) THEN q[1] ELSE w
  BY DEF Drain
<1>2. /\ queue' \in Seq(Proc) /\ Len(queue') = Len(q) - n
      /\ \A i \in 1 .. Len(q) - n : queue'[i] = q[i + n] /\ i + n \in 1 .. Len(q)
  BY <1>0, <1>1
<1>3. \/ writer' = w
      \/ n = 1 /\ writer' = q[1] /\ writer' \in Bumper
  <2>1. CASE n = 1 /\ Writes(q[1]) /\ r = {}
    <3>1. in = {q[1]}
      BY <2>1
    <3> QED
      BY <3>1, <2>1, <1>1 DEF Writes
  <2>2. CASE \A i \in 1 .. n : ~Writes(q[i])
    <3>1. \A c \in in : ~Writes(c)
      BY <2>2
    <3> QED
      BY <3>1, <1>1
  <2> QED
    BY <2>1, <2>2, EnteringAdmits
<1> HIDE DEF n, in
<1>4. ASSUME NEW i \in 1 .. Len(queue'), queue'[i] \in Bumper
      PROVE  pc'[queue'[i]] = "epoch" /\ queue'[i] # writer'
  <2>1. i + n \in 1 .. Len(q) /\ queue'[i] = q[i + n] /\ (n = 1 => i + n # 1)
    BY <1>0, <1>2
  <2> QED
    BY <2>1, <1>4, <1>3, <1>0
<1>5. ASSUME NEW i \in 1 .. Len(queue'), NEW j \in 1 .. Len(queue'),
             queue'[i] \in Bumper, queue'[i] = queue'[j]
      PROVE  i = j
  <2>1. i + n \in 1 .. Len(q) /\ queue'[i] = q[i + n] /\ j + n \in 1 .. Len(q) /\ queue'[j] = q[j + n]
    BY <1>2
  <2>2. i + n = j + n
    BY <2>1, <1>5
  <2> QED
    BY <2>2, <1>0, <1>2
<1>6. writer' # NoOne => pc'[writer'] = "epoch"
  BY <1>0, <1>3
<1> QED
  BY <1>4, <1>5, <1>6 DEF BumpsInOrder

LEMMA InitFInv == LedgerInit => FInv
<1> SUFFICES ASSUME LedgerInit PROVE FInv
  OBVIOUS
<1>1. BumpsInOrder /\ BumpsAhead /\ FencedNeverAllowed
  BY DEF LedgerInit, BumpsInOrder, BumpsAhead, FencedNeverAllowed, Proc
<1> QED
  BY <1>1, InitLInv DEF FInv

(* The end of a call that is not a bump.                                   *)
LEMMA CallerOrder ==
  ASSUME FInv, NEW c \in Caller, Ends(c), UNCHANGED <<epoch, fenced>>
  PROVE  BumpsInOrder' /\ BumpsAhead'
<1> USE LedgerAssumption
<1>1. /\ pc' = [pc EXCEPT ![c] = "idle"]
      /\ call' = [call EXCEPT ![c] = NoCall]
      /\ Drain(queue, readers \ {c}, writer)
  BY DEF Ends, FInv, LInv, LocksOK
<1>2. \A b \in Bumper : pc'[b] = pc[b] /\ call'[b] = call[b]
  BY <1>1 DEF FInv, LInv, LocksOK, Proc
<1>3. queue \in Seq(Proc)
  BY DEF FInv, LInv, LocksOK
<1>4. BumpsInOrder'
  <2>1. \A i \in 1 .. Len(queue) : queue[i] \in Bumper => pc'[queue[i]] = "epoch" /\ queue[i] # writer
    BY <1>2 DEF FInv, BumpsInOrder
  <2>2. \A i, j \in 1 .. Len(queue) : queue[i] \in Bumper /\ queue[i] = queue[j] => i = j
    BY DEF FInv, BumpsInOrder
  <2>3. writer # NoOne => pc'[writer] = "epoch"
    BY <1>2 DEF FInv, LInv, LocksOK, BumpsInOrder
  <2> QED
    BY <1>1, <1>3, <2>1, <2>2, <2>3, DrainKeepsOrder
<1>5. BumpsAhead'
  BY <1>2 DEF FInv, BumpsAhead
<1> QED
  BY <1>4, <1>5

LEMMA LockOrder ==
  ASSUME FInv, NEW c \in Caller, Lock(c)
  PROVE  BumpsInOrder' /\ BumpsAhead'
<1> USE LedgerAssumption
<1> DEFINE q == Append(queue, c)
<1>1. /\ pc' = [pc EXCEPT ![c] = "epoch"] /\ c \notin Bumper
      /\ UNCHANGED <<call, epoch, fenced>>
      /\ Drain(q, readers, writer)
  BY DEF Lock, dataVars
<1>2. \A b \in Bumper : pc'[b] = pc[b]
  BY <1>1 DEF FInv, LInv, LocksOK, Proc
<1>3. /\ q \in Seq(Proc) /\ Len(q) = Len(queue) + 1 /\ Len(queue) \in Nat
      /\ \A i \in 1 .. Len(queue) : q[i] = queue[i]
      /\ q[Len(queue) + 1] = c
  BY DEF FInv, LInv, LocksOK, Proc
<1>4. BumpsInOrder'
  <2>1. ASSUME NEW i \in 1 .. Len(q), q[i] \in Bumper
        PROVE  i \in 1 .. Len(queue) /\ q[i] = queue[i]
    BY <2>1, <1>1, <1>3
  <2>2. \A i \in 1 .. Len(q) : q[i] \in Bumper => pc'[q[i]] = "epoch" /\ q[i] # writer
    BY <2>1, <1>2 DEF FInv, BumpsInOrder
  <2>3. \A i, j \in 1 .. Len(q) : q[i] \in Bumper /\ q[i] = q[j] => i = j
    BY <2>1 DEF FInv, BumpsInOrder
  <2>4. writer # NoOne => pc'[writer] = "epoch"
    BY <1>2 DEF FInv, LInv, LocksOK, BumpsInOrder
  <2> HIDE DEF q
  <2> QED
    BY <1>1, <1>3, <2>2, <2>3, <2>4, DrainKeepsOrder
<1>5. BumpsAhead'
  BY <1>1, <1>2 DEF FInv, BumpsAhead
<1> QED
  BY <1>4, <1>5

LEMMA RequestBumpOrder ==
  ASSUME FInv, NEW c \in Bumper, NEW e \in Epoch, RequestBump(c, e)
  PROVE  BumpsInOrder' /\ BumpsAhead'
<1> USE LedgerAssumption
<1> DEFINE q == Append(queue, c)
<1>1. /\ pc[c] = "idle" /\ e > epoch /\ c \in Proc
      /\ pc' = [pc EXCEPT ![c] = "epoch"]
      /\ call' = [call EXCEPT ![c] = [NoCall EXCEPT !.op = "bump", !.epoch = e]]
      /\ UNCHANGED <<epoch, fenced>>
      /\ Drain(q, readers, writer)
  BY DEF RequestBump, dataVars, Proc
<1>2. /\ pc'[c] = "epoch" /\ call'[c].epoch = e
      /\ \A x \in Proc \ {c} : pc'[x] = pc[x] /\ call'[x] = call[x]
  BY <1>1 DEF FInv, LInv, LocksOK, NoCall
<1>3. /\ q \in Seq(Proc) /\ Len(q) = Len(queue) + 1 /\ Len(queue) \in Nat
      /\ \A i \in 1 .. Len(queue) : q[i] = queue[i]
      /\ q[Len(queue) + 1] = c
  BY <1>1 DEF FInv, LInv, LocksOK
<1>4. BumpsInOrder'
  <2>1. \A i \in 1 .. Len(queue) : queue[i] # c
    BY <1>1 DEF FInv, BumpsInOrder
  <2>2. writer # c /\ (writer # NoOne => pc'[writer] = "epoch")
    BY <1>1, <1>2 DEF FInv, LInv, LocksOK, BumpsInOrder, Proc
  <2>3. ASSUME NEW i \in 1 .. Len(q), q[i] \in Bumper
        PROVE  pc'[q[i]] = "epoch" /\ q[i] # writer
    <3>1. CASE i = Len(queue) + 1
      BY <3>1, <1>3, <1>2, <2>2
    <3>2. CASE i # Len(queue) + 1
      <4>1. i \in 1 .. Len(queue) /\ q[i] = queue[i]
        BY <3>2, <1>3
      <4> QED
        BY <4>1, <2>3, <2>1, <1>2 DEF FInv, BumpsInOrder, Proc
    <3> QED
      BY <3>1, <3>2
  <2>4. ASSUME NEW i \in 1 .. Len(q), NEW j \in 1 .. Len(q), q[i] \in Bumper, q[i] = q[j]
        PROVE  i = j
    <3>1. CASE i \in 1 .. Len(queue) /\ j \in 1 .. Len(queue)
      BY <3>1, <2>4, <1>3 DEF FInv, BumpsInOrder
    <3>2. CASE ~(i \in 1 .. Len(queue) /\ j \in 1 .. Len(queue))
      BY <3>2, <2>4, <2>1, <1>3
    <3> QED
      BY <3>1, <3>2
  <2> HIDE DEF q
  <2> QED
    BY <1>1, <1>3, <2>2, <2>3, <2>4, DrainKeepsOrder
<1>5. BumpsAhead'
  BY <1>1, <1>2 DEF FInv, BumpsAhead, Proc
<1> QED
  BY <1>4, <1>5

LEMMA BumpOrder ==
  ASSUME FInv, NEW c \in Bumper, \A b \in Bumper : b = c, Bump(c)
  PROVE  BumpsInOrder' /\ BumpsAhead'
<1> USE LedgerAssumption
<1>1. /\ writer = c /\ c \in Proc /\ pc[c] = "epoch"
      /\ epoch' = call[c].epoch
      /\ fenced' = IF epoch' > fenced THEN epoch' ELSE fenced
      /\ pc' = [pc EXCEPT ![c] = "idle"]
      /\ Drain(queue, readers \ {c}, NoOne)
  BY DEF Bump, Ends, Proc, FInv, BumpsInOrder
<1>2. \A i \in 1 .. Len(queue) : queue[i] \notin Bumper
  BY <1>1 DEF FInv, BumpsInOrder
<1>3. BumpsInOrder'
  BY <1>1, <1>2, DrainKeepsOrder DEF FInv, LInv, LocksOK
<1>4. BumpsAhead'
  <2>1. pc'[c] = "idle"
    BY <1>1 DEF FInv, LInv, LocksOK
  <2> QED
    BY <2>1, <1>1 DEF FInv, BumpsAhead
<1> QED
  BY <1>3, <1>4

(* What is consumed is bound to the epoch in force, the highest so far.    *)
LEMMA ConsumeFenced ==
  ASSUME FInv, NEW c \in Caller, Consume(c)
  PROVE  FencedNeverAllowed'
<1> DEFINE e == [auth |-> Ref(c), epoch |-> call[c].epoch]
<1>1. /\ pc[c] = "hook" /\ e \in Envelope /\ e.auth = Ref(c) /\ e.epoch = fenced
      /\ Ref(c) \in Auth /\ epoch \in Nat
  BY RefOfCall DEF Consume, FInv, LInv, LocksOK, DataOK, HookReads, BumpsAhead, Call, Envelope,
     Epoch, Proc
<1>2. CASE UNCHANGED allowed
  BY <1>2 DEF FInv, FencedNeverAllowed
<1>3. CASE /\ Consumable(c, e)
           /\ allowed' = [allowed EXCEPT ![e.auth] =
                             Append(@, [env |-> call[c].sub.hash, fence |-> fenced])]
  <2> DEFINE a == Ref(c)
             n == [env |-> e, fence |-> fenced]
  <2>1. allowed[a] \in Seq(Consumption) /\ allowed' = [allowed EXCEPT ![a] = Append(allowed[a], n)]
    BY <1>1, <1>3 DEF Consumable, FInv, LInv, DataOK
  <2>2. n \in Consumption
    BY <1>1 DEF FInv, LInv, DataOK, Consumption
  <2>3. n.env.auth = a /\ n.env.epoch >= n.fence
    BY <1>1 DEF FInv, BumpsAhead
  <2> HIDE DEF n
  <2>4. \A i \in 1 .. Len(Append(allowed[a], n)) :
          \/ Append(allowed[a], n)[i] = n
          \/ i \in 1 .. Len(allowed[a]) /\ Append(allowed[a], n)[i] = allowed[a][i]
    BY <2>1, <2>2
  <2>5. allowed'[a] = Append(allowed[a], n) /\ \A x \in Auth \ {a} : allowed'[x] = allowed[x]
    BY <2>1, <1>1 DEF FInv, LInv, DataOK
  <2>6. ASSUME NEW x \in Auth, NEW i \in 1 .. Len(allowed'[x])
        PROVE  allowed'[x][i].env.auth = x /\ allowed'[x][i].env.epoch >= allowed'[x][i].fence
    <3>1. CASE x = a
      BY <3>1, <2>3, <2>4, <2>5, <2>6 DEF FInv, FencedNeverAllowed
    <3>2. CASE x # a
      BY <3>2, <2>5, <2>6 DEF FInv, FencedNeverAllowed
    <3> QED
      BY <3>1, <3>2
  <2> QED
    BY <2>6 DEF FencedNeverAllowed
<1> QED
  BY <1>2, <1>3 DEF Consume

LEMMA OneBumpInv ==
  ASSUME \A x, y \in Bumper : x = y
  PROVE  LedgerSpec => []FInv
<1>1. FInv /\ [LedgerNext]_ledgerVars => FInv'
  <2> SUFFICES ASSUME FInv, [LedgerNext]_ledgerVars PROVE FInv'
    OBVIOUS
  <2>0. LInv'
    BY NextLInv DEF FInv
  <2>1. CASE UNCHANGED ledgerVars
    BY <2>0, <2>1 DEF FInv, BumpsInOrder, BumpsAhead, FencedNeverAllowed, ledgerVars, dataVars, lockVars
  <2>2. ASSUME NEW c \in Caller, Lock(c) PROVE FInv'
    BY <2>0, <2>2, LockOrder DEF FInv, FencedNeverAllowed, Lock, dataVars
  <2>3. ASSUME NEW c \in Caller, Issue(c) \/ Revoke(c) PROVE FInv'
    BY <2>0, <2>3, CallerOrder DEF FInv, FencedNeverAllowed, Issue, Revoke
  <2>4. ASSUME NEW c \in Caller, Derive(c) PROVE FInv'
    <3>1. CASE Derivable(Ref(c))
      <4>1. /\ UNCHANGED <<dataVars, lockVars>>
            /\ \A x \in Bumper : pc'[x] = pc[x] /\ call'[x] = call[x]
        BY <2>4, <3>1, LedgerAssumption DEF Derive, FInv, LInv, LocksOK, Proc
      <4>2. BumpsInOrder'
        BY <4>1 DEF FInv, LInv, LocksOK, BumpsInOrder, lockVars
      <4> QED
        BY <2>0, <4>1, <4>2 DEF FInv, BumpsAhead, FencedNeverAllowed, dataVars
    <3>2. CASE ~Derivable(Ref(c))
      BY <2>0, <2>4, <3>2, CallerOrder DEF FInv, FencedNeverAllowed, Derive, dataVars
    <3> QED
      BY <3>1, <3>2
  <2>5. ASSUME NEW c \in Caller, Consume(c) PROVE FInv'
    BY <2>0, <2>5, CallerOrder, ConsumeFenced DEF FInv, Consume
  <2>6. ASSUME NEW c \in Caller, NEW s, NEW op, Submit(c, op, s) PROVE FInv'
    <3>1. /\ UNCHANGED <<dataVars, queue, readers, writer>>
          /\ \A x \in Bumper : pc'[x] = pc[x] /\ call'[x] = call[x]
      BY <2>6, LedgerAssumption DEF Submit, FInv, LInv, LocksOK, Proc
    <3>2. BumpsInOrder'
      BY <3>1 DEF FInv, LInv, LocksOK, BumpsInOrder
    <3> QED
      BY <2>0, <3>1, <3>2 DEF FInv, BumpsAhead, FencedNeverAllowed, dataVars
  <2>7. ASSUME NEW c \in Bumper, Bump(c) PROVE FInv'
    BY <2>0, <2>7, BumpOrder DEF FInv, FencedNeverAllowed, Bump
  <2>8. ASSUME NEW c \in Bumper, NEW e \in Epoch, RequestBump(c, e) PROVE FInv'
    BY <2>0, <2>8, RequestBumpOrder DEF FInv, FencedNeverAllowed, RequestBump, dataVars
  <2>9. ASSUME NEW x \in Context, SetContext(x) PROVE FInv'
    BY <2>0, <2>9 DEF FInv, SetContext, BumpsInOrder, BumpsAhead, FencedNeverAllowed, lockVars
  <2> QED
    BY <2>1, <2>2, <2>3, <2>4, <2>5, <2>6, <2>7, <2>8, <2>9 DEF LedgerNext, CallStep
<1> QED
  BY <1>1, InitFInv, PTL DEF LedgerSpec

(* No envelope is consumed after a bump beyond the epoch it was bound to,  *)
(* if bumps come one at a time.                                            *)
THEOREM FencedStaysOut ==
  ASSUME \A x, y \in Bumper : x = y
  PROVE  LedgerSpec => []FencedNeverAllowed
<1>1. FInv => FencedNeverAllowed
  BY DEF FInv
<1> QED
  BY <1>1, OneBumpInv, PTL

-----------------------------------------------------------------------------
(* The ledger is a one-use ledger: what happens to its data under the two  *)
(* locks is, in one step, what the abstract ledger does.                   *)

Granted == {e \in Envelope : grants[e] = "AUTHORIZED"}
Closed == {e \in Envelope : grants[e] \in {"CONSUMED", "REVOKED"}}

(* One grant moves.                                                        *)
LEMMA GrantMoves ==
  ASSUME LInv, NEW e \in Envelope, NEW state \in GrantState,
         grants' = [grants EXCEPT ![e] = state]
  PROVE  /\ state = "AUTHORIZED" => /\ Granted' = Granted \cup {e}
                                    /\ e \notin Closed => Closed' = Closed
         /\ state \in {"CONSUMED", "REVOKED"} => Granted' = Granted \ {e} /\ Closed' = Closed \cup {e}
<1>1. /\ grants'[e] = state
      /\ \A x \in Envelope \ {e} : grants'[x] = grants[x]
  BY DEF LInv, DataOK
<1> QED
  BY <1>1 DEF Granted, Closed

LEMMA IssueMaps ==
  ASSUME LInv, NEW c \in Caller, Issue(c)
  PROVE  \/ \E v \in Envelope : OneUse!Issue(v)
         \/ UNCHANGED <<epoch, grants, consumed>>
<1>1. PICK e : e = Derived(Ref(c))
  OBVIOUS
<1>2. c \in Proc /\ pc[c] # "idle" /\ e \in Envelope /\ e.epoch = epoch
  BY <1>1, RefOfCall DEF Issue, Holds, LInv, DataOK, Derived, Envelope, Proc
<1>3. CASE grants[e] = "NONE" /\ grants' = [grants EXCEPT ![e] = "AUTHORIZED"]
  <2>1. /\ Granted' = Granted \cup {e} /\ Closed' = Closed /\ e \notin Granted \cup Closed
    BY <1>2, <1>3, GrantMoves DEF Granted, Closed, GrantState
  <2>2. OneUse!Issue(e)
    BY <1>2, <2>1 DEF OneUse!Issue, Granted, Closed, Issue
  <2> QED
    BY <1>2, <2>2
<1>4. CASE grants' = grants
  BY <1>4 DEF Issue
<1> QED
  BY <1>1, <1>3, <1>4 DEF Issue

LEMMA RevokeMaps ==
  ASSUME LInv, NEW c \in Caller, Revoke(c)
  PROVE  \/ \E v \in Envelope : OneUse!Revoke(v)
         \/ UNCHANGED <<epoch, grants, consumed>>
<1>1. PICK e : e = call[c].sub.hash
  OBVIOUS
<1>2. e \in Envelope
  BY <1>1, LedgerAssumption DEF Revoke, Holds, LInv, LocksOK, MutexInOrder
<1>3. CASE grants[e] = "AUTHORIZED" /\ grants' = [grants EXCEPT ![e] = "REVOKED"]
  <2>1. e \in Granted /\ Granted' = Granted \ {e} /\ Closed' = Closed \cup {e}
    BY <1>2, <1>3, GrantMoves DEF Granted, GrantState
  <2>2. OneUse!Revoke(e)
    BY <2>1 DEF OneUse!Revoke, Granted, Closed, Revoke
  <2> QED
    BY <1>2, <2>2
<1>4. CASE grants' = grants
  BY <1>4 DEF Revoke
<1> QED
  BY <1>1, <1>3, <1>4 DEF Revoke

(* What is consumed after the hook was derived before it: it is of the     *)
(* epoch in force, because the lock is held.                               *)
LEMMA ConsumeMaps ==
  ASSUME LInv, NEW c \in Caller, Consume(c)
  PROVE  \/ \E v \in Envelope : OneUse!Consume(v)
         \/ UNCHANGED <<epoch, grants, consumed>>
<1>1. PICK e : e = [auth |-> Ref(c), epoch |-> call[c].epoch]
  OBVIOUS
<1>2. /\ c \in Proc /\ pc[c] = "hook" /\ e \in Envelope /\ e.epoch = epoch
  BY <1>1, RefOfCall DEF Consume, LInv, LocksOK, DataOK, HookReads, Call, Envelope, Proc
<1>3. CASE /\ Consumable(c, e) /\ grants' = GrantUsed(e) /\ consumed' = consumed \cup {e.auth}
  <2>1. e.auth \notin consumed /\ (e.auth \in Human => grants[e] = "AUTHORIZED")
    BY <1>3 DEF Consumable, Approved
  <2>2. CASE e.auth \in Human
    <3>1. grants' = [grants EXCEPT ![e] = "CONSUMED"]
      BY <1>3, <2>2 DEF GrantUsed
    <3>2. e \in Granted /\ Granted' = Granted \ {e} /\ Closed' = Closed \cup {e}
      BY <1>2, <2>1, <2>2, <3>1, GrantMoves DEF Granted, GrantState
    <3>3. OneUse!Consume(e)
      BY <1>2, <1>3, <2>1, <2>2, <3>2
      DEF OneUse!Consume, OneUse!Allowed, HumanNeeded, Granted, Closed, Consume
    <3> QED
      BY <1>2, <3>3
  <2>3. CASE e.auth \notin Human
    <3>1. grants' = grants
      BY <1>3, <2>3 DEF GrantUsed
    <3>2. OneUse!Consume(e)
      BY <1>2, <1>3, <2>1, <2>3, <3>1
      DEF OneUse!Consume, OneUse!Allowed, HumanNeeded, Consume
    <3> QED
      BY <1>2, <3>2
  <2> QED
    BY <2>2, <2>3
<1>4. CASE UNCHANGED <<grants, consumed>>
  BY <1>4 DEF Consume
<1> QED
  BY <1>1, <1>3, <1>4 DEF Consume

(* A bump that comes alone is still the higher when it is carried out.     *)
LEMMA BumpMaps ==
  ASSUME FInv, NEW c \in Bumper, Bump(c)
  PROVE  OneUse!Bump
<1>1. pc[c] = "epoch" /\ c \in Proc
  BY LedgerAssumption DEF Bump, FInv, BumpsInOrder, Proc
<1>2. epoch' = call[c].epoch /\ epoch' > epoch /\ epoch' \in Nat
  BY <1>1 DEF Bump, FInv, LInv, LocksOK, BumpsAhead, Call, Epoch
<1> QED
  BY <1>2 DEF OneUse!Bump, Bump

(* However calls interleave on the two locks, and whatever happens at the  *)
(* hook, each change of the ledger's data is one atomic issue, revocation, *)
(* consumption or bump of the abstract ledger, if bumps come one at a time.*)
THEOREM LedgerIsOneUse ==
  ASSUME \A x, y \in Bumper : x = y
  PROVE  LedgerSpec => OneUseSpec
<1>1. LedgerInit => OneUse!Init
  BY DEF LedgerInit, OneUse!Init
<1>2. FInv /\ [LedgerNext]_ledgerVars => [OneUse!Next]_(OneUse!ledgerVars)
  <2> SUFFICES ASSUME FInv, [LedgerNext]_ledgerVars
               PROVE  OneUse!Next \/ UNCHANGED OneUse!ledgerVars
    OBVIOUS
  <2>1. CASE UNCHANGED <<epoch, grants, consumed>>
    BY <2>1 DEF OneUse!ledgerVars
  <2>2. ASSUME NEW c \in Caller, Issue(c) \/ Revoke(c) \/ Consume(c)
        PROVE  OneUse!Next \/ UNCHANGED <<epoch, grants, consumed>>
    BY <2>2, IssueMaps, RevokeMaps, ConsumeMaps DEF FInv, OneUse!Next
  <2>3. ASSUME NEW c \in Bumper, Bump(c)
        PROVE  OneUse!Next
    BY <2>3, BumpMaps DEF OneUse!Next
  <2> QED
    BY <2>1, <2>2, <2>3
    DEF LedgerNext, CallStep, Lock, Derive, Submit, RequestBump, SetContext, dataVars, ledgerVars
<1> QED
  BY <1>1, <1>2, OneBumpInv, PTL DEF LedgerSpec, OneUseSpec, OneUse!Spec

(* A bump that is carried out increases the epoch, as the method's comment *)
(* says, if bumps come one at a time: what refutes it is nothing but a     *)
(* second bump asked for while one waits, since the epoch asked for is     *)
(* compared before the lock and not again under it.                        *)
THEOREM BumpsIncreaseAlone ==
  ASSUME \A x, y \in Bumper : x = y
  PROVE  LedgerSpec => BumpsIncrease
<1>1. FInv /\ [LedgerNext]_ledgerVars => [epoch' # epoch => epoch' > epoch]_ledgerVars
  <2> SUFFICES ASSUME FInv, [LedgerNext]_ledgerVars, epoch' # epoch
               PROVE  epoch' > epoch
    OBVIOUS
  <2>1. ASSUME NEW c \in Bumper, Bump(c)
        PROVE  epoch' > epoch
    BY <2>1, BumpMaps DEF OneUse!Bump
  <2> QED
    BY <2>1
    DEF LedgerNext, CallStep, Lock, Issue, Revoke, Derive, Consume, Submit, RequestBump, SetContext,
        dataVars, ledgerVars
<1> QED
  BY <1>1, OneBumpInv, PTL DEF LedgerSpec, BumpsIncrease
=============================================================================
