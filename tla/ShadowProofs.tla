---------------------------- MODULE ShadowProofs ----------------------------
(***************************************************************************)
(* Proofs about run bundles and the exercises that write them, for any run *)
(* ids, task records, operators' notes, requests, seatings and number of   *)
(* exercises.                                                              *)
(*                                                                         *)
(* A call of the compiler knows the bundle it opened until it has replaced *)
(* it: calls follow one another, and nobody else writes the documents.     *)
(***************************************************************************)
EXTENDS ShadowCouncil, TLAPS

DocName == {"task", "evidence", "manifest"}
Active == call.pc \in {"verify", "write"}

(* The documents are created in their order.                               *)
FilesOK ==
  /\ files = [d \in DocName |-> files[d]]
  /\ \A d \in DocName : \/ files[d] = Absent \/ files[d] = Torn
                        \/ files[d] = Document(files[d].content)
  /\ files["evidence"] # Absent => IsDocument(files["task"])
  /\ files["manifest"] # Absent => IsDocument(files["evidence"])

CallOK ==
  /\ call = [by |-> call.by, pc |-> call.pc, run |-> call.run, task |-> call.task,
             add |-> call.add, final |-> call.final, existing |-> call.existing,
             next |-> call.next, at |-> call.at, created |-> call.created]
  /\ call.pc \in {"idle", "verify", "write", "ok", "blocked"}
  /\ call.at \in {1, 2, 3, 4} /\ call.created \in BOOLEAN
  /\ call.pc # "write" => call.at = 1 /\ ~call.created
  /\ Active => \/ call.existing = Absent
               \/ /\ IsDocument(call.existing) /\ call.existing # Absent
                  /\ call.existing.content.status # "FINALIZED"
  /\ Active /\ call.at <= 3 /\ ~(call.created /\ call.at = 3) => files["manifest"] = call.existing
  /\ call.created => call.at <= 3 /\ call.existing = Absent /\ files[Documents[call.at]] = Torn

(* How far a writing call is, and what it replaces.                        *)
WriteOK ==
  call.pc = "write" =>
    /\ call.add \subseteq call.next
    /\ call.at >= 2 => files["task"] = Document(call.task)
    /\ call.at >= 3 => files["evidence"] = Document(call.next)
    /\ call.at = 4 => files["manifest"] = Document(Compiled("manifest"))
    /\ call.existing = Absent => call.next = call.add
    /\ call.existing # Absent /\ call.at <= 2 =>
         call.next = Entries \cup call.add /\ Unique(Entries, call.add)
    /\ call.existing # Absent /\ call.at = 1 => Whole

(* A finalized bundle is whole, and nobody is about to write to it.        *)
FinalOK ==
  /\ Finalized => Whole /\ (Active => call.pc = "write" /\ call.at = 4)
  /\ reader # Absent => Finalized /\ reader = files["manifest"]
  /\ \A m \in reports : Finalized /\ m = files["manifest"]

BundleInv == FilesOK /\ CallOK /\ WriteOK /\ FinalOK /\ AckedIsKept

(* Ends(result) as a record.                                               *)
Ended(b, result) ==
  [by |-> b, pc |-> result, run |-> Nobody, task |-> Nobody, add |-> {}, final |-> FALSE,
   existing |-> Absent, next |-> {}, at |-> 1, created |-> FALSE]

Returns == call' = NoCall /\ UNCHANGED <<files, reader, reports, acked>>

-----------------------------------------------------------------------------
(* Every step keeps it.                                                    *)

LEMMA BundleInitially ==
  ASSUME BundleInit
  PROVE  BundleInv
<1> USE DEF BundleInit, Absent, IsDocument
<1>1. /\ files = [d \in DocName |-> files[d]] /\ \A d \in DocName : files[d] = Absent
      /\ ~IsDocument(files["manifest"])
  BY DEF DocName
<1>2. FilesOK
  BY <1>1 DEF FilesOK, DocName
<1>3. CallOK /\ WriteOK
  BY DEF NoCall, CallOK, WriteOK, Active
<1>4. FinalOK /\ AckedIsKept
  BY <1>1 DEF FinalOK, AckedIsKept, Finalized
<1> QED
  BY <1>2, <1>3, <1>4 DEF BundleInv

LEMMA BundleStutter ==
  ASSUME BundleInv, UNCHANGED <<files, call, reader, reports, acked>>
  PROVE  BundleInv'
<1> USE DEF BundleInv
<1>1. FilesOK'
  BY DEF FilesOK, Absent, Torn, Document, IsDocument
<1>2. CallOK'
  BY DEF CallOK, Active, Absent, Torn, IsDocument
<1>3. Entries' = Entries /\ Whole' = Whole /\ Finalized' = Finalized /\ Compiled("manifest")' = Compiled("manifest")
  BY DEF Entries, Whole, Finalized, Document, IsDocument, Compiled
<1>4. WriteOK'
  BY <1>3 DEF WriteOK, Absent, Document, Unique
<1>5. FinalOK' /\ AckedIsKept'
  BY <1>3 DEF FinalOK, AckedIsKept, Active, Absent
<1> QED
  BY <1>1, <1>2, <1>4, <1>5

LEMMA OpenKeeps ==
  ASSUME BundleInv, NEW w, NEW run, NEW t, NEW add, NEW final, Open(w, run, t, add, final)
  PROVE  BundleInv'
<1> USE DEF BundleInv
<1>1. /\ call' = [by |-> w, pc |-> IF files["manifest"] = Torn \/ Finalized THEN "blocked" ELSE "verify",
                  run |-> run, task |-> t, add |-> add, final |-> final,
                  existing |-> files["manifest"], next |-> {}, at |-> 1, created |-> FALSE]
      /\ UNCHANGED <<files, reader, reports, acked>>
  BY DEF Open, NoCall
<1>2. FilesOK'
  BY <1>1 DEF FilesOK, Absent, Torn, Document, IsDocument
<1>3. CallOK'
  <2>1. files["manifest"] = Absent \/ files["manifest"] = Torn \/ IsDocument(files["manifest"])
    BY DEF FilesOK, DocName, IsDocument, Document
  <2>2. IsDocument(files["manifest"]) => files["manifest"] # Absent
    BY DEF IsDocument, Absent
  <2>3. call'.pc = "verify" => files["manifest"] # Torn /\ ~Finalized
    BY <1>1
  <2> QED
    BY <1>1, <2>1, <2>2, <2>3 DEF CallOK, Active, Finalized, IsDocument, Absent
<1>4. Finalized' = Finalized /\ Whole' = Whole /\ Entries' = Entries
  BY <1>1 DEF Finalized, Whole, Entries, IsDocument, Document
<1>5. WriteOK'
  BY <1>1 DEF WriteOK
<1>6. FinalOK' /\ AckedIsKept'
  BY <1>1, <1>4 DEF FinalOK, AckedIsKept, Active, Absent
<1> QED
  BY <1>2, <1>3, <1>5, <1>6

(* A call that has ended, or is gone, claims nothing.                      *)
LEMMA EndKeeps ==
  ASSUME BundleInv, NEW b, NEW pc \in {"idle", "ok", "blocked"},
         call' = Ended(b, pc),
         UNCHANGED <<files, reader, reports>>, acked' \subseteq Entries
  PROVE  BundleInv'
<1> USE DEF BundleInv
<1>1. /\ call'.pc = pc /\ call'.pc \notin {"verify", "write"}
      /\ call'.at = 1 /\ call'.created = FALSE
  BY DEF Ended
<1>2. FilesOK'
  BY DEF FilesOK, Absent, Torn, Document, IsDocument
<1>3. CallOK' /\ WriteOK'
  <2>1. CallOK'
    BY <1>1 DEF CallOK, Active, Ended
  <2> QED
    BY <1>1, <2>1 DEF WriteOK
<1>4. Finalized' = Finalized /\ Whole' = Whole /\ Entries' = Entries
  BY DEF Finalized, Whole, Entries, IsDocument, Document
<1>5. FinalOK' /\ AckedIsKept'
  BY <1>1, <1>4 DEF FinalOK, AckedIsKept, Active, Absent
<1> QED
  BY <1>2, <1>3, <1>5

LEMMA ReturnsKeeps ==
  ASSUME BundleInv, Returns
  PROVE  BundleInv'
<1>1. call' = Ended(Nobody, "idle")
  BY DEF Returns, NoCall, Ended
<1> QED
  BY <1>1, EndKeeps DEF Returns, BundleInv, AckedIsKept

LEMMA WriteFailsKeeps ==
  ASSUME BundleInv, WriteFails
  PROVE  BundleInv'
<1>1. call' = Ended(call.by, "blocked")
  BY DEF WriteFails, Ends, NoCall, Ended
<1> QED
  BY <1>1, EndKeeps DEF WriteFails, BundleInv, AckedIsKept

LEMMA WrittenKeeps ==
  ASSUME BundleInv, Written
  PROVE  BundleInv'
<1> USE DEF BundleInv
<1>1. call' = Ended(call.by, "ok")
  BY DEF Written, Ends, NoCall, Ended
<1>2. call.pc = "write" /\ call.at = 4
  BY DEF Written, CallOK, Documents
<1>3. Entries = call.next
  BY <1>2 DEF WriteOK, Entries, Document, IsDocument
<1>4. acked' \subseteq Entries
  BY <1>2, <1>3 DEF Written, WriteOK, AckedIsKept
<1> QED
  BY <1>1, <1>4, EndKeeps DEF Written

LEMMA VerifyKeeps ==
  ASSUME BundleInv, Verify
  PROVE  BundleInv'
<1> USE DEF BundleInv
<1>1. call.pc = "verify" /\ call.at = 1 /\ ~call.created /\ files["manifest"] = call.existing
  BY DEF Verify, CallOK, Active
<1>2. CASE Ends("blocked")
  <2>1. call' = Ended(call.by, "blocked")
    BY <1>2 DEF Ends, NoCall, Ended
  <2> QED
    BY <2>1, EndKeeps DEF Verify, AckedIsKept
<1>3. CASE ~Ends("blocked")
  <2> DEFINE new == call.existing = Absent
             old == IF new THEN {} ELSE Entries
  <2>1. /\ call' = [call EXCEPT !.pc = "write", !.next = Keeping(old, call.add)]
        /\ ~new => Refers(call.existing.content)
        /\ Unique(old, call.add)
    BY <1>3 DEF Verify
  <2>2. call' = [by |-> call.by, pc |-> "write", run |-> call.run, task |-> call.task,
                 add |-> call.add, final |-> call.final, existing |-> call.existing,
                 next |-> old \cup call.add, at |-> call.at, created |-> call.created]
    BY <2>1 DEF CallOK, Keeping
  <2>3. UNCHANGED <<files, reader, reports, acked>>
    BY DEF Verify
  <2> HIDE DEF old, new
  <2>4. FilesOK'
    BY <2>3 DEF FilesOK, Absent, Torn, Document, IsDocument
  <2>5. CallOK'
    BY <1>1, <2>2, <2>3 DEF CallOK, Active, Absent, Torn, IsDocument
  <2>6. Finalized' = Finalized /\ Whole' = Whole /\ Entries' = Entries
    BY <2>3 DEF Finalized, Whole, Entries, IsDocument, Document
  <2>7. ~new => Whole
    BY <1>1, <2>1 DEF new, Whole, Refers, CallOK, Active
  <2>8. WriteOK'
    <3>1. /\ call'.at = 1 /\ call'.existing = call.existing /\ call'.add = call.add
          /\ call'.next = old \cup call.add
      BY <1>1, <2>2
    <3>2. call.existing = Absent => call'.next = call.add
      BY <3>1 DEF new, old
    <3>3. call.existing # Absent => call'.next = Entries \cup call.add /\ Unique(Entries, call.add)
      BY <3>1, <2>1 DEF new, old
    <3>4. Unique(Entries, call.add) => Unique(Entries, call.add)'
      BY <3>1, <2>6 DEF Unique
    <3>5. Absent' = Absent
      BY DEF Absent
    <3> QED
      BY <3>1, <3>2, <3>3, <3>4, <3>5, <2>6, <2>7 DEF WriteOK, new
  <2>9. ~Finalized
    BY <1>1 DEF FinalOK, Active
  <2>10. FinalOK' /\ AckedIsKept'
    BY <2>3, <2>6, <2>9 DEF FinalOK, AckedIsKept, Absent
  <2> QED
    BY <2>4, <2>5, <2>8, <2>10
<1> QED
  BY <1>2, <1>3

(* Until the manifest is replaced, a bundle that is written to is not      *)
(* finalized, and nobody has read it as one that is.                       *)
LEMMA WritingIsOpen ==
  ASSUME BundleInv, call.pc = "write", call.at <= 3
  PROVE  ~Finalized /\ reader = Absent /\ reports = {}
  BY DEF BundleInv, FinalOK, Active

LEMMA FilledKeeps ==
  ASSUME BundleInv, call.pc = "write", call.at <= 3, Filled(Documents[call.at]),
         call.existing # Absent \/ call.created, UNCHANGED <<reader, reports, acked>>
  PROVE  BundleInv'
<1> USE DEF BundleInv
<1>1. call' = [by |-> call.by, pc |-> "write", run |-> call.run, task |-> call.task,
               add |-> call.add, final |-> call.final, existing |-> call.existing,
               next |-> call.next, at |-> call.at + 1, created |-> FALSE]
  BY DEF Filled, CallOK
<1>2. ~Finalized /\ reader = Absent /\ reports = {}
  BY WritingIsOpen
<1>3. Absent' = Absent /\ Torn' = Torn
  BY DEF Absent, Torn
<1>4. call'.existing = call.existing /\ call'.next = call.next /\ call'.add = call.add
      /\ call'.task = call.task /\ call'.final = call.final /\ call'.run = call.run
      /\ call'.pc = "write" /\ call'.created = FALSE
  BY <1>1
<1>5. call.add \subseteq call.next /\ (call.existing = Absent => call.next = call.add)
  BY DEF WriteOK
<1>6. CASE call.at = 1
  <2>1. Documents[call.at] = "task" /\ call'.at = 2 /\ Compiled("task") = call.task
    BY <1>1, <1>6 DEF Documents, Compiled
  <2>2. files' = [files EXCEPT !["task"] = Document(call.task)]
    BY <2>1 DEF Filled
  <2>3. /\ files' = [d \in DocName |-> files'[d]] /\ files'["task"] = Document(call.task)
        /\ files'["evidence"] = files["evidence"] /\ files'["manifest"] = files["manifest"]
    BY <2>2 DEF FilesOK, DocName
  <2>4. FilesOK'
    BY <2>3, <1>3 DEF FilesOK, DocName, Document, IsDocument
  <2>5. CallOK'
    <3>1. files["manifest"] = call.existing
      BY <1>6 DEF CallOK, Active
    <3> QED
      BY <1>1, <1>3, <1>4, <2>1, <2>3, <3>1 DEF CallOK, Active, IsDocument
  <2>6. Finalized' = Finalized /\ Entries' = Entries
    BY <2>3 DEF Finalized, Entries, IsDocument
  <2>7. Unique(Entries, call.add) => Unique(Entries, call.add)'
    BY <2>6, <1>4 DEF Unique
  <2>8. WriteOK'
    BY <1>3, <1>4, <1>5, <1>6, <2>1, <2>3, <2>6, <2>7 DEF WriteOK, Document
  <2>9. FinalOK' /\ AckedIsKept'
    BY <1>2, <1>3, <2>6 DEF FinalOK, AckedIsKept
  <2> QED
    BY <2>4, <2>5, <2>8, <2>9
<1>7. CASE call.at = 2
  <2>1. Documents[call.at] = "evidence" /\ call'.at = 3 /\ Compiled("evidence") = call.next
    BY <1>1, <1>7 DEF Documents, Compiled
  <2>2. files' = [files EXCEPT !["evidence"] = Document(call.next)]
    BY <2>1 DEF Filled
  <2>3. /\ files' = [d \in DocName |-> files'[d]] /\ files'["evidence"] = Document(call.next)
        /\ files'["task"] = files["task"] /\ files'["manifest"] = files["manifest"]
    BY <2>2 DEF FilesOK, DocName
  <2>4. files["task"] = Document(call.task)
    BY <1>7 DEF WriteOK
  <2>5. FilesOK'
    BY <2>3, <2>4, <1>3 DEF FilesOK, DocName, Document, IsDocument
  <2>6. CallOK'
    <3>1. files["manifest"] = call.existing
      BY <1>7 DEF CallOK, Active
    <3> QED
      BY <1>1, <1>3, <1>4, <2>1, <2>3, <3>1 DEF CallOK, Active, IsDocument
  <2>7. Finalized' = Finalized /\ Entries' = call.next
    BY <2>3 DEF Finalized, Entries, IsDocument, Document
  <2>8. WriteOK'
    BY <1>3, <1>4, <1>5, <2>1, <2>3, <2>4 DEF WriteOK, Document
  <2>9. Entries \subseteq call.next
    <3>1. CASE call.existing # Absent
      BY <3>1, <1>7 DEF WriteOK
    <3>2. CASE call.created
      <4>1. files["evidence"] = Torn
        BY <3>2, <1>7, <2>1 DEF CallOK
      <4> QED
        BY <4>1 DEF Entries, IsDocument, Torn
    <3> QED
      BY <3>1, <3>2
  <2>10. FinalOK' /\ AckedIsKept'
    BY <1>2, <1>3, <2>7, <2>9 DEF FinalOK, AckedIsKept
  <2> QED
    BY <2>5, <2>6, <2>8, <2>10
<1>8. CASE call.at = 3
  <2> DEFINE m == [status |-> IF call.final THEN "FINALIZED" ELSE "OPEN",
                   run |-> call.run, task |-> call.task, evidence |-> call.next]
  <2>1. Documents[call.at] = "manifest" /\ call'.at = 4 /\ Compiled("manifest") = m
        /\ Compiled("manifest")' = m
    BY <1>1, <1>8 DEF Documents, Compiled
  <2>2. files' = [files EXCEPT !["manifest"] = Document(m)]
    BY <2>1 DEF Filled
  <2>3. /\ files' = [d \in DocName |-> files'[d]] /\ files'["manifest"] = Document(m)
        /\ files'["task"] = files["task"] /\ files'["evidence"] = files["evidence"]
    BY <2>2 DEF FilesOK, DocName
  <2>4. files["task"] = Document(call.task) /\ files["evidence"] = Document(call.next)
    BY <1>8 DEF WriteOK
  <2>5. Whole'
    BY <2>3, <2>4 DEF Whole, IsDocument, Document
  <2> HIDE DEF m
  <2>6. FilesOK'
    BY <2>3, <2>4, <1>3 DEF FilesOK, DocName, Document, IsDocument
  <2>7. CallOK'
    <3>1. call.existing = Absent \/ (IsDocument(call.existing) /\ call.existing # Absent
                                      /\ call.existing.content.status # "FINALIZED")
      BY DEF CallOK, Active
    <3> QED
      BY <1>1, <1>3, <1>4, <2>1, <3>1 DEF CallOK, Active, IsDocument
  <2>8. Entries' = Entries
    BY <2>3 DEF Entries, IsDocument
  <2>9. WriteOK'
    BY <1>3, <1>4, <1>5, <2>1, <2>3, <2>4 DEF WriteOK, Document
  <2>10. FinalOK' /\ AckedIsKept'
    BY <1>2, <1>3, <1>4, <2>1, <2>5, <2>8 DEF FinalOK, AckedIsKept
  <2> QED
    BY <2>6, <2>7, <2>9, <2>10
<1> QED
  BY <1>6, <1>7, <1>8 DEF CallOK

LEMMA CreatedKeeps ==
  ASSUME BundleInv, call.pc = "write", call.at <= 3, call.existing = Absent, ~call.created,
         files[Documents[call.at]] = Absent,
         files' = [files EXCEPT ![Documents[call.at]] = Torn],
         call' = [call EXCEPT !.created = TRUE], UNCHANGED <<reader, reports, acked>>
  PROVE  BundleInv'
<1> USE DEF BundleInv
<1> DEFINE d == Documents[call.at]
<1>1. /\ call' = [by |-> call.by, pc |-> "write", run |-> call.run, task |-> call.task,
                  add |-> call.add, final |-> call.final, existing |-> Absent,
                  next |-> call.next, at |-> call.at, created |-> TRUE]
      /\ call.at \in {1, 2, 3}
  <2>1. call' = [by |-> call.by, pc |-> call.pc, run |-> call.run, task |-> call.task,
                 add |-> call.add, final |-> call.final, existing |-> call.existing,
                 next |-> call.next, at |-> call.at, created |-> TRUE]
    BY DEF CallOK
  <2>2. call.at \in {1, 2, 3}
    BY DEF CallOK
  <2> QED
    BY <2>1, <2>2
<1>2. ~Finalized /\ reader = Absent /\ reports = {}
  BY WritingIsOpen
<1>3. Absent' = Absent /\ Torn' = Torn /\ ~IsDocument(Torn) /\ ~IsDocument(Absent)
  BY DEF Absent, Torn, IsDocument
<1>4. /\ d \in DocName /\ (call.at = 1 => d = "task") /\ (call.at = 2 => d = "evidence")
      /\ (call.at = 3 => d = "manifest")
  BY <1>1 DEF Documents, DocName
<1>5. /\ files' = [e \in DocName |-> files'[e]] /\ files'[d] = Torn
      /\ \A e \in DocName : e # d => files'[e] = files[e]
  BY <1>4 DEF FilesOK
<1> HIDE DEF d
<1>6. files["manifest"] = Absent
  BY <1>1, <1>4 DEF CallOK, Active, d
<1>7. files[d] = Absent
  BY DEF d
<1>8. FilesOK'
  <2>1. \A e \in DocName : \/ files'[e] = Absent \/ files'[e] = Torn
                           \/ files'[e] = Document(files'[e].content)
    BY <1>5 DEF FilesOK
  <2>2. (files["evidence"] # Absent => IsDocument(files["task"]))
    BY DEF FilesOK
  <2>3. call.at = 2 => IsDocument(files["task"])
    BY DEF WriteOK, Document, IsDocument
  <2>4. call.at = 3 => IsDocument(files["evidence"]) /\ IsDocument(files["task"])
    BY DEF WriteOK, Document, IsDocument
  <2>5. files'["evidence"] # Absent => IsDocument(files'["task"])
    BY <1>1, <1>3, <1>4, <1>5, <1>7, <2>2, <2>3, <2>4 DEF DocName
  <2>6. files'["manifest"] # Absent => IsDocument(files'["evidence"])
    BY <1>1, <1>3, <1>4, <1>5, <1>6, <2>4 DEF DocName
  <2> QED
    BY <1>3, <1>5, <2>1, <2>5, <2>6 DEF FilesOK, IsDocument, Document
<1>9. CallOK'
  <2>1. call.at <= 2 => files'["manifest"] = Absent
    BY <1>1, <1>4, <1>5, <1>6 DEF DocName
  <2>2. call'.at = call.at /\ call'.created = TRUE /\ call'.existing = Absent /\ call'.pc = "write"
        /\ call' = [by |-> call'.by, pc |-> call'.pc, run |-> call'.run, task |-> call'.task,
                    add |-> call'.add, final |-> call'.final, existing |-> call'.existing,
                    next |-> call'.next, at |-> call'.at, created |-> call'.created]
    BY <1>1
  <2>3. files'[Documents[call'.at]] = Torn
    BY <1>5, <2>2 DEF d
  <2>4. Documents' = Documents
    BY DEF Documents
  <2> QED
    BY <1>1, <1>3, <2>1, <2>2, <2>3, <2>4 DEF CallOK, Active
<1>10. ~Finalized'
  <2>1. ~IsDocument(files'["manifest"])
    BY <1>3, <1>4, <1>5, <1>6 DEF DocName
  <2> QED
    BY <2>1 DEF Finalized, IsDocument
<1>11. Entries \subseteq Entries'
  <2>1. d = "evidence" => Entries = {}
    BY <1>3, <1>7 DEF Entries
  <2>2. d # "evidence" => Entries' = Entries
    BY <1>5 DEF Entries, DocName, IsDocument
  <2> QED
    BY <2>1, <2>2
<1>12. WriteOK'
  <2>1. call'.add = call.add /\ call'.next = call.next /\ call'.existing = Absent
        /\ call'.at = call.at /\ call'.task = call.task
    BY <1>1
  <2>2. call.at >= 2 => files'["task"] = Document(call.task)
    BY <1>1, <1>4, <1>5 DEF WriteOK, DocName
  <2>3. call.at >= 3 => files'["evidence"] = Document(call.next)
    BY <1>1, <1>4, <1>5 DEF WriteOK, DocName
  <2>4. call.add \subseteq call.next /\ call.next = call.add
    BY DEF WriteOK
  <2> QED
    BY <1>1, <1>3, <2>1, <2>2, <2>3, <2>4 DEF WriteOK, Document
<1>13. FinalOK' /\ AckedIsKept'
  BY <1>2, <1>3, <1>10, <1>11 DEF FinalOK, AckedIsKept
<1> QED
  BY <1>8, <1>9, <1>12, <1>13

LEMMA WriteKeeps ==
  ASSUME BundleInv, Write
  PROVE  BundleInv'
<1>1. /\ call.pc = "write" /\ call.at <= 3 /\ UNCHANGED <<reader, reports, acked>>
  BY DEF Write, Documents
<1>2. CASE (call.existing # Absent \/ call.created) /\ Filled(Documents[call.at])
  BY <1>1, <1>2, FilledKeeps
<1>3. CASE /\ call.existing = Absent /\ ~call.created /\ files[Documents[call.at]] = Absent
           /\ files' = [files EXCEPT ![Documents[call.at]] = Torn]
           /\ call' = [call EXCEPT !.created = TRUE]
  BY <1>1, <1>3, CreatedKeeps
<1>4. CASE Ends("blocked") /\ UNCHANGED files
  <2>1. call' = Ended(call.by, "blocked")
    BY <1>4 DEF Ends, NoCall, Ended
  <2> QED
    BY <1>1, <1>4, <2>1, EndKeeps DEF BundleInv, AckedIsKept
<1> QED
  BY <1>2, <1>3, <1>4 DEF Write

LEMMA ReadKeeps ==
  ASSUME BundleInv, ReadManifest \/ RenderReport
  PROVE  BundleInv'
<1> USE DEF BundleInv
<1>1. UNCHANGED <<files, call, acked>>
  BY DEF ReadManifest, RenderReport
<1>2. FilesOK'
  BY <1>1 DEF FilesOK, Absent, Torn, Document, IsDocument
<1>3. CallOK'
  BY <1>1 DEF CallOK, Active, Absent, Torn, IsDocument
<1>4. Entries' = Entries /\ Whole' = Whole /\ Finalized' = Finalized /\ Compiled("manifest")' = Compiled("manifest")
  BY <1>1 DEF Entries, Whole, Finalized, Document, IsDocument, Compiled
<1>5. WriteOK'
  BY <1>1, <1>4 DEF WriteOK, Absent, Document, Unique
<1>6. /\ reader' # Absent => Finalized /\ reader' = files["manifest"]
      /\ \A m \in reports' : Finalized /\ m = files["manifest"]
  BY DEF ReadManifest, RenderReport, FinalOK
<1>7. FinalOK' /\ AckedIsKept'
  BY <1>1, <1>4, <1>6 DEF FinalOK, AckedIsKept, Active, Absent
<1> QED
  BY <1>2, <1>3, <1>5, <1>7

-----------------------------------------------------------------------------
(* What the exercise, the operator and the others do to the bundle.        *)

LEMMA StepsOfTheBundle ==
  ASSUME [ShadowNext]_exerciseVars
  PROVE  \/ \E w, run, t, add, final : Open(w, run, t, add, final)
         \/ Write /\ UNCHANGED <<sessions, ex>>
         \/ Verify \/ WriteFails \/ Written \/ ReadManifest \/ RenderReport
         \/ Returns \/ UNCHANGED <<files, call, reader, reports, acked>>
<1>1. CASE Exercise
  <2>1. CASE DurableAppend
    BY <2>1 DEF DurableAppend
  <2>2. CASE Appended \/ Concluded
    BY <2>2 DEF Appended, Concluded, Returns
  <2>3. CASE Concludes
    BY <2>3 DEF Concludes
  <2>4. CASE Exits \/ Crash
    BY <2>4 DEF Exits, Crash, Gone, Returns
  <2>5. CASE \E r \in Request, k \in Config, s \in Seating, g, f \in BOOLEAN : Starts(r, k, s, g, f)
    BY <2>5 DEF Starts, bundleVars
  <2>7. CASE \E c \in Content : Propose(c)
    BY <2>7 DEF Propose, bundleVars
  <2>6. CASE Invoke \/ Answer \/ NextSeat \/ Vote \/ Count \/ Counts \/ Prove
    BY <2>6 DEF Invoke, Answer, NextSeat, Vote, Count, Counts, Prove, bundleVars
  <2> QED
    BY <1>1, <2>1, <2>2, <2>3, <2>4, <2>5, <2>6, <2>7 DEF Exercise
<1>2. CASE Operator
  BY <1>2 DEF Operator, Returns
<1>3. CASE (Bundle \/ ReadManifest \/ RenderReport) /\ UNCHANGED <<councilVars, ex>>
  BY <1>3 DEF Bundle, councilVars
<1>4. CASE Spoils
  BY <1>4 DEF Spoils, Spoil
<1>5. CASE UNCHANGED exerciseVars
  BY <1>5 DEF exerciseVars, bundleVars
<1> QED
  BY <1>1, <1>2, <1>3, <1>4, <1>5 DEF ShadowNext

LEMMA BundleStep ==
  ASSUME BundleInv, [ShadowNext]_exerciseVars
  PROVE  BundleInv'
<1>1. CASE \E w, run, t, add, final : Open(w, run, t, add, final)
  BY <1>1, OpenKeeps
<1> QED
  BY <1>1, StepsOfTheBundle, VerifyKeeps, WriteKeeps, WriteFailsKeeps, WrittenKeeps, ReadKeeps,
     ReturnsKeeps, BundleStutter

(* The invariant of the bundle, whoever calls the compiler and whatever    *)
(* call crashes or fails between two of its writes.                        *)
THEOREM BundleInvariant == ShadowSpec => []BundleInv
<1>1. ShadowInit => BundleInv
  BY BundleInitially DEF ShadowInit
<1> QED
  BY <1>1, BundleStep, PTL DEF ShadowSpec

(* What writeRunBundle answered OK to stays in the bundle, through every   *)
(* crash and failed write of later calls.                                  *)
THEOREM AcknowledgedIsKept == ShadowSpec => []AckedIsKept
<1>1. BundleInv => AckedIsKept
  BY DEF BundleInv
<1> QED
  BY <1>1, BundleInvariant, PTL

(* A report of renderRunBundleReport shows the bundle as it was finalized, *)
(* with everything that was acknowledged.                                  *)
THEOREM ReportsStayTrue == ShadowSpec => []ReportsAreTrue
<1>1. BundleInv => ReportsAreTrue
  <2> SUFFICES ASSUME BundleInv, NEW m \in reports
               PROVE  m = files["manifest"] /\ Whole /\ acked \subseteq m.content.evidence
    BY DEF ReportsAreTrue
  <2>1. Finalized /\ m = files["manifest"] /\ Whole
    BY DEF BundleInv, FinalOK
  <2>2. Entries = m.content.evidence
    BY <2>1 DEF Whole, Entries, Document, IsDocument
  <2> QED
    BY <2>1, <2>2 DEF BundleInv, AckedIsKept
<1> QED
  BY <1>1, BundleInvariant, PTL

LEMMA BrokenStep ==
  ASSUME BundleInv, Broken, [ShadowNext]_exerciseVars
  PROVE  Broken' /\ UNCHANGED files
<1> USE DEF BundleInv
<1>1. call.at = 1 /\ ~call.created /\ ~Whole /\ \E d \in DocName : files[d] # Absent
  BY DEF Broken, FilesOK
<1>2. ASSUME UNCHANGED files, call'.at = 1, ~call'.created
      PROVE  Broken' /\ UNCHANGED files
  <2>1. Whole' = Whole /\ Absent' = Absent
    BY <1>2 DEF Whole, Document, IsDocument, Absent
  <2> QED
    BY <1>1, <1>2, <2>1 DEF Broken, FilesOK
<1>3. CASE Write
  <2>1. call.pc = "write" /\ Documents[call.at] = "task"
    BY <1>1, <1>3 DEF Write, Documents
  <2>2. call.existing = Absent
    BY <1>1, <2>1 DEF WriteOK
  <2>3. files["task"] # Absent
    <3>1. files["manifest"] = Absent
      BY <1>1, <2>1, <2>2 DEF CallOK, Active
    <3>2. files["task"] = Absent => files["evidence"] = Absent
      BY DEF FilesOK, IsDocument, Absent
    <3> QED
      BY <1>1, <3>1, <3>2 DEF DocName
  <2>4. Ends("blocked") /\ UNCHANGED files
    BY <1>1, <1>3, <2>1, <2>2, <2>3 DEF Write
  <2>5. call'.at = 1 /\ ~call'.created
    BY <2>4 DEF Ends, NoCall
  <2> QED
    BY <1>2, <2>4, <2>5
<1>4. CASE Verify
  <2>1. UNCHANGED files /\ (\/ call' = [call EXCEPT !.pc = "write", !.next = call'.next]
                            \/ Ends("blocked"))
    BY <1>4 DEF Verify
  <2>2. call'.at = 1 /\ ~call'.created
    BY <1>1, <2>1 DEF Ends, NoCall, CallOK
  <2> QED
    BY <1>2, <2>1, <2>2
<1>5. CASE \E w, run, t, add, final : Open(w, run, t, add, final)
  BY <1>2, <1>5 DEF Open, NoCall
<1>6. CASE WriteFails \/ Written \/ Returns
  <2>1. UNCHANGED files
    BY <1>6 DEF WriteFails, Written, Returns
  <2>2. call' = NoCall \/ Ends("blocked") \/ Ends("ok")
    BY <1>6 DEF WriteFails, Written, Returns
  <2>3. call'.at = 1 /\ ~call'.created
    <3>1. CASE call' = NoCall
      BY <3>1 DEF NoCall
    <3>2. CASE Ends("blocked")
      BY <3>2 DEF Ends, NoCall
    <3>3. CASE Ends("ok")
      BY <3>3 DEF Ends, NoCall
    <3> QED
      BY <2>2, <3>1, <3>2, <3>3
  <2> QED
    BY <1>2, <2>1, <2>3
<1>7. CASE ReadManifest \/ RenderReport \/ UNCHANGED <<files, call, reader, reports, acked>>
  BY <1>1, <1>2, <1>7 DEF ReadManifest, RenderReport
<1> QED
  BY <1>3, <1>4, <1>5, <1>6, <1>7, StepsOfTheBundle

(* A bundle that was left in between is never written to again: whoever    *)
(* opens it finds a reference that does not fit, or a document in the way. *)
THEOREM BrokenStaysBroken == ShadowSpec => FailsClosed
<1>1. ASSUME BundleInv, [ShadowNext]_exerciseVars
      PROVE  [Broken => Broken' /\ UNCHANGED files]_bundleVars
  BY <1>1, BrokenStep
<1> QED
  BY <1>1, BundleInvariant, PTL DEF ShadowSpec, FailsClosed

-----------------------------------------------------------------------------
(* The exercise: where it is, what it is about to append, and what it has. *)

Place == {"idle", "invoke", "answered", "submit", "reveal", "freeze", "next", "vote", "count",
          "counted", "prove", "proved", "finalizing", "done", "thrown"}
Running == ex.pc \notin {"idle", "thrown"}
Proposed == ex.at > 0 \/ ex.pc \in {"next", "count", "counted", "prove", "proved", "finalizing", "done"}

ExOK ==
  /\ ex = [pc |-> ex.pc, try |-> ex.try, request |-> ex.request, seats |-> ex.seats,
           at |-> ex.at, vote |-> ex.vote, todo |-> ex.todo, gated |-> ex.gated,
           final |-> ex.final]
  /\ ex.pc \in Place /\ ex.try \in Nat \ {0} /\ ex.at \in Nat
  /\ ex.pc \in {"submit", "reveal", "freeze"} => ex.at = 0
  /\ ex.pc = "vote" => ex.at > 0 /\ ex.vote \in VoteValue
  /\ Running => ex.request \in Request

Frozened == {"CANDIDATE_FROZEN", "VOTING"}

SessionOK(r, k) ==
  /\ k = [state |-> k.state, config |-> k.config, commitment |-> k.commitment,
          proposal |-> k.proposal, candidate |-> k.candidate, votes |-> k.votes,
          record |-> k.record]
  /\ k.config \in Config /\ k.config.epoch = r.epoch
  /\ DOMAIN k.votes \subseteq SeatIds(k.config)
  /\ \A s \in DOMAIN k.votes : k.votes[s] \in VoteValue
  /\ k.state = "COMMITMENT_COLLECTION" => k.commitment \in Content
  /\ k.state = "PROPOSAL_REVEAL" => k.proposal \in Content
  /\ k.state \in Frozened => \E c \in Content : k.candidate = Candidate(r, k.config, c)

KernelOK ==
  /\ sessions = [r \in Request |-> sessions[r]]
  /\ Running => SessionOK(ex.request, Kernel)
  /\ ex.pc \in {"counted", "prove"} =>
       /\ Kernel.record.proposer = ProposerSeat
       /\ Kernel.record.votes = Projection(Kernel.config, Kernel.votes)
       /\ Kernel.record.epoch = ex.request.epoch

(* An entry of the exercise is in the bundle, and what its vote rests on.  *)
Noted(kind, seat) == Has(acked, ex.try, kind, seat)
Opened == Noted("request", None) /\ Noted("config", None)
Attested(seat) == Noted("packet", seat) /\ Noted("attestation", seat)
Assessed(seat, v) == Entry("assessment", seat, v) \in acked

RequestEntry == Entry("request", None, ex.request.id)
ConfigEntry == Entry("config", None, Kernel.config.epoch)
SpecEntry == Entry("spec", None, ex.request.id)
FirstPacket == Packet(ProposerSeat, None)

(* What is left of the entries an exercise begins with.                    *)
BeginsOK ==
  \/ ex.todo \in {<<RequestEntry, ConfigEntry, SpecEntry, FirstPacket>>,
                  <<RequestEntry, ConfigEntry, FirstPacket>>}
  \/ /\ ex.todo \in {<<ConfigEntry, SpecEntry, FirstPacket>>, <<ConfigEntry, FirstPacket>>}
     /\ Noted("request", None)
  \/ ex.todo \in {<<SpecEntry, FirstPacket>>, <<FirstPacket>>} /\ Opened
  \/ ex.todo = <<>> /\ Opened /\ Noted("packet", ProposerSeat)

(* One entry that is to be appended, or has been.                          *)
Appending(e) == ex.todo = <<e>> \/ (ex.todo = <<>> /\ e \in acked)

Proves(p, d) ==
  p.kind = "proof" /\ d.kind = "record" /\ p.try = ex.try /\ Eligible(p.data, d.data)

TodoOK ==
  /\ ex.pc \in {"idle", "reveal", "freeze", "next", "count", "counted", "finalizing", "done"}
       => ex.todo = <<>>
  /\ ex.pc = "invoke" /\ ex.at = 0 => BeginsOK
  /\ ex.pc = "invoke" /\ ex.at # 0 => Appending(Packet(Seat, Frozen))
  /\ ex.pc = "answered" => Appending(Entry("attestation", Seat, Voting))
  /\ ex.pc = "submit" => ex.todo \in {<<>>, <<Entry("unfrozen", Seat, None)>>}
  /\ ex.pc = "vote" => Appending(Entry("assessment", Seat, ex.vote))
  /\ ex.pc = "prove" => Appending(Entry("record", None, Kernel.record))
  /\ ex.pc = "proved" =>
       \E d \in acked : \/ ex.todo = <<>> /\ \E p \in acked : Proves(p, d)
                        \/ ex.todo # <<>> /\ ex.todo = <<ex.todo[1]>> /\ Proves(ex.todo[1], d)
  /\ ex.pc = "thrown" =>
       ex.todo = <<>> \/ ex.todo = <<ex.todo[1]>> \/ ex.todo = <<ex.todo[1], ex.todo[2]>>
  /\ ex.pc = "thrown" /\ ex.todo # <<>> =>
       Opened /\ \A i \in DOMAIN ex.todo : /\ ex.todo[i].kind \in {"rejected", "failure"}
                                           /\ ex.todo[i].try = ex.try

NotedOK ==
  Running =>
    /\ ~(ex.pc = "invoke" /\ ex.at = 0) => Opened
    /\ ex.pc = "answered" => Noted("packet", Seat)
    /\ ex.pc \in {"submit", "reveal", "freeze", "vote"} => Attested(Seat)
    /\ Proposed => Attested(ProposerSeat)
    /\ \A s \in DOMAIN Kernel.votes : Attested(s) /\ Assessed(s, Kernel.votes[s])
    /\ ex.pc \in {"finalizing", "done"} => \E p, d \in acked : Proves(p, d)

(* The call of the compiler is for the entry at the head, for the notes of *)
(* the operator, or to finalize.                                           *)
LinkOK ==
  /\ call.pc # "idle" => call.by \in {"exercise", "operator"}
  /\ call.pc # "idle" /\ call.by = "exercise" /\ ex.pc # "finalizing" =>
       /\ ex.todo # <<>>
       /\ Active => call.add = {Head(ex.todo)}
       /\ call.pc = "ok" => Head(ex.todo) \in acked
  /\ ex.pc = "finalizing" =>
       /\ call.by = "exercise" /\ call.pc # "idle"
       /\ Active => call.add = {} /\ call.final
       /\ call.pc = "ok" => Finalized
  /\ Active /\ call.by = "operator" => \A e \in call.add : e.kind = "note"
  /\ ex.pc = "done" /\ ex.final => Finalized

ExerciseInv == ExOK /\ KernelOK /\ TodoOK /\ NotedOK /\ LinkOK

-----------------------------------------------------------------------------
(* The evidence: what can be there of an exercise, and of others.          *)

Loose == {"note", "request"}

TriesOK ==
  \A e \in Entries : e.kind # "note" =>
    e.try \in Nat /\ e.try <= ex.try /\ (ex.pc = "idle" => e.try < ex.try)

(* An exercise gets past its request with a configuration that no other    *)
(* has appended.                                                           *)
ConfigsOK ==
  /\ \A e \in Entries : e.kind = "config" => e.id = <<"config", None, 0, e.data>>
  /\ \A e \in Entries : e.kind \notin Loose => Configs(Entries, e.try) # {}
  /\ Running => \A c \in Configs(Entries, ex.try) : c.data = ex.request.epoch
  /\ \A b, c \in Entries : b.kind = "config" /\ c.kind = "config" /\ b.data = c.data => b.try = c.try

AssessmentsOK ==
  \A e \in Entries : e.kind = "assessment" /\ e.try = ex.try /\ Running =>
    \/ e.seat \in DOMAIN Kernel.votes /\ e.data = Kernel.votes[e.seat]
    \/ ex.pc = "vote" /\ e.seat = Seat /\ e.data = ex.vote

RecordsOK ==
  \A d \in Entries : d.kind = "record" =>
    /\ Documented(Entries, d)
    /\ d.try = ex.try => ex.pc \in {"prove", "proved", "finalizing", "done", "thrown"}

EvidenceInv == TriesOK /\ ConfigsOK /\ AssessmentsOK /\ RecordsOK

KeptOK == ExOK /\ KernelOK /\ TodoOK /\ NotedOK

-----------------------------------------------------------------------------
(* What a step of the exercise leaves alone.                               *)

LEMMA SameLog ==
  ASSUME ex'.try = ex.try, UNCHANGED acked
  PROVE  /\ \A k, s, d : Entry(k, s, d)' = Entry(k, s, d)
         /\ \A k, s : Noted(k, s)' = Noted(k, s)
         /\ \A s : Attested(s)' = Attested(s)
         /\ \A s, v : Assessed(s, v)' = Assessed(s, v)
         /\ \A p, d : Proves(p, d)' = Proves(p, d)
         /\ Opened' = Opened
<1>1. \A k, s, d : Entry(k, s, d)' = Entry(k, s, d)
  BY DEF Entry, Same
<1>2. \A k, s : Noted(k, s)' = Noted(k, s)
  BY DEF Noted, Has
<1>3. \A s, v : Assessed(s, v)' = Assessed(s, v)
  BY DEF Assessed, Entry, Same
<1>4. \A p, d : Proves(p, d)' = Proves(p, d)
  BY DEF Proves
<1> QED
  BY <1>1, <1>2, <1>3, <1>4 DEF Attested, Opened

LEMMA SameKernel ==
  ASSUME ex'.request = ex.request, UNCHANGED sessions
  PROVE  Kernel' = Kernel /\ ProposerSeat' = ProposerSeat /\ Frozen' = Frozen
  BY DEF Kernel, ProposerSeat, Frozen, Proposer

LEMMA SameSeat ==
  ASSUME ex'.at = ex.at, ex'.seats = ex.seats, ProposerSeat' = ProposerSeat
  PROVE  Seat' = Seat /\ Voting' = Voting
  BY DEF Seat, Voting

LEMMA KernelKept ==
  ASSUME KernelOK, Running, UNCHANGED sessions, ex'.request = ex.request,
         ex'.pc \in {"counted", "prove"} => ex.pc \in {"counted", "prove"}
  PROVE  KernelOK'
<1>1. Kernel' = Kernel /\ ProposerSeat' = ProposerSeat
  BY SameKernel
<1> QED
  BY <1>1 DEF KernelOK

LEMMA GoesTo ==
  ASSUME ExOK, NEW pc, NEW todo, Goes(pc, todo)
  PROVE  /\ ex' = [pc |-> pc, try |-> ex.try, request |-> ex.request, seats |-> ex.seats,
                   at |-> ex.at, vote |-> ex.vote, todo |-> todo, gated |-> ex.gated,
                   final |-> ex.final]
         /\ ex'.pc = pc /\ ex'.todo = todo /\ ex'.try = ex.try /\ ex'.request = ex.request
         /\ ex'.seats = ex.seats /\ ex'.at = ex.at /\ ex'.vote = ex.vote
         /\ ex'.gated = ex.gated /\ ex'.final = ex.final
  BY DEF Goes, ExOK

(* Other entries of the bundle take nothing from the exercise.             *)
LEMMA MoreAcked ==
  ASSUME KeptOK, UNCHANGED <<ex, sessions>>, acked \subseteq acked'
  PROVE  KeptOK'
<1> USE DEF KeptOK
<1>1. Kernel' = Kernel /\ ProposerSeat' = ProposerSeat /\ Frozen' = Frozen /\ Seat' = Seat
      /\ Voting' = Voting /\ Running' = Running
  BY DEF Kernel, ProposerSeat, Frozen, Proposer, Seat, Voting, Running
<1>2. \A k, s, d : Entry(k, s, d)' = Entry(k, s, d)
  BY DEF Entry, Same
<1>3. \A k, s : Noted(k, s) => Noted(k, s)'
  BY DEF Noted, Has
<1>4. Opened => Opened'
  BY <1>3 DEF Opened
<1>5. \A s : Attested(s) => Attested(s)'
  BY <1>3 DEF Attested
<1>6. \A s, v : Assessed(s, v) => Assessed(s, v)'
  BY DEF Assessed, Entry, Same
<1>7. \A p, d : Proves(p, d)' = Proves(p, d)
  BY DEF Proves
<1>8. ExOK'
  BY DEF ExOK, Running
<1>9. KernelOK'
  BY <1>1 DEF KernelOK
<1>10. TodoOK'
  <2>1. BeginsOK => BeginsOK'
    <3>1. /\ RequestEntry' = RequestEntry /\ ConfigEntry' = ConfigEntry /\ SpecEntry' = SpecEntry
          /\ FirstPacket' = FirstPacket
      BY <1>1, <1>2 DEF RequestEntry, ConfigEntry, SpecEntry, FirstPacket, Packet, Entry, Same
    <3> QED
      BY <1>1, <1>3, <1>4, <3>1 DEF BeginsOK
  <2>2. Appending(Packet(Seat, Frozen)) => Appending(Packet(Seat, Frozen))'
    BY <1>1 DEF Appending, Packet, Entry, Same
  <2>3. /\ Appending(Entry("attestation", Seat, Voting)) => Appending(Entry("attestation", Seat, Voting))'
        /\ Appending(Entry("assessment", Seat, ex.vote)) => Appending(Entry("assessment", Seat, ex.vote))'
        /\ Appending(Entry("record", None, Kernel.record)) => Appending(Entry("record", None, Kernel.record))'
    BY <1>1 DEF Appending, Entry, Same
  <2>4. Entry("unfrozen", Seat, None)' = Entry("unfrozen", Seat, None)
    BY <1>1 DEF Entry, Same
  <2> QED
    BY <1>4, <1>7, <2>1, <2>2, <2>3, <2>4 DEF TodoOK
<1>11. NotedOK'
  <2>1. Proposed' = Proposed
    BY DEF Proposed
  <2> QED
    BY <1>1, <1>3, <1>4, <1>5, <1>6, <1>7, <2>1 DEF NotedOK
<1> QED
  BY <1>8, <1>9, <1>10, <1>11

-----------------------------------------------------------------------------
(* Every step of the exercise keeps what it has and what it is.            *)

(* It throws, with or without entries about the failure.                   *)
LEMMA ThrownKeeps ==
  ASSUME KeptOK, ex.pc # "idle", UNCHANGED <<sessions, acked>>, NEW todo, Goes("thrown", todo),
         \/ todo = <<>>
         \/ Opened /\ \E x : todo = <<Entry("failure", Seat, x)>>
         \/ Opened /\ todo = <<Entry("rejected", Seat, Voting), Entry("failure", Seat, "ADMISSION")>>
  PROVE  KeptOK'
<1> USE DEF KeptOK
<1>1. ex' = [pc |-> "thrown", try |-> ex.try, request |-> ex.request, seats |-> ex.seats,
             at |-> ex.at, vote |-> ex.vote, todo |-> todo, gated |-> ex.gated,
             final |-> ex.final] /\ ex'.pc = "thrown" /\ ex'.todo = todo /\ ex'.try = ex.try
  BY GoesTo
<1>2. Opened' = Opened
  BY <1>1, SameLog
<1>3. ~Running'
  BY <1>1 DEF Running
<1>4. ExOK'
  BY <1>1, <1>3 DEF ExOK, Place
<1>5. KernelOK'
  BY <1>1, <1>3 DEF KernelOK
<1>6. TodoOK'
  <2>1. \/ todo = <<>> \/ todo = <<todo[1]>> \/ todo = <<todo[1], todo[2]>>
    OBVIOUS
  <2>2. todo # <<>> => Opened /\ \A i \in DOMAIN todo : /\ todo[i].kind \in {"rejected", "failure"}
                                                         /\ todo[i].try = ex.try
    BY DEF Entry
  <2> QED
    BY <1>1, <1>2, <2>1, <2>2 DEF TodoOK
<1>7. NotedOK'
  BY <1>3 DEF NotedOK
<1> QED
  BY <1>4, <1>5, <1>6, <1>7

(* It goes on without a word to the kernel.                                *)
LEMMA GoesQuietly ==
  ASSUME KeptOK, Running, UNCHANGED <<sessions, acked>>, NEW pc, NEW todo, Goes(pc, todo),
         pc \in Place \ {"idle", "thrown", "vote"}, pc \in {"submit", "reveal", "freeze"} => ex.at = 0,
         pc \in {"counted", "prove"} => ex.pc \in {"counted", "prove"}
  PROVE  /\ ex'.pc = pc /\ ex'.todo = todo /\ ex'.at = ex.at /\ ex'.try = ex.try
         /\ ex'.final = ex.final /\ ex'.request = ex.request /\ ex'.seats = ex.seats
         /\ Kernel' = Kernel /\ ProposerSeat' = ProposerSeat /\ Seat' = Seat /\ Voting' = Voting
         /\ Running' /\ ExOK' /\ KernelOK'
         /\ \A k, s, d : Entry(k, s, d)' = Entry(k, s, d)
         /\ \A k, s : Noted(k, s)' = Noted(k, s)
         /\ \A s : Attested(s)' = Attested(s)
         /\ \A s, v : Assessed(s, v)' = Assessed(s, v)
         /\ \A p, d : Proves(p, d)' = Proves(p, d)
         /\ Opened' = Opened
<1> USE DEF KeptOK
<1>1. /\ ex' = [pc |-> pc, try |-> ex.try, request |-> ex.request, seats |-> ex.seats,
                at |-> ex.at, vote |-> ex.vote, todo |-> todo, gated |-> ex.gated,
                final |-> ex.final]
      /\ ex'.pc = pc /\ ex'.todo = todo /\ ex'.try = ex.try /\ ex'.request = ex.request
      /\ ex'.seats = ex.seats /\ ex'.at = ex.at /\ ex'.final = ex.final
  BY GoesTo
<1>2. /\ Kernel' = Kernel /\ ProposerSeat' = ProposerSeat /\ Seat' = Seat /\ Voting' = Voting
      /\ Running'
  BY <1>1, SameKernel, SameSeat DEF Running
<1>3. ExOK'
  BY <1>1 DEF ExOK, Running
<1>4. KernelOK'
  BY <1>1, KernelKept
<1> QED
  BY <1>1, <1>2, <1>3, <1>4, SameLog

LEMMA InvokeKeeps ==
  ASSUME KeptOK, Invoke
  PROVE  KeptOK'
<1> USE DEF KeptOK
<1>1. /\ ex.pc = "invoke" /\ ex.todo = <<>> /\ UNCHANGED <<sessions, acked>> /\ Running
      /\ ex.request \in Request
  BY DEF Invoke, Ready, councilVars, bundleVars, Running, ExOK
<1>2. Opened /\ Noted("packet", Seat)
  <2>1. CASE ex.at = 0
    <3>1. BeginsOK
      BY <1>1, <2>1 DEF TodoOK
    <3> QED
      BY <1>1, <2>1, <3>1 DEF BeginsOK, Seat
  <2>2. CASE ex.at # 0
    <3>1. Packet(Seat, Frozen) \in acked
      BY <1>1, <2>2 DEF TodoOK, Appending
    <3> QED
      BY <1>1, <2>2, <3>1 DEF NotedOK, Noted, Has, Packet, Entry
  <2> QED
    BY <2>1, <2>2
<1>3. CASE Captures("INVOCATION")
  BY <1>1, <1>2, <1>3, ThrownKeeps DEF Captures
<1>4. CASE Goes("thrown", <<Entry("rejected", Seat, Voting), Entry("failure", Seat, "ADMISSION")>>)
  BY <1>1, <1>2, <1>4, ThrownKeeps
<1>5. CASE Goes("answered", <<Entry("attestation", Seat, Voting)>>)
  <2>1. /\ ex'.pc = "answered" /\ ex'.todo = <<Entry("attestation", Seat, Voting)>>
        /\ ex'.at = ex.at /\ ex'.try = ex.try
        /\ Kernel' = Kernel /\ ProposerSeat' = ProposerSeat /\ Seat' = Seat /\ Voting' = Voting
        /\ Running' /\ ExOK' /\ KernelOK'
        /\ \A k, s : Noted(k, s)' = Noted(k, s)
        /\ \A s : Attested(s)' = Attested(s)
        /\ \A s, v : Assessed(s, v)' = Assessed(s, v)
        /\ Opened' = Opened
    BY <1>1, <1>5, GoesQuietly DEF Place
  <2>2. TodoOK'
    <3>1. Entry("attestation", Seat, Voting)' = Entry("attestation", Seat, Voting)
      BY <2>1 DEF Entry, Same
    <3> QED
      BY <2>1, <3>1 DEF TodoOK, Appending
  <2>3. NotedOK'
    BY <1>1, <1>2, <2>1 DEF NotedOK, Proposed
  <2> QED
    BY <2>1, <2>2, <2>3
<1> QED
  BY <1>3, <1>4, <1>5 DEF Invoke

LEMMA AnswerKeeps ==
  ASSUME KeptOK, Answer
  PROVE  KeptOK'
<1> USE DEF KeptOK
<1>1. /\ ex.pc = "answered" /\ ex.todo = <<>> /\ UNCHANGED <<sessions, acked>> /\ Running
      /\ ex.at \in Nat
  BY DEF Answer, Ready, councilVars, bundleVars, Running, ExOK
<1>2. Opened /\ Attested(Seat)
  <2>1. Entry("attestation", Seat, Voting) \in acked
    BY <1>1 DEF TodoOK, Appending
  <2>2. Noted("attestation", Seat)
    BY <2>1 DEF Noted, Has, Entry
  <2> QED
    BY <1>1, <2>2 DEF NotedOK, Attested
<1>3. CASE Captures("RESPONSE")
  BY <1>1, <1>2, <1>3, ThrownKeeps DEF Captures
<1>4. CASE ~Voting /\ Goes("submit", IF ex.gated THEN <<Entry("unfrozen", Seat, None)>> ELSE <<>>)
  <2> DEFINE todo == IF ex.gated THEN <<Entry("unfrozen", Seat, None)>> ELSE <<>>
  <2>0. ex.at = 0
    BY <1>1, <1>4 DEF Voting
  <2>1. /\ ex'.pc = "submit" /\ ex'.todo = todo /\ ex'.at = ex.at
        /\ Kernel' = Kernel /\ ProposerSeat' = ProposerSeat /\ Seat' = Seat
        /\ Running' /\ ExOK' /\ KernelOK'
        /\ \A k, s, d : Entry(k, s, d)' = Entry(k, s, d)
        /\ \A s : Attested(s)' = Attested(s)
        /\ \A s, v : Assessed(s, v)' = Assessed(s, v)
        /\ Opened' = Opened /\ ex'.try = ex.try
    BY <1>1, <1>4, <2>0, GoesQuietly DEF Place
  <2>2. TodoOK'
    <3>1. Entry("unfrozen", Seat, None)' = Entry("unfrozen", Seat, None)
      BY <2>1 DEF Entry, Same
    <3> QED
      BY <2>1, <3>1 DEF TodoOK
  <2>3. NotedOK'
    BY <1>1, <1>2, <2>1 DEF NotedOK, Proposed
  <2> QED
    BY <2>1, <2>2, <2>3
<1>5. ASSUME Voting, NEW v \in VoteValue,
             ex' = [ex EXCEPT !.pc = "vote", !.vote = v, !.todo = <<Entry("assessment", Seat, v)>>]
      PROVE  KeptOK'
  <2>1. /\ ex' = [pc |-> "vote", try |-> ex.try, request |-> ex.request, seats |-> ex.seats,
                  at |-> ex.at, vote |-> v, todo |-> <<Entry("assessment", Seat, v)>>,
                  gated |-> ex.gated, final |-> ex.final]
        /\ ex.at > 0
    BY <1>1, <1>5 DEF ExOK, Voting
  <2>2. /\ ex'.pc = "vote" /\ ex'.todo = <<Entry("assessment", Seat, v)>> /\ ex'.vote = v
        /\ ex'.at = ex.at /\ ex'.try = ex.try /\ ex'.request = ex.request /\ ex'.seats = ex.seats
    BY <2>1
  <2>3. ExOK'
    BY <1>1, <2>1 DEF ExOK, Running, Place
  <2>4. KernelOK'
    BY <1>1, <2>2, KernelKept
  <2>5. Kernel' = Kernel /\ ProposerSeat' = ProposerSeat /\ Seat' = Seat /\ Running'
    BY <1>1, <2>2, SameKernel, SameSeat DEF Running
  <2>6. /\ \A s : Attested(s)' = Attested(s)
        /\ \A s, w : Assessed(s, w)' = Assessed(s, w)
        /\ Opened' = Opened
    BY <1>1, <2>2, SameLog
  <2>7. TodoOK'
    <3>1. Entry("assessment", Seat, ex.vote)' = Entry("assessment", Seat, v)
      BY <2>2, <2>5 DEF Entry, Same
    <3> QED
      BY <2>2, <3>1 DEF TodoOK, Appending
  <2>8. NotedOK'
    BY <1>1, <1>2, <2>1, <2>2, <2>5, <2>6 DEF NotedOK, Proposed
  <2> QED
    BY <2>3, <2>4, <2>7, <2>8
<1> QED
  BY <1>3, <1>4, <1>5 DEF Answer

(* It goes on with what the kernel answered.                               *)
LEMMA GoesWithKernel ==
  ASSUME KeptOK, Running, UNCHANGED acked, NEW k, NEW pc, NEW todo, Goes(pc, todo),
         sessions' = [sessions EXCEPT ![ex.request] = k], k.config = Kernel.config,
         SessionOK(ex.request, k),
         pc \in Place \ {"idle", "thrown", "vote"}, pc \in {"submit", "reveal", "freeze"} => ex.at = 0,
         pc \in {"counted", "prove"} =>
           /\ k.record.proposer = ProposerSeat /\ k.record.votes = Projection(k.config, k.votes)
           /\ k.record.epoch = ex.request.epoch
  PROVE  /\ ex'.pc = pc /\ ex'.todo = todo /\ ex'.at = ex.at
         /\ Kernel' = k /\ ProposerSeat' = ProposerSeat /\ Seat' = Seat
         /\ Running' /\ ExOK' /\ KernelOK'
         /\ \A s : Attested(s)' = Attested(s)
         /\ \A s, v : Assessed(s, v)' = Assessed(s, v)
         /\ Opened' = Opened
<1> USE DEF KeptOK
<1>1. /\ ex' = [pc |-> pc, try |-> ex.try, request |-> ex.request, seats |-> ex.seats,
                at |-> ex.at, vote |-> ex.vote, todo |-> todo, gated |-> ex.gated,
                final |-> ex.final]
      /\ ex'.pc = pc /\ ex'.todo = todo /\ ex'.try = ex.try /\ ex'.request = ex.request
      /\ ex'.seats = ex.seats /\ ex'.at = ex.at
  BY GoesTo
<1>2. ex.request \in Request
  BY DEF ExOK
<1>3. /\ sessions' = [r \in Request |-> sessions'[r]] /\ sessions'[ex.request] = k
  BY <1>2 DEF KernelOK
<1>4. Kernel' = k
  BY <1>1, <1>3 DEF Kernel
<1>5. ProposerSeat' = ProposerSeat
  BY <1>1, <1>4 DEF ProposerSeat, Proposer
<1>6. Seat' = Seat /\ Running'
  BY <1>1, <1>5, SameSeat DEF Running
<1>7. ExOK'
  BY <1>1 DEF ExOK, Running
<1>8. KernelOK'
  BY <1>1, <1>3, <1>4, <1>5, <1>6 DEF KernelOK
<1> QED
  BY <1>1, <1>4, <1>5, <1>6, <1>7, <1>8, SameLog

LEMMA ProposeKeeps ==
  ASSUME KeptOK, NEW c \in Content, Propose(c)
  PROVE  KeptOK'
<1> USE DEF KeptOK
<1>1. /\ ex.todo = <<>> /\ UNCHANGED acked /\ ex.pc \in {"submit", "reveal", "freeze"}
      /\ Running /\ ex.at = 0
  BY DEF Propose, Ready, bundleVars, Running, ExOK
<1>2. Opened /\ Attested(ProposerSeat) /\ Seat = ProposerSeat
      /\ \A s \in DOMAIN Kernel.votes : Attested(s) /\ Assessed(s, Kernel.votes[s])
  BY <1>1 DEF NotedOK, Seat
<1>3. SessionOK(ex.request, Kernel)
  BY <1>1 DEF KernelOK
<1>4. Kernel = [state |-> Kernel.state, config |-> Kernel.config,
                commitment |-> Kernel.commitment, proposal |-> Kernel.proposal,
                candidate |-> Kernel.candidate, votes |-> Kernel.votes,
                record |-> Kernel.record]
  BY <1>3 DEF SessionOK
<1>5. CASE (Captures("CANDIDATE_GATE") \/ Captures("KERNEL_EVENT")) /\ UNCHANGED councilVars
  BY <1>1, <1>2, <1>5, ThrownKeeps DEF Captures, councilVars
<1>6. ASSUME NEW k, sessions' = [sessions EXCEPT ![ex.request] = k], SessionOK(ex.request, k),
             k.config = Kernel.config, k.votes = Kernel.votes,
             NEW pc \in {"reveal", "freeze", "next"}, Goes(pc, <<>>)
      PROVE  KeptOK'
  <2>1. /\ ex'.pc = pc /\ ex'.todo = <<>> /\ ex'.at = ex.at
        /\ Kernel' = k /\ ProposerSeat' = ProposerSeat /\ Seat' = Seat
        /\ Running' /\ ExOK' /\ KernelOK'
        /\ \A s : Attested(s)' = Attested(s)
        /\ \A s, v : Assessed(s, v)' = Assessed(s, v)
        /\ Opened' = Opened
    BY <1>1, <1>6, GoesWithKernel DEF Place
  <2>2. TodoOK'
    BY <2>1 DEF TodoOK
  <2>3. NotedOK'
    BY <1>1, <1>2, <1>6, <2>1 DEF NotedOK
  <2> QED
    BY <2>1, <2>2, <2>3
<1>7. CASE SubmitCommitment(ex.request, Sent, c) /\ Goes("reveal", <<>>)
  <2>0. PICK k : k = [Kernel EXCEPT !.state = "COMMITMENT_COLLECTION", !.commitment = c]
    OBVIOUS
  <2>1. sessions' = [sessions EXCEPT ![ex.request] = k]
    BY <1>7, <2>0 DEF SubmitCommitment, Enter, Kernel
  <2>2. k = [state |-> "COMMITMENT_COLLECTION", config |-> Kernel.config, commitment |-> c,
             proposal |-> Kernel.proposal, candidate |-> Kernel.candidate,
             votes |-> Kernel.votes, record |-> Kernel.record]
    BY <1>4, <2>0
  <2>3. SessionOK(ex.request, k) /\ k.config = Kernel.config /\ k.votes = Kernel.votes
    BY <1>3, <2>2 DEF SessionOK, Frozened
  <2> QED
    BY <1>6, <1>7, <2>1, <2>3
<1>8. CASE RevealProposal(ex.request, Sent, c) /\ Goes("freeze", <<>>)
  <2>0. PICK k : k = [Kernel EXCEPT !.state = "PROPOSAL_REVEAL", !.proposal = c]
    OBVIOUS
  <2>1. sessions' = [sessions EXCEPT ![ex.request] = k]
    BY <1>8, <2>0 DEF RevealProposal, Enter, Kernel
  <2>2. k = [state |-> "PROPOSAL_REVEAL", config |-> Kernel.config,
             commitment |-> Kernel.commitment, proposal |-> c,
             candidate |-> Kernel.candidate, votes |-> Kernel.votes, record |-> Kernel.record]
    BY <1>4, <2>0
  <2>3. SessionOK(ex.request, k) /\ k.config = Kernel.config /\ k.votes = Kernel.votes
    BY <1>3, <2>2 DEF SessionOK, Frozened
  <2> QED
    BY <1>6, <1>8, <2>1, <2>3
<1>9. CASE FreezeCandidate(ex.request) /\ Goes("next", <<>>)
  <2>0. PICK k : k = [Kernel EXCEPT !.state = "CANDIDATE_FROZEN",
                       !.candidate = Candidate(ex.request, Kernel.config, Kernel.proposal)]
    OBVIOUS
  <2>1. sessions' = [sessions EXCEPT ![ex.request] = k] /\ Kernel.state = "PROPOSAL_REVEAL"
    BY <1>9, <2>0 DEF FreezeCandidate, Enter, Kernel, In
  <2>2. k = [state |-> "CANDIDATE_FROZEN", config |-> Kernel.config,
             commitment |-> Kernel.commitment, proposal |-> Kernel.proposal,
             candidate |-> Candidate(ex.request, Kernel.config, Kernel.proposal),
             votes |-> Kernel.votes, record |-> Kernel.record]
    BY <1>4, <2>0
  <2>3. SessionOK(ex.request, k) /\ k.config = Kernel.config /\ k.votes = Kernel.votes
    BY <1>3, <2>1, <2>2 DEF SessionOK, Frozened
  <2> QED
    BY <1>6, <1>9, <2>1, <2>3
<1> QED
  BY <1>5, <1>7, <1>8, <1>9 DEF Propose

LEMMA NextSeatKeeps ==
  ASSUME KeptOK, NextSeat
  PROVE  KeptOK'
<1> USE DEF KeptOK
<1>1. /\ ex.pc = "next" /\ ex.todo = <<>> /\ UNCHANGED <<sessions, acked>> /\ Running /\ ex.at \in Nat
  BY DEF NextSeat, Ready, councilVars, bundleVars, Running, ExOK
<1>2. Opened /\ Attested(ProposerSeat)
      /\ \A s \in DOMAIN Kernel.votes : Attested(s) /\ Assessed(s, Kernel.votes[s])
  BY <1>1 DEF NotedOK, Proposed
<1>3. CASE Throws
  BY <1>1, <1>3, ThrownKeeps DEF Throws
<1>4. CASE Goes("count", <<>>)
  <2>1. /\ ex'.pc = "count" /\ ex'.todo = <<>>
        /\ Kernel' = Kernel /\ ProposerSeat' = ProposerSeat /\ Running' /\ ExOK' /\ KernelOK'
        /\ \A s : Attested(s)' = Attested(s)
        /\ \A s, v : Assessed(s, v)' = Assessed(s, v)
        /\ Opened' = Opened
    BY <1>1, <1>4, GoesQuietly DEF Place
  <2>2. TodoOK' /\ NotedOK'
    BY <1>2, <2>1 DEF TodoOK, NotedOK
  <2> QED
    BY <2>1, <2>2
<1>5. CASE ex' = [ex EXCEPT !.pc = "invoke", !.at = @ + 1,
                            !.todo = <<Packet(ex.seats[ex.at + 1], Frozen)>>]
  <2>1. /\ ex' = [pc |-> "invoke", try |-> ex.try, request |-> ex.request, seats |-> ex.seats,
                  at |-> ex.at + 1, vote |-> ex.vote,
                  todo |-> <<Packet(ex.seats[ex.at + 1], Frozen)>>,
                  gated |-> ex.gated, final |-> ex.final]
    BY <1>5 DEF ExOK
  <2>2. /\ ex'.pc = "invoke" /\ ex'.todo = <<Packet(ex.seats[ex.at + 1], Frozen)>>
        /\ ex'.at = ex.at + 1 /\ ex'.try = ex.try /\ ex'.request = ex.request /\ ex'.seats = ex.seats
        /\ ex.at + 1 # 0 /\ ex.at + 1 \in Nat
    BY <1>1, <2>1
  <2>3. ExOK'
    BY <1>1, <2>1, <2>2 DEF ExOK, Running, Place
  <2>4. KernelOK'
    BY <1>1, <2>2, KernelKept
  <2>5. Kernel' = Kernel /\ ProposerSeat' = ProposerSeat /\ Frozen' = Frozen /\ Running'
    BY <1>1, <2>2, SameKernel DEF Running
  <2>6. Seat' = ex.seats[ex.at + 1]
    BY <2>2 DEF Seat
  <2>7. /\ \A s : Attested(s)' = Attested(s)
        /\ \A s, w : Assessed(s, w)' = Assessed(s, w)
        /\ Opened' = Opened
    BY <1>1, <2>2, SameLog
  <2>8. TodoOK'
    <3>1. Packet(Seat, Frozen)' = Packet(ex.seats[ex.at + 1], Frozen)
      BY <2>2, <2>5, <2>6 DEF Packet, Entry, Same
    <3> QED
      BY <2>2, <3>1 DEF TodoOK, Appending
  <2>9. NotedOK'
    BY <1>2, <2>2, <2>5, <2>7 DEF NotedOK
  <2> QED
    BY <2>3, <2>4, <2>8, <2>9
<1> QED
  BY <1>3, <1>4, <1>5 DEF NextSeat

LEMMA VoteKeeps ==
  ASSUME KeptOK, Vote
  PROVE  KeptOK'
<1> USE DEF KeptOK
<1>1. /\ ex.pc = "vote" /\ ex.todo = <<>> /\ UNCHANGED acked /\ Running /\ ex.at > 0
      /\ ex.vote \in VoteValue
  BY DEF Vote, Ready, bundleVars, Running, ExOK
<1>2. /\ Opened /\ Attested(ProposerSeat) /\ Attested(Seat) /\ Assessed(Seat, ex.vote)
      /\ \A s \in DOMAIN Kernel.votes : Attested(s) /\ Assessed(s, Kernel.votes[s])
  BY <1>1 DEF NotedOK, Proposed, TodoOK, Appending, Assessed
<1>3. CASE Captures("KERNEL_EVENT") /\ UNCHANGED councilVars
  BY <1>1, <1>2, <1>3, ThrownKeeps DEF Captures, councilVars
<1>4. CASE CastVote(ex.request, Sent, Kernel.candidate, ex.vote) /\ Goes("next", <<>>)
  <2> DEFINE votes == With(Kernel.votes, Seat, ex.vote)
  <2>0. SessionOK(ex.request, Kernel)
    BY <1>1 DEF KernelOK
  <2>8. PICK k : k = [Kernel EXCEPT !.state = "VOTING", !.votes = votes]
    OBVIOUS
  <2>1. /\ sessions' = [sessions EXCEPT ![ex.request] = k] /\ Kernel.state \in Frozened
        /\ Seat \in SeatIds(Kernel.config)
    <3>1. Sent.seat = Seat
      BY DEF Sent
    <3>2. sessions' = [sessions EXCEPT ![ex.request] = [sessions[ex.request] EXCEPT !.state = "VOTING", !.votes = With(@, Sent.seat, ex.vote)]]
          /\ Sent.seat \in SeatIds(sessions[ex.request].config)
          /\ sessions[ex.request].state \in Frozened
      BY <1>4 DEF CastVote, Enter, In, Frozened
    <3>3. Kernel = sessions[ex.request]
      BY DEF Kernel
    <3>4. k = [sessions[ex.request] EXCEPT !.state = "VOTING", !.votes = With(@, Sent.seat, ex.vote)]
      BY <2>0, <2>8, <3>1, <3>3 DEF SessionOK
    <3> QED
      BY <3>1, <3>2, <3>3, <3>4
  <2>2. k = [state |-> "VOTING", config |-> Kernel.config,
             commitment |-> Kernel.commitment, proposal |-> Kernel.proposal,
             candidate |-> Kernel.candidate, votes |-> votes, record |-> Kernel.record]
    <3>1. Kernel = [state |-> Kernel.state, config |-> Kernel.config,
                    commitment |-> Kernel.commitment, proposal |-> Kernel.proposal,
                    candidate |-> Kernel.candidate, votes |-> Kernel.votes,
                    record |-> Kernel.record]
      BY <2>0 DEF SessionOK
    <3> HIDE DEF votes
    <3> QED
      BY <2>8, <3>1
  <2>3. DOMAIN votes = DOMAIN Kernel.votes \cup {Seat}
        /\ \A s \in DOMAIN votes : votes[s] = IF s = Seat THEN ex.vote ELSE Kernel.votes[s]
    BY DEF With
  <2> HIDE DEF votes
  <2>4. SessionOK(ex.request, k) /\ k.config = Kernel.config /\ k.votes = votes
    BY <1>1, <2>0, <2>1, <2>2, <2>3 DEF SessionOK, Frozened
  <2>5. /\ ex'.pc = "next" /\ ex'.todo = <<>> /\ ex'.at = ex.at
        /\ Kernel' = k /\ ProposerSeat' = ProposerSeat /\ Seat' = Seat
        /\ Running' /\ ExOK' /\ KernelOK'
        /\ \A s : Attested(s)' = Attested(s)
        /\ \A s, v : Assessed(s, v)' = Assessed(s, v)
        /\ Opened' = Opened
    BY <1>1, <1>4, <2>1, <2>4, GoesWithKernel DEF Place
  <2>6. TodoOK'
    BY <2>5 DEF TodoOK
  <2>7. NotedOK'
    BY <1>2, <2>3, <2>4, <2>5 DEF NotedOK
  <2> QED
    BY <2>5, <2>6, <2>7
<1> QED
  BY <1>3, <1>4 DEF Vote

(* Who proposes has a seat, and a candidate is something.                  *)
LEMMA CandidateIsSome ==
  ASSUME NEW r \in Request, NEW k \in Config, NEW c \in Content
  PROVE  Candidate(r, k, c) # None
<1>1. Proposer(r, k) \in SeatIds(k)
  <2>1. (r.rotation % 3) + 1 \in 1 .. 3
    <3>1. r.rotation \in Nat
      BY CouncilAssumption
    <3> QED
      BY <3>1
  <2> QED
    BY <2>1 DEF Proposer, SeatIds
<1> QED
  BY <1>1, CandidateAssumption DEF Candidate

LEMMA CountKeeps ==
  ASSUME KeptOK, Count
  PROVE  KeptOK'
<1> USE DEF KeptOK
<1>1. /\ ex.pc = "count" /\ ex.todo = <<>> /\ UNCHANGED acked /\ Running /\ ex.request \in Request
  BY DEF Count, Ready, bundleVars, Running, ExOK
<1>2. Opened /\ Attested(ProposerSeat)
      /\ \A s \in DOMAIN Kernel.votes : Attested(s) /\ Assessed(s, Kernel.votes[s])
  BY <1>1 DEF NotedOK, Proposed
<1>3. CASE Captures("KERNEL_EVENT") /\ UNCHANGED councilVars
  BY <1>1, <1>2, <1>3, ThrownKeeps DEF Captures, councilVars
<1>4. CASE Finalize(ex.request) /\ Goes("counted", <<>>)
  <2>0. PICK state \in {"DECIDED", "NO_QUORUM"} : \E disposition, detail :
          sessions' = [sessions EXCEPT ![ex.request] =
            [Kernel EXCEPT !.state = state,
                           !.record = Record(ex.request, Kernel.config, Kernel.candidate,
                                             Kernel.votes, state, disposition, detail)]]
    BY <1>4 DEF Finalize, Enter, Kernel
  <2>1. PICK disposition, detail :
          sessions' = [sessions EXCEPT ![ex.request] =
            [Kernel EXCEPT !.state = state,
                           !.record = Record(ex.request, Kernel.config, Kernel.candidate,
                                             Kernel.votes, state, disposition, detail)]]
    BY <2>0
  <2>2. PICK record : record = Record(ex.request, Kernel.config, Kernel.candidate,
                                      Kernel.votes, state, disposition, detail)
    OBVIOUS
  <2>3. PICK k : k = [Kernel EXCEPT !.state = state, !.record = record]
    OBVIOUS
  <2>4. SessionOK(ex.request, Kernel) /\ Kernel.state = "VOTING"
    BY <1>1, <1>4 DEF KernelOK, Finalize, In, Kernel
  <2>5. k = [state |-> state, config |-> Kernel.config,
             commitment |-> Kernel.commitment, proposal |-> Kernel.proposal,
             candidate |-> Kernel.candidate, votes |-> Kernel.votes, record |-> record]
    <3>1. Kernel = [state |-> Kernel.state, config |-> Kernel.config,
                    commitment |-> Kernel.commitment, proposal |-> Kernel.proposal,
                    candidate |-> Kernel.candidate, votes |-> Kernel.votes,
                    record |-> Kernel.record]
      BY <2>4 DEF SessionOK
    <3> QED
      BY <2>3, <3>1
  <2>6. SessionOK(ex.request, k) /\ k.config = Kernel.config /\ k.votes = Kernel.votes
    BY <2>4, <2>5 DEF SessionOK, Frozened
  <2>7. /\ record.proposer = ProposerSeat /\ record.votes = Projection(Kernel.config, Kernel.votes)
        /\ record.epoch = ex.request.epoch
    <3>1. PICK c \in Content : Kernel.candidate = Candidate(ex.request, Kernel.config, c)
      BY <2>4 DEF SessionOK, Frozened
    <3>2. Kernel.candidate # None
      BY <1>1, <2>4, <3>1, CandidateIsSome DEF SessionOK
    <3>3. Kernel.candidate.proposer = ProposerSeat
      BY <3>1 DEF Candidate, ProposerSeat
    <3> QED
      BY <2>2, <3>2, <3>3 DEF Record
  <2>8. sessions' = [sessions EXCEPT ![ex.request] = k]
    BY <2>1, <2>2, <2>3
  <2>9. /\ ex'.pc = "counted" /\ ex'.todo = <<>> /\ ex'.at = ex.at
        /\ Kernel' = k /\ ProposerSeat' = ProposerSeat /\ Running' /\ ExOK' /\ KernelOK'
        /\ \A s : Attested(s)' = Attested(s)
        /\ \A s, v : Assessed(s, v)' = Assessed(s, v)
        /\ Opened' = Opened
    <3>1. /\ k.record.proposer = ProposerSeat /\ k.record.votes = Projection(k.config, k.votes)
          /\ k.record.epoch = ex.request.epoch
      BY <2>5, <2>7
    <3>2. Goes("counted", <<>>)
      BY <1>4
    <3>3. "counted" \in Place \ {"idle", "thrown", "vote"}
      BY DEF Place
    <3> QED
      BY <1>1, <2>6, <2>8, <3>1, <3>2, <3>3, GoesWithKernel
  <2>10. TodoOK'
    BY <2>9 DEF TodoOK
  <2>11. NotedOK'
    BY <1>2, <2>6, <2>9 DEF NotedOK
  <2> QED
    BY <2>9, <2>10, <2>11
<1> QED
  BY <1>3, <1>4 DEF Count

LEMMA CountsKeeps ==
  ASSUME KeptOK, Counts
  PROVE  KeptOK'
<1> USE DEF KeptOK
<1>1. /\ ex.pc = "counted" /\ ex.todo = <<>> /\ UNCHANGED <<sessions, acked>> /\ Running
  BY DEF Counts, Ready, bundleVars, councilVars, Running
<1>2. Opened /\ Attested(ProposerSeat)
      /\ \A s \in DOMAIN Kernel.votes : Attested(s) /\ Assessed(s, Kernel.votes[s])
  BY <1>1 DEF NotedOK, Proposed
<1>3. CASE Captures("RUN_POSTCONDITION")
  BY <1>1, <1>2, <1>3, ThrownKeeps DEF Captures
<1>4. CASE Goes("prove", <<Entry("record", None, Kernel.record)>>)
  <2>1. /\ ex'.pc = "prove" /\ ex'.todo = <<Entry("record", None, Kernel.record)>>
        /\ ex'.try = ex.try
        /\ Kernel' = Kernel /\ ProposerSeat' = ProposerSeat /\ Running' /\ ExOK' /\ KernelOK'
        /\ \A s : Attested(s)' = Attested(s)
        /\ \A s, v : Assessed(s, v)' = Assessed(s, v)
        /\ Opened' = Opened
    BY <1>1, <1>4, GoesQuietly DEF Place
  <2>2. Entry("record", None, Kernel.record)' = Entry("record", None, Kernel.record)
    BY <2>1 DEF Entry, Same
  <2>3. TodoOK'
    BY <2>1, <2>2 DEF TodoOK, Appending
  <2>4. NotedOK'
    BY <1>2, <2>1 DEF NotedOK
  <2> QED
    BY <2>1, <2>3, <2>4
<1> QED
  BY <1>3, <1>4 DEF Counts

LEMMA ProveKeeps ==
  ASSUME KeptOK, Prove
  PROVE  KeptOK'
<1> USE DEF KeptOK
<1>1. /\ ex.pc = "prove" /\ ex.todo = <<>> /\ UNCHANGED <<sessions, acked>> /\ Running
  BY DEF Prove, Ready, bundleVars, councilVars, Running
<1>2. Opened /\ Attested(ProposerSeat)
      /\ \A s \in DOMAIN Kernel.votes : Attested(s) /\ Assessed(s, Kernel.votes[s])
  BY <1>1 DEF NotedOK, Proposed
<1>3. CASE Throws
  BY <1>1, <1>3, ThrownKeeps DEF Throws
<1>4. CASE /\ Eligible(DurableProof, Kernel.record)
           /\ Goes("proved", <<Entry("proof", None, DurableProof)>>)
  <2>1. PICK q : q = Entry("proof", None, DurableProof)
    OBVIOUS
  <2>2. PICK d : d = Entry("record", None, Kernel.record)
    OBVIOUS
  <2>3. d \in acked
    BY <1>1, <2>2 DEF TodoOK, Appending
  <2>4. /\ ex'.pc = "proved" /\ ex'.todo = <<q>> /\ ex'.try = ex.try
        /\ Kernel' = Kernel /\ ProposerSeat' = ProposerSeat /\ Running' /\ ExOK' /\ KernelOK'
        /\ \A s : Attested(s)' = Attested(s)
        /\ \A s, v : Assessed(s, v)' = Assessed(s, v)
        /\ \A x, y : Proves(x, y)' = Proves(x, y)
        /\ Opened' = Opened
    BY <1>1, <1>4, <2>1, GoesQuietly DEF Place
  <2>5. Proves(q, d)
    BY <1>4, <2>1, <2>2 DEF Proves, Entry
  <2>6. TodoOK'
    BY <1>1, <2>3, <2>4, <2>5 DEF TodoOK
  <2>7. NotedOK'
    BY <1>2, <2>4 DEF NotedOK
  <2> QED
    BY <2>4, <2>6, <2>7
<1> QED
  BY <1>3, <1>4 DEF Prove

LEMMA ConcludesKeeps ==
  ASSUME KeptOK, Concludes \/ Concluded
  PROVE  KeptOK'
<1> USE DEF KeptOK
<1>1. /\ ex.pc \in {"proved", "finalizing"} /\ ex.todo = <<>> /\ UNCHANGED <<sessions, acked>>
      /\ Running
  BY DEF Concludes, Concluded, Ready, Open, councilVars, Running, TodoOK
<1>2. /\ Opened /\ Attested(ProposerSeat)
      /\ \A s \in DOMAIN Kernel.votes : Attested(s) /\ Assessed(s, Kernel.votes[s])
      /\ \E p, d \in acked : Proves(p, d)
  BY <1>1 DEF NotedOK, Proposed, TodoOK
<1>3. CASE Throws
  BY <1>1, <1>3, ThrownKeeps DEF Throws
<1>4. ASSUME NEW pc \in {"finalizing", "done"}, Goes(pc, <<>>)
      PROVE  KeptOK'
  <2>1. /\ ex'.pc = pc /\ ex'.todo = <<>>
        /\ Kernel' = Kernel /\ ProposerSeat' = ProposerSeat /\ Running' /\ ExOK' /\ KernelOK'
        /\ \A s : Attested(s)' = Attested(s)
        /\ \A s, v : Assessed(s, v)' = Assessed(s, v)
        /\ \A x, y : Proves(x, y)' = Proves(x, y)
        /\ Opened' = Opened
    BY <1>1, <1>4, GoesQuietly DEF Place
  <2>2. TodoOK'
    BY <2>1 DEF TodoOK
  <2>3. NotedOK'
    BY <1>1, <1>2, <2>1 DEF NotedOK
  <2> QED
    BY <2>1, <2>2, <2>3
<1> QED
  BY <1>3, <1>4 DEF Concludes, Concluded

LEMMA GoneKeeps ==
  ASSUME KeptOK, Gone
  PROVE  KeptOK'
<1> USE DEF KeptOK
<1>1. /\ ex' = [pc |-> "idle", try |-> ex.try + 1, request |-> None, seats |-> <<>>, at |-> 0,
                vote |-> None, todo |-> <<>>, gated |-> FALSE, final |-> FALSE]
      /\ sessions' = [r \in Request |-> None]
  BY DEF Gone, Out
<1>2. ~Running'
  BY <1>1 DEF Running
<1>3. ExOK'
  <2>1. ex.try + 1 \in Nat \ {0}
    BY DEF ExOK
  <2> QED
    BY <1>1, <1>2, <2>1 DEF ExOK, Place
<1>4. KernelOK'
  BY <1>1, <1>2 DEF KernelOK
<1>5. TodoOK' /\ NotedOK'
  BY <1>1, <1>2 DEF TodoOK, NotedOK
<1> QED
  BY <1>3, <1>4, <1>5

LEMMA Joined ==
  ASSUME NEW a, NEW b, NEW c, NEW d
  PROVE  /\ (<<a, b>> \o <<c>>) \o <<d>> = <<a, b, c, d>>
         /\ (<<a, b>> \o <<>>) \o <<d>> = <<a, b, d>>
<1> DEFINE S == {a, b, c, d}
<1>1. /\ <<a, b>> \in Seq(S) /\ <<c>> \in Seq(S) /\ <<d>> \in Seq(S) /\ <<>> \in Seq(S)
      /\ <<a, b, c>> \in Seq(S) /\ a \in S /\ b \in S /\ c \in S /\ d \in S
  OBVIOUS
<1> HIDE DEF S
<1>2. PICK t : t = <<a, b>> \o <<c>>
  OBVIOUS
<1>3. t \in Seq(S) /\ Len(t) = 3 /\ t[1] = a /\ t[2] = b /\ t[3] = c
  BY <1>1, <1>2
<1>4. t = <<a, b, c>>
  BY <1>3
<1>5. PICK u : u = <<a, b, c>> \o <<d>>
  OBVIOUS
<1>6. u \in Seq(S) /\ Len(u) = 4
  BY <1>1, <1>5
<1>7. u[1] = a /\ u[2] = b /\ u[3] = c /\ u[4] = d
  BY <1>1, <1>5
<1>8. u = <<a, b, c, d>>
  BY <1>6, <1>7
<1>9. <<a, b>> \o <<>> = <<a, b>>
  BY <1>1
<1>10. PICK w : w = <<a, b>> \o <<d>>
  OBVIOUS
<1>11. w \in Seq(S) /\ Len(w) = 3 /\ w[1] = a /\ w[2] = b /\ w[3] = d
  BY <1>1, <1>10
<1>12. w = <<a, b, d>>
  BY <1>11
<1> QED
  BY <1>2, <1>4, <1>5, <1>8, <1>9, <1>10, <1>12

LEMMA StartsKeeps ==
  ASSUME KeptOK, NEW r \in Request, NEW k \in Config, NEW seats, NEW g \in BOOLEAN, NEW f \in BOOLEAN,
         Starts(r, k, seats, g, f)
  PROVE  KeptOK'
<1> USE DEF KeptOK
<1>1. /\ ex.pc = "idle" /\ UNCHANGED acked /\ r.epoch = k.epoch /\ ex.try \in Nat \ {0}
  BY DEF Starts, bundleVars, CreateSession, Admissible, ExOK
<1>2. PICK a, b, c, first : /\ a = Entry("request", None, r.id) /\ b = Entry("config", None, k.epoch)
                            /\ c = Entry("spec", None, r.id) /\ first = Packet(Proposer(r, k), None)
  OBVIOUS
<1>3. PICK todo : todo = <<a, b>> \o (IF g THEN <<c>> ELSE <<>>) \o <<first>>
  OBVIOUS
<1>4. todo = <<a, b, c, first>> \/ todo = <<a, b, first>>
  <2>1. /\ (<<a, b>> \o <<c>>) \o <<first>> = <<a, b, c, first>>
        /\ (<<a, b>> \o <<>>) \o <<first>> = <<a, b, first>>
    BY Joined
  <2> QED
    BY <1>3, <2>1
<1>5. ex' = [pc |-> "invoke", try |-> ex.try, request |-> r, seats |-> seats, at |-> 0,
             vote |-> None, todo |-> todo, gated |-> g, final |-> f]
  BY <1>2, <1>3 DEF Starts, Out
<1>6. PICK s : /\ sessions' = [sessions EXCEPT ![r] = s]
               /\ \E state \in {"CREATED", "COUNCIL_NOT_REQUIRED", "DENIED"} : \E record :
                    s = [state |-> state, config |-> k, commitment |-> None, proposal |-> None,
                         candidate |-> None, votes |-> <<>>, record |-> record]
  <2>1. PICK state \in {"CREATED", "COUNCIL_NOT_REQUIRED", "DENIED"} : state = Immediate(r)
    BY DEF Immediate
  <2>2. \/ Enter(r, NewSession(k, state))
        \/ \E record : Enter(r, [NewSession(k, state) EXCEPT !.record = record])
    BY <2>1 DEF Starts, CreateSession
  <2> QED
    BY <2>1, <2>2 DEF Enter, NewSession
<1>7. ex'.pc = "invoke" /\ ex'.request = r /\ ex'.at = 0 /\ ex'.try = ex.try /\ ex'.todo = todo
  BY <1>5
<1>8. sessions' = [q \in Request |-> sessions'[q]] /\ sessions'[r] = s
  BY <1>6 DEF KernelOK
<1>9. Kernel' = s /\ ProposerSeat' = Proposer(r, k) /\ s.config = k
  BY <1>6, <1>7, <1>8 DEF Kernel, ProposerSeat, Proposer
<1>10. SessionOK(r, s) /\ DOMAIN s.votes = {}
  BY <1>1, <1>6 DEF SessionOK, Frozened
<1>11. Running'
  BY <1>7 DEF Running
<1>12. ExOK'
  BY <1>1, <1>5, <1>11 DEF ExOK, Place
<1>13. KernelOK'
  BY <1>7, <1>8, <1>9, <1>10 DEF KernelOK
<1>14. TodoOK'
  <2>1. /\ RequestEntry' = a /\ ConfigEntry' = b /\ SpecEntry' = c /\ FirstPacket' = first
    BY <1>2, <1>7, <1>9 DEF RequestEntry, ConfigEntry, SpecEntry, FirstPacket, Packet, Entry, Same
  <2>2. BeginsOK'
    BY <1>4, <1>7, <2>1 DEF BeginsOK
  <2> QED
    BY <1>7, <2>2 DEF TodoOK
<1>15. NotedOK'
  BY <1>7, <1>9, <1>10, <1>11 DEF NotedOK, Proposed
<1> QED
  BY <1>12, <1>13, <1>14, <1>15

LEMMA Tails ==
  ASSUME NEW a, NEW b, NEW c, NEW d
  PROVE  /\ Tail(<<a, b, c, d>>) = <<b, c, d>> /\ Tail(<<a, b, c>>) = <<b, c>>
         /\ Tail(<<a, b>>) = <<b>> /\ Tail(<<a>>) = <<>>
         /\ Head(<<a, b, c, d>>) = a /\ Head(<<a, b, c>>) = a
         /\ Head(<<a, b>>) = a /\ Head(<<a>>) = a
  OBVIOUS

(* What was appended is in the bundle; the rest is to be appended.          *)
LEMMA TailKeeps ==
  ASSUME KeptOK, ex.todo # <<>>, ex' = [ex EXCEPT !.todo = Tail(@)], UNCHANGED <<sessions, acked>>,
         Head(ex.todo) \in acked \/ Head(ex.todo).kind = "rejected"
  PROVE  KeptOK'
<1> USE DEF KeptOK
<1>1. ex' = [pc |-> ex.pc, try |-> ex.try, request |-> ex.request, seats |-> ex.seats,
             at |-> ex.at, vote |-> ex.vote, todo |-> Tail(ex.todo), gated |-> ex.gated,
             final |-> ex.final]
  BY DEF ExOK
<1>2. /\ ex'.pc = ex.pc /\ ex'.try = ex.try /\ ex'.request = ex.request /\ ex'.seats = ex.seats
      /\ ex'.at = ex.at /\ ex'.vote = ex.vote /\ ex'.todo = Tail(ex.todo)
  BY <1>1
<1>3. /\ Kernel' = Kernel /\ ProposerSeat' = ProposerSeat /\ Frozen' = Frozen /\ Seat' = Seat
      /\ Voting' = Voting /\ Running' = Running
  BY <1>2, SameKernel, SameSeat DEF Running
<1>4. /\ \A k, x, d : Entry(k, x, d)' = Entry(k, x, d)
      /\ \A k, x : Noted(k, x)' = Noted(k, x)
      /\ \A x : Attested(x)' = Attested(x)
      /\ \A x, v : Assessed(x, v)' = Assessed(x, v)
      /\ \A x, d : Proves(x, d)' = Proves(x, d)
      /\ Opened' = Opened
  BY <1>2, SameLog
<1>5. ExOK'
  BY <1>1, <1>2, <1>3 DEF ExOK
<1>6. KernelOK'
  BY <1>2, <1>3 DEF KernelOK
<1>7. NotedOK'
  BY <1>2, <1>3, <1>4 DEF NotedOK, Proposed
<1>8. \A k, x, d : /\ Entry(k, x, d).kind = k
                   /\ Entry(k, x, d) \in acked => Noted(k, x)
  BY DEF Entry, Noted, Has
<1>9. CASE ex.pc = "invoke" /\ ex.at = 0
  <2> DEFINE a == RequestEntry  b == ConfigEntry  c == SpecEntry  d == FirstPacket
  <2>1. /\ a' = a /\ b' = b /\ c' = c /\ d' = d
    BY <1>2, <1>3 DEF RequestEntry, ConfigEntry, SpecEntry, FirstPacket, Packet, Entry, Same
  <2>2. /\ a.kind # "rejected" /\ b.kind # "rejected" /\ c.kind # "rejected" /\ d.kind # "rejected"
        /\ a \in acked => Noted("request", None)
        /\ b \in acked => Noted("config", None)
        /\ d \in acked => Noted("packet", ProposerSeat)
    BY <1>8 DEF RequestEntry, ConfigEntry, SpecEntry, FirstPacket, Packet
  <2>3. BeginsOK /\ ProposerSeat' = ProposerSeat
    BY <1>3, <1>9 DEF TodoOK
  <2> HIDE DEF a, b, c, d
  <2>4. ASSUME ex.todo = <<a, b, c, d>> \/ ex.todo = <<a, b, d>>
        PROVE  BeginsOK'
    <3>1. Head(ex.todo) = a /\ (ex'.todo = <<b, c, d>> \/ ex'.todo = <<b, d>>)
      <4>1. CASE ex.todo = <<a, b, c, d>>
        BY <1>2, <4>1, Tails
      <4>2. CASE ex.todo = <<a, b, d>>
        BY <1>2, <4>2, Tails
      <4> QED
        BY <2>4, <4>1, <4>2
    <3>2. Noted("request", None)'
      BY <1>4, <2>2, <3>1
    <3> QED
      BY <2>1, <3>1, <3>2 DEF BeginsOK, a, b, c, d
  <2>5. ASSUME ex.todo = <<b, c, d>> \/ ex.todo = <<b, d>>, Noted("request", None)
        PROVE  BeginsOK'
    <3>1. Head(ex.todo) = b /\ (ex'.todo = <<c, d>> \/ ex'.todo = <<d>>)
      <4>1. CASE ex.todo = <<b, c, d>>
        BY <1>2, <4>1, Tails
      <4>2. CASE ex.todo = <<b, d>>
        BY <1>2, <4>2, Tails
      <4> QED
        BY <2>5, <4>1, <4>2
    <3>2. Opened'
      BY <1>4, <2>2, <2>5, <3>1 DEF Opened
    <3> QED
      BY <2>1, <3>1, <3>2 DEF BeginsOK, a, b, c, d
  <2>6. ASSUME ex.todo = <<c, d>> \/ ex.todo = <<d>>, Opened
        PROVE  BeginsOK'
    <3>1. CASE ex.todo = <<c, d>>
      <4>1. ex'.todo = <<d>>
        BY <1>2, <3>1, Tails
      <4> QED
        BY <1>4, <2>1, <2>6, <4>1 DEF BeginsOK, a, b, c, d
    <3>2. CASE ex.todo = <<d>>
      <4>1. ex'.todo = <<>> /\ Head(ex.todo) = d
        BY <1>2, <3>2, Tails
      <4>2. Noted("packet", ProposerSeat)'
        BY <1>4, <2>2, <2>3, <4>1
      <4> QED
        BY <1>4, <2>6, <4>1, <4>2 DEF BeginsOK
    <3> QED
      BY <2>6, <3>1, <3>2
  <2>7. BeginsOK'
    <3>1. \/ ex.todo = <<a, b, c, d>> \/ ex.todo = <<a, b, d>>
          \/ (ex.todo = <<b, c, d>> \/ ex.todo = <<b, d>>) /\ Noted("request", None)
          \/ (ex.todo = <<c, d>> \/ ex.todo = <<d>>) /\ Opened
      BY <2>3 DEF BeginsOK, a, b, c, d
    <3> QED
      BY <2>4, <2>5, <2>6, <3>1
  <2>8. TodoOK'
    BY <1>2, <1>9, <2>7 DEF TodoOK
  <2> QED
    BY <1>5, <1>6, <1>7, <2>8
<1>10. ASSUME NEW e, Appending(e), e.kind # "rejected"
       PROVE  ex'.todo = <<>> /\ e \in acked'
  <2>1. ex.todo = <<e>>
    BY <1>10 DEF Appending
  <2> QED
    BY <1>2, <1>10, <2>1
<1>11. CASE ex.pc = "invoke" /\ ex.at # 0
  <2>1. ex'.todo = <<>> /\ Packet(Seat, Frozen) \in acked'
    BY <1>8, <1>10, <1>11 DEF TodoOK, Packet
  <2>2. Packet(Seat, Frozen)' = Packet(Seat, Frozen)
    BY <1>2, <1>3 DEF Packet, Entry, Same
  <2>3. TodoOK'
    BY <1>2, <1>11, <2>1, <2>2 DEF TodoOK, Appending
  <2> QED
    BY <1>5, <1>6, <1>7, <2>3
<1>12. CASE ex.pc = "answered"
  <2>1. ex'.todo = <<>> /\ Entry("attestation", Seat, Voting) \in acked'
    BY <1>8, <1>10, <1>12 DEF TodoOK
  <2>2. Entry("attestation", Seat, Voting)' = Entry("attestation", Seat, Voting)
    BY <1>2, <1>3 DEF Entry, Same
  <2>3. TodoOK'
    BY <1>2, <1>12, <2>1, <2>2 DEF TodoOK, Appending
  <2> QED
    BY <1>5, <1>6, <1>7, <2>3
<1>13. CASE ex.pc = "submit"
  <2>1. ex'.todo = <<>>
    <3>1. ex.todo = <<Entry("unfrozen", Seat, None)>>
      BY <1>13 DEF TodoOK
    <3> QED
      BY <1>2, <3>1, Tails
  <2>2. TodoOK'
    BY <1>2, <1>13, <2>1 DEF TodoOK
  <2> QED
    BY <1>5, <1>6, <1>7, <2>2
<1>14. CASE ex.pc = "vote"
  <2>1. ex'.todo = <<>> /\ Entry("assessment", Seat, ex.vote) \in acked'
    BY <1>8, <1>10, <1>14 DEF TodoOK
  <2>2. Entry("assessment", Seat, ex.vote)' = Entry("assessment", Seat, ex.vote)
    BY <1>2, <1>3 DEF Entry, Same
  <2>3. TodoOK'
    BY <1>2, <1>14, <2>1, <2>2 DEF TodoOK, Appending
  <2> QED
    BY <1>5, <1>6, <1>7, <2>3
<1>15. CASE ex.pc = "prove"
  <2>1. ex'.todo = <<>> /\ Entry("record", None, Kernel.record) \in acked'
    BY <1>8, <1>10, <1>15 DEF TodoOK
  <2>2. Entry("record", None, Kernel.record)' = Entry("record", None, Kernel.record)
    BY <1>2, <1>3 DEF Entry, Same
  <2>3. TodoOK'
    BY <1>2, <1>15, <2>1, <2>2 DEF TodoOK, Appending
  <2> QED
    BY <1>5, <1>6, <1>7, <2>3
<1>16. CASE ex.pc = "proved"
  <2>1. PICK d \in acked : ex.todo = <<ex.todo[1]>> /\ Proves(ex.todo[1], d)
    BY <1>16 DEF TodoOK
  <2>2. PICK q : q = ex.todo[1]
    OBVIOUS
  <2>3. ex.todo = <<q>> /\ Proves(q, d) /\ q.kind # "rejected"
    BY <2>1, <2>2 DEF Proves
  <2>4. ex'.todo = <<>> /\ q \in acked
    BY <1>2, <2>3
  <2>5. TodoOK'
    BY <1>2, <1>4, <1>16, <2>3, <2>4 DEF TodoOK
  <2> QED
    BY <1>5, <1>6, <1>7, <2>5
<1>17. CASE ex.pc = "thrown"
  <2>1. Opened /\ \A i \in DOMAIN ex.todo : /\ ex.todo[i].kind \in {"rejected", "failure"}
                                             /\ ex.todo[i].try = ex.try
    BY <1>17 DEF TodoOK
  <2>2. PICK x, y : x = ex.todo[1] /\ y = ex.todo[2]
    OBVIOUS
  <2>3. ex.todo = <<x>> \/ ex.todo = <<x, y>>
    BY <1>17, <2>2 DEF TodoOK
  <2>4. ex'.todo = <<>> \/ (ex'.todo = <<y>> /\ ex.todo = <<x, y>>)
    <3>1. CASE ex.todo = <<x>>
      BY <1>2, <3>1, Tails
    <3>2. CASE ex.todo = <<x, y>>
      BY <1>2, <3>2, Tails
    <3> QED
      BY <2>3, <3>1, <3>2
  <2>5. ex.todo = <<x, y>> => y.kind \in {"rejected", "failure"} /\ y.try = ex.try
    <3>1. ASSUME ex.todo = <<x, y>>
          PROVE  2 \in DOMAIN ex.todo
      BY <3>1
    <3> QED
      BY <2>1, <2>2, <3>1
  <2>6. TodoOK'
    <3>1. CASE ex'.todo = <<>>
      BY <1>2, <1>17, <3>1 DEF TodoOK
    <3>2. CASE ex'.todo = <<y>> /\ ex.todo = <<x, y>>
      <4>1. DOMAIN ex'.todo = {1} /\ ex'.todo[1] = y /\ ex'.todo = <<ex'.todo[1]>>
        BY <3>2
      <4> QED
        BY <1>2, <1>4, <1>17, <2>1, <2>5, <3>2, <4>1 DEF TodoOK
    <3> QED
      BY <2>4, <3>1, <3>2
  <2> QED
    BY <1>5, <1>6, <1>7, <2>6
<1> QED
  BY <1>9, <1>11, <1>12, <1>13, <1>14, <1>15, <1>16, <1>17 DEF ExOK, Place, TodoOK

LEMMA AppendedKeeps ==
  ASSUME KeptOK, LinkOK, Appended
  PROVE  KeptOK'
<1>1. /\ call.by = "exercise" /\ call.pc \in {"ok", "blocked"} /\ ex.pc # "finalizing"
      /\ UNCHANGED <<sessions, acked>>
  BY DEF Appended, councilVars
<1>2. ex.todo # <<>> /\ (call.pc = "ok" => Head(ex.todo) \in acked)
  BY <1>1 DEF LinkOK
<1>3. ex.pc # "idle"
  BY <1>2 DEF KeptOK, TodoOK
<1>4. CASE Throws
  BY <1>1, <1>3, <1>4, ThrownKeeps DEF Throws
<1>5. CASE ~Throws
  BY <1>1, <1>2, <1>5, TailKeeps DEF Appended
<1> QED
  BY <1>4, <1>5

-----------------------------------------------------------------------------
(* The exercise and its call of the compiler.                              *)

(* Finalized bundles stay so.                                              *)
LEMMA FinalStays ==
  ASSUME BundleInv, Finalized, [ShadowNext]_exerciseVars
  PROVE  Finalized'
<1>1. ASSUME UNCHANGED files
      PROVE  Finalized'
  BY <1>1 DEF Finalized, IsDocument
<1>2. ~Write
  BY DEF BundleInv, FinalOK, Active, Write, Documents
<1> QED
  BY <1>1, <1>2, StepsOfTheBundle
     DEF Open, Verify, WriteFails, Written, ReadManifest, RenderReport, Returns

(* Between two appends no call is the exercise's.                          *)
LEMMA LinkQuietly ==
  ASSUME LinkOK, ex.todo = <<>>, ex.pc # "finalizing", ex'.pc # "finalizing",
         ex'.pc = "done" => ~ex'.final, UNCHANGED <<files, call, acked>>
  PROVE  LinkOK'
<1>1. call.pc = "idle" \/ call.by # "exercise"
  BY DEF LinkOK
<1> QED
  BY <1>1 DEF LinkOK, Active

LEMMA LinkEnds ==
  ASSUME LinkOK, ex'.pc # "finalizing", ex'.pc = "done" /\ ex'.final => Finalized',
         call' = NoCall
  PROVE  LinkOK'
<1>1. call'.pc = "idle"
  BY DEF NoCall
<1> QED
  BY <1>1 DEF LinkOK, Active

(* The call goes on, or ends.                                              *)
LEMMA LinkGoesOn ==
  ASSUME LinkOK, UNCHANGED ex, Finalized => Finalized', acked \subseteq acked',
         call.pc # "idle", call'.pc # "idle", call'.by = call.by,
         Active' => Active /\ call'.add = call.add /\ call'.final = call.final,
         call'.pc = "ok" => /\ call.add \subseteq acked' /\ Active
                            /\ call.final => Finalized'
  PROVE  LinkOK'
<1>1. call.by \in {"exercise", "operator"}
  BY DEF LinkOK
<1>2. ASSUME call.by = "exercise", ex.pc # "finalizing"
      PROVE  /\ ex.todo # <<>>
             /\ Active' => call'.add = {Head(ex.todo)}
             /\ call'.pc = "ok" => Head(ex.todo) \in acked'
  BY <1>2 DEF LinkOK
<1>3. ASSUME ex.pc = "finalizing"
      PROVE  /\ call.by = "exercise"
             /\ Active' => call'.add = {} /\ call'.final
             /\ call'.pc = "ok" => Finalized'
  BY <1>3 DEF LinkOK
<1>4. Active' /\ call.by = "operator" => \A e \in call'.add : e.kind = "note"
  BY DEF LinkOK
<1>5. ex.pc = "done" /\ ex.final => Finalized'
  BY DEF LinkOK
<1> QED
  BY <1>1, <1>2, <1>3, <1>4, <1>5 DEF LinkOK

LEMMA LinkOfTheBundle ==
  ASSUME BundleInv, LinkOK, Bundle, UNCHANGED <<councilVars, ex>>, Finalized => Finalized'
  PROVE  LinkOK'
<1> USE DEF BundleInv
<1>1. ASSUME NEW result \in {"ok", "blocked"}, Ends(result)
      PROVE  call'.pc = result /\ call'.by = call.by
  BY <1>1 DEF Ends, NoCall
<1>2. CASE Ends("blocked") /\ call.pc # "idle" /\ UNCHANGED acked
  <2>1. call'.pc = "blocked" /\ call'.by = call.by
    BY <1>1, <1>2
  <2> QED
    BY <1>2, <2>1, LinkGoesOn DEF Active
<1>3. CASE Verify /\ ~Ends("blocked")
  <2>1. /\ call.pc = "verify" /\ UNCHANGED acked
        /\ call' = [call EXCEPT !.pc = "write", !.next = call'.next]
    BY <1>3 DEF Verify
  <2>2. call'.pc = "write" /\ call'.by = call.by /\ call'.add = call.add /\ call'.final = call.final
    BY <2>1 DEF CallOK
  <2> QED
    BY <2>1, <2>2, LinkGoesOn DEF Active
<1>4. CASE Write /\ ~Ends("blocked")
  <2>1. /\ call.pc = "write" /\ UNCHANGED acked
        /\ \/ call' = [call EXCEPT !.created = TRUE]
           \/ call' = [call EXCEPT !.at = @ + 1, !.created = FALSE]
    BY <1>4 DEF Write, Filled
  <2>2. /\ call'.pc = call.pc /\ call'.by = call.by
        /\ call'.add = call.add /\ call'.final = call.final
    BY <2>1 DEF CallOK
  <2> QED
    BY <2>1, <2>2, LinkGoesOn DEF Active
<1>5. CASE Written
  <2>1. /\ call.pc = "write" /\ call.at = 4 /\ Ends("ok") /\ UNCHANGED files
        /\ acked' = acked \cup call.add
    BY <1>5 DEF Written, Documents, CallOK
  <2>2. call'.pc = "ok" /\ call'.by = call.by
    BY <1>1, <2>1
  <2>3. call.final => Finalized'
    BY <2>1 DEF WriteOK, Compiled, Finalized, IsDocument, Document
  <2> QED
    BY <2>1, <2>2, <2>3, LinkGoesOn DEF Active
<1> QED
  BY <1>2, <1>3, <1>4, <1>5 DEF Bundle, Verify, Write, WriteFails

LEMMA LinkStep ==
  ASSUME BundleInv, ExerciseInv, [ShadowNext]_exerciseVars
  PROVE  LinkOK'
<1> USE DEF ExerciseInv
<1>1. Finalized => Finalized'
  BY FinalStays
<1>2. CASE DurableAppend
  <2>1. /\ call' = [NoCall EXCEPT !.by = "exercise", !.run = TheRun, !.task = TheTask,
                                  !.add = {Head(ex.todo)}, !.final = FALSE,
                                  !.existing = files["manifest"], !.pc = call'.pc]
        /\ call'.pc \in {"blocked", "verify"} /\ ex.todo # <<>> /\ UNCHANGED <<files, acked, ex>>
    BY <1>2 DEF DurableAppend, Open, NoCall
  <2>2. call'.by = "exercise" /\ call'.add = {Head(ex.todo)}
    BY <2>1 DEF NoCall
  <2>3. ex.pc # "finalizing" /\ ex.pc # "done"
    BY <2>1 DEF TodoOK
  <2> QED
    BY <2>1, <2>2, <2>3 DEF LinkOK, Active
<1>3. CASE Appended
  <2>1. /\ call.by = "exercise" /\ call.pc # "idle" /\ ex.pc # "finalizing" /\ call' = NoCall
        /\ ex' = [ex EXCEPT !.todo = Tail(ex.todo)] \/ Goes("thrown", <<>>)
    BY <1>3 DEF Appended, Throws
  <2>2. ex.todo # <<>>
    BY <2>1 DEF LinkOK
  <2>3. ex.pc # "done"
    BY <2>2 DEF TodoOK
  <2>4. ex'.pc \in {ex.pc, "thrown"}
    BY <2>1 DEF Goes, ExOK
  <2> QED
    BY <2>1, <2>3, <2>4, LinkEnds
<1>4. CASE \E r \in Request, k \in Config, s \in Seating, g, f \in BOOLEAN : Starts(r, k, s, g, f)
  <2>1. ex.pc = "idle" /\ ex'.pc = "invoke" /\ UNCHANGED <<files, call, acked>>
    BY <1>4 DEF Starts, Out, bundleVars
  <2> QED
    BY <2>1, LinkQuietly DEF TodoOK
<1>5. CASE Invoke \/ Answer \/ (\E c \in Content : Propose(c)) \/ NextSeat \/ Vote \/ Count \/ Counts \/ Prove
  <2>1. /\ ex.todo = <<>> /\ ex.pc # "finalizing" /\ UNCHANGED <<files, call, acked>>
    BY <1>5 DEF Ready, Invoke, Answer, Propose, NextSeat, Vote, Count, Counts, Prove, bundleVars
  <2>2. ASSUME NEW pc \in Place \ {"finalizing", "done"}, NEW todo, Goes(pc, todo)
        PROVE  ex'.pc # "finalizing" /\ ex'.pc # "done"
    BY <2>2, GoesTo
  <2>3. /\ \A x : Captures(x) => ex'.pc # "finalizing" /\ ex'.pc # "done"
        /\ Throws => ex'.pc # "finalizing" /\ ex'.pc # "done"
    BY <2>2 DEF Captures, Throws, Place
  <2>4. ASSUME \/ \E v \in VoteValue : ex' = [ex EXCEPT !.pc = "vote", !.vote = v, !.todo = <<Entry("assessment", Seat, v)>>]
               \/ ex' = [ex EXCEPT !.pc = "invoke", !.at = @ + 1, !.todo = <<Packet(ex.seats[ex.at + 1], Frozen)>>]
        PROVE  ex'.pc # "finalizing" /\ ex'.pc # "done"
    <3>1. ex'.pc = "vote" \/ ex'.pc = "invoke"
      BY <2>4 DEF ExOK
    <3> QED
      BY <3>1
  <2>5. ASSUME Invoke \/ Answer \/ NextSeat
        PROVE  ex'.pc # "finalizing" /\ ex'.pc # "done"
    BY <2>2, <2>3, <2>4, <2>5 DEF Invoke, Answer, NextSeat, Place
  <2>6. ASSUME (\E c \in Content : Propose(c)) \/ Vote \/ Count \/ Counts \/ Prove
        PROVE  ex'.pc # "finalizing" /\ ex'.pc # "done"
    BY <2>2, <2>3, <2>6 DEF Propose, Vote, Count, Counts, Prove, Place
  <2>7. ex'.pc # "finalizing" /\ ex'.pc # "done"
    BY <1>5, <2>5, <2>6, <2>1
  <2> QED
    BY <2>1, <2>7, LinkQuietly
<1>6. CASE Concludes
  <2>1. ex.pc = "proved" /\ ex.todo = <<>> /\ UNCHANGED <<files, acked>>
    BY <1>6 DEF Concludes, Ready, Open
  <2>2. CASE ~ex.final
    <3>1. ex'.pc = "done" /\ ex'.final = ex.final /\ UNCHANGED call
      BY <1>6, <2>2, GoesTo DEF Concludes
    <3> QED
      BY <2>1, <2>2, <3>1, LinkQuietly
  <2>3. CASE ex.final
    <3>1. ex'.pc = "finalizing"
      BY <1>6, <2>3, GoesTo DEF Concludes
    <3>2. /\ call' = [NoCall EXCEPT !.by = "exercise", !.run = TheRun, !.task = TheTask,
                                    !.add = {}, !.final = TRUE,
                                    !.existing = files["manifest"], !.pc = call'.pc]
          /\ call'.pc \in {"blocked", "verify"}
      BY <1>6, <2>3 DEF Concludes, Open, NoCall
    <3>3. call'.by = "exercise" /\ call'.add = {} /\ call'.final
      BY <3>2 DEF NoCall
    <3> QED
      BY <3>1, <3>2, <3>3 DEF LinkOK, Active
  <2> QED
    BY <2>2, <2>3
<1>7. CASE Concluded
  <2>1. ex'.pc = "thrown" \/ (ex'.pc = "done" /\ call.pc = "ok")
    BY <1>7, GoesTo DEF Concluded, Throws
  <2>2. ex.pc = "finalizing" /\ call' = NoCall
    BY <1>7 DEF Concluded
  <2> QED
    BY <1>1, <2>1, <2>2, LinkEnds DEF LinkOK
<1>8. CASE Exits
  <2>1. ex.pc \in {"thrown", "done"} /\ ex.todo = <<>> /\ ex'.pc = "idle" /\ UNCHANGED <<files, call, acked>>
    BY <1>8 DEF Exits, Gone, Out
  <2> QED
    BY <2>1, LinkQuietly
<1>9. CASE Crash
  <2>1. ex'.pc = "idle" /\ UNCHANGED <<files, acked>>
    BY <1>9 DEF Crash, Gone, Out
  <2>2. CASE call.by = "exercise"
    BY <1>9, <2>1, <2>2, LinkEnds DEF Crash
  <2>3. CASE call.by # "exercise"
    <3>1. UNCHANGED call
      BY <1>9, <2>3 DEF Crash
    <3> QED
      BY <2>1, <2>3, <3>1 DEF LinkOK, Active
  <2> QED
    BY <2>2, <2>3
<1>10. CASE Operator
  <2>1. CASE call.by = "operator"  /\ call' = NoCall /\ UNCHANGED <<ex, files>>
    BY <1>1, <2>1, LinkEnds DEF LinkOK
  <2>2. CASE \E run \in Run, t \in TaskRecord, n \in SUBSET Note, final \in BOOLEAN :
               /\ Open("operator", run, t, {NoteEntry(m) : m \in n}, final)
               /\ UNCHANGED <<councilVars, ex, spoiled>>
    <3>0. PICK run, t, n, final : /\ Open("operator", run, t, {NoteEntry(m) : m \in n}, final)
                                  /\ UNCHANGED ex
      BY <2>2
    <3>1. PICK add : add = {NoteEntry(m) : m \in n}
      OBVIOUS
    <3>2. call'.by = "operator" /\ call'.add = add /\ call.pc = "idle"
      BY <3>0, <3>1 DEF Open, NoCall
    <3>3. \A e \in call'.add : e.kind = "note"
      BY <3>1, <3>2 DEF NoteEntry
    <3>4. ex'.pc # "finalizing"
      BY <3>0, <3>2 DEF LinkOK
    <3>5. ex'.pc = "done" /\ ex'.final => Finalized'
      BY <1>1, <3>0 DEF LinkOK
    <3> QED
      BY <3>2, <3>3, <3>4, <3>5 DEF LinkOK
  <2> QED
    BY <1>10, <2>1, <2>2 DEF Operator
<1>11. CASE Bundle /\ UNCHANGED <<councilVars, ex>>
  BY <1>1, <1>11, LinkOfTheBundle
<1>12. CASE UNCHANGED <<ex, call, files, acked>>
  <2>1. Finalized' = Finalized
    BY <1>12 DEF Finalized, IsDocument
  <2> QED
    BY <1>12, <2>1 DEF LinkOK, Active
<1>13. CASE UNCHANGED exerciseVars \/ ((ReadManifest \/ RenderReport \/ Spoils) /\ UNCHANGED <<councilVars, ex>>)
  BY <1>12, <1>13 DEF exerciseVars, bundleVars, ReadManifest, RenderReport, Spoils, Spoil
<1> QED
  BY <1>2, <1>3, <1>4, <1>5, <1>6, <1>7, <1>8, <1>9, <1>10, <1>11, <1>13 DEF ShadowNext, Exercise

LEMMA KeptStep ==
  ASSUME BundleInv, ExerciseInv, [ShadowNext]_exerciseVars
  PROVE  KeptOK'
<1> USE DEF ExerciseInv
<1>1. KeptOK
  BY DEF KeptOK
<1>2. CASE UNCHANGED <<ex, sessions>> /\ acked \subseteq acked'
  BY <1>1, <1>2, MoreAcked
<1>3. CASE Exercise
  <2>1. CASE DurableAppend
    BY <1>2, <2>1 DEF DurableAppend, Open, councilVars
  <2>2. CASE Exits \/ Crash
    BY <1>1, <2>2, GoneKeeps DEF Exits, Crash
  <2>3. CASE \E r \in Request, k \in Config, s \in Seating, g, f \in BOOLEAN : Starts(r, k, s, g, f)
    BY <1>1, <2>3, StartsKeeps
  <2>4. CASE Appended
    BY <1>1, <2>4, AppendedKeeps
  <2>5. CASE \E c \in Content : Propose(c)
    BY <1>1, <2>5, ProposeKeeps
  <2>6. CASE Invoke \/ Answer \/ NextSeat
    BY <1>1, <2>6, InvokeKeeps, AnswerKeeps, NextSeatKeeps
  <2>7. CASE Vote \/ Count \/ Counts
    BY <1>1, <2>7, VoteKeeps, CountKeeps, CountsKeeps
  <2>8. CASE Prove \/ Concludes \/ Concluded
    BY <1>1, <2>8, ProveKeeps, ConcludesKeeps
  <2> QED
    BY <1>3, <2>1, <2>2, <2>3, <2>4, <2>5, <2>6, <2>7, <2>8 DEF Exercise
<1>4. CASE Operator
  BY <1>2, <1>4 DEF Operator, Open, councilVars
<1>5. CASE (Bundle \/ ReadManifest \/ RenderReport \/ Spoils) /\ UNCHANGED <<councilVars, ex>>
  <2>1. acked \subseteq acked'
    BY <1>5 DEF Bundle, Verify, Write, WriteFails, Written, ReadManifest, RenderReport, Spoils, Spoil
  <2> QED
    BY <1>2, <1>5, <2>1 DEF councilVars
<1>6. CASE UNCHANGED exerciseVars
  BY <1>2, <1>6 DEF exerciseVars, bundleVars, councilVars
<1> QED
  BY <1>3, <1>4, <1>5, <1>6 DEF ShadowNext

(* The invariant of the exercise: an append it has been told of is in the  *)
(* bundle, and so what its place rests on is.                              *)
THEOREM ExerciseInvariant == ShadowSpec => []ExerciseInv
<1>1. ShadowInit => ExerciseInv
  <2> SUFFICES ASSUME ShadowInit PROVE ExerciseInv
    OBVIOUS
  <2>1. /\ ex = [pc |-> "idle", try |-> 1, request |-> None, seats |-> <<>>, at |-> 0,
                 vote |-> None, todo |-> <<>>, gated |-> FALSE, final |-> FALSE]
        /\ sessions = [r \in Request |-> None] /\ call = NoCall
    BY DEF ShadowInit, CouncilInit, BundleInit, Out
  <2>2. ~Running /\ ex.pc = "idle"
    BY <2>1 DEF Running
  <2>3. ExOK
    BY <2>1, <2>2 DEF ExOK, Place
  <2>4. KernelOK
    BY <2>1, <2>2 DEF KernelOK
  <2>5. TodoOK /\ NotedOK
    BY <2>1, <2>2 DEF TodoOK, NotedOK
  <2>6. LinkOK
    BY <2>1 DEF LinkOK, Active, NoCall
  <2> QED
    BY <2>3, <2>4, <2>5, <2>6 DEF ExerciseInv
<1>2. BundleInv /\ ExerciseInv /\ [ShadowNext]_exerciseVars => ExerciseInv'
  BY KeptStep, LinkStep DEF ExerciseInv, KeptOK
<1> QED
  BY <1>1, <1>2, BundleInvariant, PTL DEF ShadowSpec

(* An exercise that returns leaves the decision and a proof of it that a   *)
(* verifier accepts in the bundle, whatever is appended beside it, and a   *)
(* bundle that it was to finalize is.                                      *)
THEOREM ReturnIsProved == ShadowSpec => []ReturnsMeanProved
<1>1. BundleInv /\ ExerciseInv => ReturnsMeanProved
  <2> SUFFICES ASSUME BundleInv, ExerciseInv, ex.pc = "done"
               PROVE  /\ \E p, d \in Entries : /\ p.kind = "proof" /\ d.kind = "record"
                                               /\ p.try = ex.try /\ Eligible(p.data, d.data)
                      /\ ex.final => Finalized
    BY DEF ReturnsMeanProved
  <2>1. PICK p, d \in acked : Proves(p, d)
    BY DEF ExerciseInv, NotedOK, Running
  <2>2. p \in Entries /\ d \in Entries
    BY DEF BundleInv, AckedIsKept
  <2> QED
    BY <2>1, <2>2 DEF Proves, ExerciseInv, LinkOK
<1> QED
  BY <1>1, BundleInvariant, ExerciseInvariant, PTL

-----------------------------------------------------------------------------
(* What a bundle's evidence says of a decision.                            *)

(* The evidence is what it was, or what a call appends is there too.       *)
LEMMA EntriesChange ==
  ASSUME BundleInv, [ShadowNext]_exerciseVars
  PROVE  \/ Entries' = Entries
         \/ /\ Write /\ UNCHANGED <<sessions, ex>>
            /\ Entries' = Entries \cup call.add /\ Unique(Entries, call.add)
<1> USE DEF BundleInv
<1>1. ASSUME files'["evidence"] = files["evidence"]
      PROVE  Entries' = Entries
  BY <1>1 DEF Entries, IsDocument
<1>2. ASSUME Write, Documents[call.at] = "evidence"
      PROVE  \/ Entries' = Entries
             \/ Entries' = Entries \cup call.add /\ Unique(Entries, call.add)
  <2>1. call.pc = "write" /\ call.at = 2
    BY <1>2 DEF Write, Documents, CallOK
  <2>2. CASE UNCHANGED files
    BY <1>1, <2>2
  <2>3. CASE files' = [files EXCEPT !["evidence"] = Torn] /\ files["evidence"] = Absent
    <3>1. files'["evidence"] = Torn
      BY <2>3 DEF FilesOK, DocName
    <3> QED
      BY <2>3, <3>1 DEF Entries, IsDocument, Absent, Torn
  <2>4. CASE /\ files' = [files EXCEPT !["evidence"] = Document(call.next)]
             /\ call.existing # Absent \/ call.created
    <3>1. files'["evidence"] = Document(call.next)
      BY <2>4 DEF FilesOK, DocName
    <3>2. Entries' = call.next
      BY <3>1 DEF Entries, Document, IsDocument
    <3>3. CASE call.existing # Absent
      BY <2>1, <3>2, <3>3 DEF WriteOK
    <3>4. CASE call.existing = Absent
      <4>1. call.next = call.add
        BY <2>1, <3>4 DEF WriteOK
      <4>2. files["evidence"] = Torn
        BY <1>2, <2>4, <3>4 DEF CallOK
      <4>3. Entries = {}
        BY <4>2 DEF Entries, IsDocument, Torn
      <4> QED
        BY <3>2, <4>1, <4>3 DEF Unique
    <3> QED
      BY <3>3, <3>4
  <2> QED
    BY <1>2, <2>2, <2>3, <2>4 DEF Write, Filled, Compiled
<1>3. ASSUME Write, Documents[call.at] # "evidence"
      PROVE  Entries' = Entries
  <2>1. \/ UNCHANGED files
        \/ \E x : files' = [files EXCEPT ![Documents[call.at]] = x]
    BY <1>3 DEF Write, Filled
  <2>2. files'["evidence"] = files["evidence"]
    BY <1>3, <2>1 DEF FilesOK, DocName
  <2> QED
    BY <1>1, <2>2
<1>4. CASE UNCHANGED files
  BY <1>1, <1>4
<1> QED
  BY <1>2, <1>3, <1>4, StepsOfTheBundle
     DEF Open, Verify, WriteFails, Written, ReadManifest, RenderReport, Returns

(* What an exercise is about to append.                                    *)
LEMMA HeadFacts ==
  ASSUME ExerciseInv, ex.todo # <<>>, NEW h, h = Head(ex.todo)
  PROVE  /\ h.try = ex.try /\ h.kind # "note" /\ ex.pc # "idle"
         /\ h.kind = "config" => h.data = ex.request.epoch /\ h.id = <<"config", None, 0, h.data>>
         /\ h.kind \notin {"request", "config"} => Opened
         /\ h.kind = "assessment" => ex.pc = "vote" /\ h.seat = Seat /\ h.data = ex.vote
         /\ h.kind = "record" => ex.pc = "prove" /\ h.data = Kernel.record
<1> USE DEF ExerciseInv
<1>1. \A k, x, d : /\ Entry(k, x, d).kind = k /\ Entry(k, x, d).try = ex.try
                   /\ Entry(k, x, d).seat = x /\ Entry(k, x, d).data = d
  BY DEF Entry
<1>2. ASSUME NEW e, Appending(e)
      PROVE  h = e
  BY <1>2, Tails DEF Appending
<1>3. ASSUME Running, ~(ex.pc = "invoke" /\ ex.at = 0)
      PROVE  Opened
  BY <1>3 DEF NotedOK
<1>4. CASE ex.pc = "invoke" /\ ex.at = 0
  <2>1. PICK a, b, c, d : /\ a = RequestEntry /\ b = ConfigEntry /\ c = SpecEntry /\ d = FirstPacket
    OBVIOUS
  <2>2. \/ ex.todo = <<a, b, c, d>> \/ ex.todo = <<a, b, d>>
        \/ ex.todo = <<b, c, d>> \/ ex.todo = <<b, d>>
        \/ (ex.todo = <<c, d>> \/ ex.todo = <<d>>) /\ Opened
    BY <1>4, <2>1 DEF TodoOK, BeginsOK
  <2>3. h = a \/ h = b \/ ((h = c \/ h = d) /\ Opened)
    BY <2>2, Tails
  <2>4. ex.request \in Request /\ Kernel.config.epoch = ex.request.epoch
    BY <1>4 DEF ExOK, KernelOK, SessionOK, Running
  <2>5. b.data = ex.request.epoch /\ b.id = <<"config", None, 0, b.data>>
    BY <2>1, <2>4 DEF ConfigEntry, Entry, Same
  <2>6. /\ a.kind = "request" /\ b.kind = "config" /\ c.kind = "spec" /\ d.kind = "packet"
        /\ a.try = ex.try /\ b.try = ex.try /\ c.try = ex.try /\ d.try = ex.try
    BY <1>1, <2>1 DEF RequestEntry, ConfigEntry, SpecEntry, FirstPacket, Packet
  <2> QED
    BY <1>4, <2>3, <2>4, <2>5, <2>6
<1>5. CASE ex.pc = "invoke" /\ ex.at # 0
  <2>1. h = Entry("packet", Seat, Frozen) /\ Opened
    BY <1>2, <1>3, <1>5 DEF TodoOK, Packet, Running
  <2> QED
    BY <1>1, <1>5, <2>1
<1>6. CASE ex.pc = "answered"
  <2>1. h = Entry("attestation", Seat, Voting) /\ Opened
    BY <1>2, <1>3, <1>6 DEF TodoOK, Running
  <2> QED
    BY <1>1, <1>6, <2>1
<1>7. CASE ex.pc = "submit"
  <2>1. ex.todo = <<Entry("unfrozen", Seat, None)>> /\ Opened
    BY <1>3, <1>7 DEF TodoOK, Running
  <2>2. h = Entry("unfrozen", Seat, None)
    BY <2>1, Tails
  <2> QED
    BY <1>1, <1>7, <2>1, <2>2
<1>8. CASE ex.pc = "vote"
  <2>1. h = Entry("assessment", Seat, ex.vote) /\ Opened
    BY <1>2, <1>3, <1>8 DEF TodoOK, Running
  <2> QED
    BY <1>1, <1>8, <2>1
<1>9. CASE ex.pc = "prove"
  <2>1. h = Entry("record", None, Kernel.record) /\ Opened
    BY <1>2, <1>3, <1>9 DEF TodoOK, Running
  <2> QED
    BY <1>1, <1>9, <2>1
<1>10. CASE ex.pc = "proved"
  <2>1. PICK q : q = ex.todo[1]
    OBVIOUS
  <2>2. ex.todo = <<q>> /\ q.kind = "proof" /\ q.try = ex.try /\ Opened
    BY <1>3, <1>10, <2>1 DEF TodoOK, Proves, Running
  <2>3. h = q
    BY <2>2, Tails
  <2> QED
    BY <1>10, <2>2, <2>3
<1>11. CASE ex.pc = "thrown"
  <2>1. PICK x, y : x = ex.todo[1] /\ y = ex.todo[2]
    OBVIOUS
  <2>2. ex.todo = <<x>> \/ ex.todo = <<x, y>>
    BY <1>11, <2>1 DEF TodoOK
  <2>3. h = x /\ 1 \in DOMAIN ex.todo
    <3>1. h = x
      BY <2>2, Tails
    <3>2. 1 \in DOMAIN ex.todo
      BY <2>2
    <3> QED
      BY <3>1, <3>2
  <2>4. Opened /\ h.kind \in {"rejected", "failure"} /\ h.try = ex.try
    BY <1>11, <2>1, <2>3 DEF TodoOK
  <2> QED
    BY <1>11, <2>4
<1> QED
  BY <1>4, <1>5, <1>6, <1>7, <1>8, <1>9, <1>10, <1>11 DEF ExOK, Place, TodoOK

(* What is appended takes nothing from what a decision rests on: it is not *)
(* a vote of that exercise, and if its exercise is another, so is its      *)
(* council epoch.                                                          *)
LEMMA DocumentedGrows ==
  ASSUME NEW E, NEW A, NEW d, Documented(E, d),
         \A e \in A : ~(e.kind = "assessment" /\ e.try = d.try),
         \A e \in A : e.kind \notin Loose =>
           \E c \in Configs(E \cup A, e.try) : c.data = d.data.epoch => e.try = d.try
  PROVE  Documented(E \cup A, d)
<1> DEFINE F == E \cup A
<1>1. \A try, kind, seat : Has(E, try, kind, seat) => Has(F, try, kind, seat)
  BY DEF Has
<1>2. \A s : {f \in F : f.kind = "assessment" /\ f.try = d.try /\ f.seat = s}
             = {f \in E : f.kind = "assessment" /\ f.try = d.try /\ f.seat = s}
  OBVIOUS
<1>3. \A try : Configs(E, try) \subseteq Configs(F, try)
  BY DEF Configs
<1>4. \A e \in F : e.kind \notin Loose =>
        \E c \in Configs(F, e.try) : c.data = d.data.epoch => e.try = d.try
  BY <1>3 DEF Documented, Loose
<1> HIDE DEF F
<1>5. Documented(F, d)
  BY <1>1, <1>2, <1>3, <1>4 DEF Documented, Loose
<1> QED
  BY <1>5 DEF F

(* A call appends the notes of the operator, nothing, or one entry of the  *)
(* exercise.                                                               *)
LEMMA WhatIsAppended ==
  ASSUME LinkOK, call.pc = "write"
  PROVE  \/ \A e \in call.add : e.kind = "note"
         \/ ex.todo # <<>> /\ call.add = {Head(ex.todo)}
<1> QED
  BY DEF LinkOK, Active

LEMMA ConfigsGrow ==
  ASSUME BundleInv, ExerciseInv, EvidenceInv, UNCHANGED ex, NEW h, h = Head(ex.todo), ex.todo # <<>>,
         Unique(Entries, {h}), NEW F, F = Entries \cup {h}, Entries' = F
  PROVE  /\ ConfigsOK'
         /\ h.kind \notin Loose => Configs(F, ex.try) # {}
<1> USE DEF EvidenceInv
<1>1. /\ h.try = ex.try
      /\ h.kind = "config" => h.data = ex.request.epoch /\ h.id = <<"config", None, 0, h.data>>
      /\ h.kind \notin {"request", "config"} => Opened
  BY HeadFacts
<1>2. h.kind = "config" => \A c \in Entries : c.kind = "config" => c.data # h.data
  BY <1>1 DEF ConfigsOK, Unique
<1>3. \A try : Configs(Entries, try) \subseteq Configs(F, try)
  BY DEF Configs
<1>4. h.kind \notin Loose => Configs(F, ex.try) # {}
  <2>1. CASE h.kind = "config"
    BY <1>1, <2>1 DEF Configs
  <2>2. CASE h.kind \notin Loose /\ h.kind # "config"
    <3>1. Noted("config", None)
      BY <1>1, <2>2 DEF Opened, Loose
    <3>2. Configs(Entries, ex.try) # {}
      BY <3>1 DEF Noted, Has, Configs, BundleInv, AckedIsKept
    <3> QED
      BY <1>3, <3>2
  <2> QED
    BY <2>1, <2>2
<1>5. \A e \in F : e.kind = "config" => e.id = <<"config", None, 0, e.data>>
  BY <1>1 DEF ConfigsOK
<1>6. \A e \in F : e.kind \notin Loose => Configs(F, e.try) # {}
  <2>1. \A e \in Entries : e.kind \notin Loose => Configs(F, e.try) # {}
    BY <1>3 DEF ConfigsOK
  <2> QED
    BY <1>1, <1>4, <2>1
<1>7. Running => \A c \in Configs(F, ex.try) : c.data = ex.request.epoch
  BY <1>1 DEF ConfigsOK, Configs
<1>8. \A b, c \in F : b.kind = "config" /\ c.kind = "config" /\ b.data = c.data => b.try = c.try
  BY <1>2 DEF ConfigsOK
<1>9. Running' = Running
  BY DEF Running
<1>10. ConfigsOK'
  BY <1>5, <1>6, <1>7, <1>8, <1>9 DEF ConfigsOK
<1> QED
  BY <1>4, <1>10

(* The decision an exercise appends is documented by what it has appended. *)
LEMMA DecisionDocumented ==
  ASSUME BundleInv, ExerciseInv, EvidenceInv, ex.pc = "prove", NEW h, NEW E,
         h.try = ex.try, h.kind = "record", h.data = Kernel.record, E = Entries \cup {h}
  PROVE  Documented(E, h)
<1> USE DEF ExerciseInv
<1>1. acked \subseteq E
  BY DEF BundleInv, AckedIsKept
<1>2. \A kind, seat : Noted(kind, seat) => Has(E, ex.try, kind, seat)
  BY <1>1 DEF Noted, Has
<1>3. /\ Opened /\ Attested(ProposerSeat) /\ Running
      /\ \A s \in DOMAIN Kernel.votes : Attested(s) /\ Assessed(s, Kernel.votes[s])
  BY DEF NotedOK, Running, Proposed
<1>4. /\ h.data.proposer = ProposerSeat
      /\ h.data.votes = Projection(Kernel.config, Kernel.votes)
      /\ h.data.epoch = ex.request.epoch
      /\ SessionOK(ex.request, Kernel)
  BY <1>3 DEF KernelOK
<1>5. PICK b \in Entries : b.kind = "config" /\ b.try = ex.try
  BY <1>3 DEF Opened, Noted, Has, BundleInv, AckedIsKept
<1>6. b.data = h.data.epoch
  BY <1>3, <1>4, <1>5 DEF EvidenceInv, ConfigsOK, Configs
<1>7. \E c \in Configs(E, h.try) : c.data = h.data.epoch
  BY <1>5, <1>6 DEF Configs
<1>8. ASSUME NEW e \in E, e.kind \notin Loose
      PROVE  \E c \in Configs(E, e.try) : c.data = h.data.epoch => e.try = h.try
  <2>1. CASE e = h
    BY <1>7, <2>1
  <2>2. CASE e \in Entries
    <3>1. PICK c \in Entries : c.kind = "config" /\ c.try = e.try
      BY <1>8, <2>2 DEF EvidenceInv, ConfigsOK, Configs
    <3>2. c.data = h.data.epoch => e.try = h.try
      BY <1>5, <1>6, <3>1 DEF EvidenceInv, ConfigsOK
    <3> QED
      BY <3>1, <3>2 DEF Configs
  <2> QED
    BY <2>1, <2>2
<1>9. ASSUME NEW s \in DOMAIN h.data.votes, NEW cast,
             cast = {e.data : e \in {f \in E : f.kind = "assessment" /\ f.try = h.try /\ f.seat = s}}
      PROVE  /\ cast = {h.data.votes[s]} \ {"MISSING"}
             /\ cast # {} => Has(E, h.try, "packet", s) /\ Has(E, h.try, "attestation", s)
  <2>1. ASSUME NEW e \in E, e.kind = "assessment", e.try = ex.try
        PROVE  e.seat \in DOMAIN Kernel.votes /\ e.data = Kernel.votes[e.seat]
    <3>1. e \in Entries
      BY <2>1
    <3> QED
      BY <1>3, <2>1, <3>1 DEF EvidenceInv, AssessmentsOK
  <2>2. s \in SeatIds(Kernel.config)
        /\ h.data.votes[s] = IF s \in DOMAIN Kernel.votes THEN Kernel.votes[s] ELSE "MISSING"
    BY <1>4, <1>9 DEF Projection
  <2>3. CASE s \in DOMAIN Kernel.votes
    <3>1. Entry("assessment", s, Kernel.votes[s]) \in E /\ Attested(s)
      BY <1>1, <1>3, <2>3 DEF Assessed
    <3>2. PICK e \in E : e.kind = "assessment" /\ e.try = ex.try /\ e.seat = s /\ e.data = Kernel.votes[s]
      BY <3>1 DEF Entry
    <3>3. cast = {Kernel.votes[s]}
      BY <1>9, <2>1, <3>2
    <3>4. Kernel.votes[s] # "MISSING"
      <4>1. Kernel.votes[s] \in {"APPROVE", "REJECT", "ABSTAIN"}
        BY <1>4, <2>3, CouncilAssumption DEF SessionOK
      <4> QED
        BY <4>1
    <3> QED
      BY <1>2, <2>2, <2>3, <3>1, <3>3, <3>4 DEF Attested
  <2>4. CASE s \notin DOMAIN Kernel.votes
    <3>1. cast = {}
      BY <1>9, <2>1, <2>4
    <3> QED
      BY <2>2, <2>4, <3>1
  <2> QED
    BY <2>3, <2>4
<1>10. /\ Has(E, h.try, "request", None)
       /\ \A kind \in {"packet", "attestation"} : Has(E, h.try, kind, h.data.proposer)
  BY <1>2, <1>3, <1>4 DEF Opened, Attested
<1> QED
  BY <1>7, <1>8, <1>9, <1>10 DEF Documented, Loose

LEMMA EvidenceGrows ==
  ASSUME BundleInv, ExerciseInv, EvidenceInv, UNCHANGED <<ex, sessions>>,
         call.pc = "write", Entries' = Entries \cup call.add, Unique(Entries, call.add)
  PROVE  EvidenceInv'
<1> USE DEF ExerciseInv, EvidenceInv
<1>1. Kernel' = Kernel /\ Seat' = Seat /\ Running' = Running
  BY SameKernel, SameSeat DEF Running
<1>2. CASE \A e \in call.add : e.kind = "note"
  <2>1. TriesOK'
    BY <1>2 DEF TriesOK
  <2>2. ConfigsOK'
    <3>1. \A try : Configs(Entries', try) = Configs(Entries, try)
      BY <1>2 DEF Configs
    <3> QED
      BY <1>1, <1>2, <3>1 DEF ConfigsOK, Loose
  <2>3. AssessmentsOK'
    BY <1>1, <1>2 DEF AssessmentsOK
  <2>4. RecordsOK'
    <3>1. ASSUME NEW d \in Entries, d.kind = "record"
          PROVE  Documented(Entries', d)
      <4>1. Documented(Entries, d)
        BY <3>1 DEF RecordsOK
      <4> QED
        BY <1>2, <4>1, DocumentedGrows DEF Loose
    <3> QED
      BY <1>2, <3>1 DEF RecordsOK
  <2> QED
    BY <2>1, <2>2, <2>3, <2>4
<1>3. CASE ex.todo # <<>> /\ call.add = {Head(ex.todo)}
  <2>1. PICK h, F : h = Head(ex.todo) /\ F = Entries \cup {h}
    OBVIOUS
  <2>2. /\ h.try = ex.try /\ h.kind # "note" /\ ex.pc # "idle"
        /\ h.kind = "assessment" => ex.pc = "vote" /\ h.seat = Seat /\ h.data = ex.vote
        /\ h.kind = "record" => ex.pc = "prove" /\ h.data = Kernel.record
    BY <1>3, <2>1, HeadFacts
  <2>3. Entries' = F /\ Unique(Entries, {h})
    BY <1>3, <2>1
  <2>4. ConfigsOK' /\ (h.kind \notin Loose => Configs(F, ex.try) # {})
    BY <1>3, <2>1, <2>3, ConfigsGrow
  <2>5. TriesOK'
    <3>1. h.try \in Nat /\ h.try <= ex.try
      BY <2>2 DEF ExOK
    <3> QED
      BY <2>1, <2>2, <2>3, <3>1 DEF TriesOK
  <2>6. AssessmentsOK'
    BY <1>1, <2>1, <2>2, <2>3 DEF AssessmentsOK
  <2>7. RecordsOK'
    <3>1. ASSUME NEW d \in Entries, d.kind = "record"
          PROVE  Documented(F, d) /\ (d.try = ex.try => ex.pc \in {"prove", "proved", "finalizing", "done", "thrown"})
      <4>1. Documented(Entries, d)
        BY <3>1 DEF RecordsOK
      <4>2. d.try = ex.try => ex.pc \in {"prove", "proved", "finalizing", "done", "thrown"}
        BY <3>1 DEF RecordsOK
      <4>3. ~(h.kind = "assessment" /\ h.try = d.try)
        BY <2>2, <4>2
      <4>4. ASSUME h.kind \notin Loose
            PROVE  \E c \in Configs(F, h.try) : c.data = d.data.epoch => h.try = d.try
        <5>1. PICK c \in F : c.kind = "config" /\ c.try = ex.try
          BY <2>4, <4>4 DEF Configs
        <5>2. PICK b \in Entries : b.kind = "config" /\ b.try = d.try /\ b.data = d.data.epoch
          BY <4>1 DEF Documented, Configs, Loose
        <5>3. c.data = b.data => c.try = b.try
          BY <2>1, <2>3, <2>4, <5>1, <5>2 DEF ConfigsOK
        <5> QED
          BY <2>2, <5>1, <5>2, <5>3 DEF Configs
      <4>5. Documented(Entries \cup {h}, d)
        <5>1. \A e \in {h} : ~(e.kind = "assessment" /\ e.try = d.try)
          BY <4>3
        <5>2. \A e \in {h} : e.kind \notin Loose =>
                \E c \in Configs(Entries \cup {h}, e.try) : c.data = d.data.epoch => e.try = d.try
          BY <2>1, <4>4
        <5> QED
          BY <4>1, <5>1, <5>2, DocumentedGrows
      <4> QED
        BY <2>1, <4>2, <4>5
    <3>2. ASSUME h.kind = "record"
          PROVE  Documented(F, h) /\ ex.pc = "prove"
      BY <2>1, <2>2, <3>2, DecisionDocumented
    <3> QED
      BY <2>1, <2>3, <3>1, <3>2 DEF RecordsOK
  <2> QED
    BY <2>4, <2>5, <2>6, <2>7
<1> QED
  BY <1>2, <1>3, WhatIsAppended

(* The votes of a session, from an event of the kernel to the next.        *)
LEMMA VotesKept ==
  ASSUME KernelOK, Running, ex.request \in Request, ex'.request = ex.request, NEW c,
         \/ SubmitCommitment(ex.request, Sent, c) \/ RevealProposal(ex.request, Sent, c)
         \/ FreezeCandidate(ex.request) \/ Finalize(ex.request)
  PROVE  Kernel'.votes = Kernel.votes
<1>1. Kernel = [state |-> Kernel.state, config |-> Kernel.config,
                commitment |-> Kernel.commitment, proposal |-> Kernel.proposal,
                candidate |-> Kernel.candidate, votes |-> Kernel.votes,
                record |-> Kernel.record]
  BY DEF KernelOK, SessionOK
<1>2. ASSUME NEW k, sessions' = [sessions EXCEPT ![ex.request] = k], k.votes = Kernel.votes
      PROVE  Kernel'.votes = Kernel.votes
  <2>1. sessions'[ex.request] = k
    BY <1>2 DEF KernelOK
  <2> QED
    BY <1>2, <2>1 DEF Kernel
<1>3. CASE SubmitCommitment(ex.request, Sent, c)
  <2>1. PICK k : k = [Kernel EXCEPT !.state = "COMMITMENT_COLLECTION", !.commitment = c]
    OBVIOUS
  <2>2. k.votes = Kernel.votes
    BY <1>1, <2>1
  <2>3. sessions' = [sessions EXCEPT ![ex.request] = k]
    BY <1>3, <2>1 DEF SubmitCommitment, Enter, Kernel
  <2> QED
    BY <1>2, <2>2, <2>3
<1>4. CASE RevealProposal(ex.request, Sent, c)
  <2>1. PICK k : k = [Kernel EXCEPT !.state = "PROPOSAL_REVEAL", !.proposal = c]
    OBVIOUS
  <2>2. k.votes = Kernel.votes
    BY <1>1, <2>1
  <2>3. sessions' = [sessions EXCEPT ![ex.request] = k]
    BY <1>4, <2>1 DEF RevealProposal, Enter, Kernel
  <2> QED
    BY <1>2, <2>2, <2>3
<1>5. CASE FreezeCandidate(ex.request)
  <2>1. PICK k, x : k = [Kernel EXCEPT !.state = "CANDIDATE_FROZEN", !.candidate = x]
                    /\ x = Candidate(ex.request, Kernel.config, Kernel.proposal)
    OBVIOUS
  <2>2. k.votes = Kernel.votes
    BY <1>1, <2>1
  <2>3. sessions' = [sessions EXCEPT ![ex.request] = k]
    BY <1>5, <2>1 DEF FreezeCandidate, Enter, Kernel
  <2> QED
    BY <1>2, <2>2, <2>3
<1>6. CASE Finalize(ex.request)
  <2>1. PICK state, record : sessions' = [sessions EXCEPT ![ex.request] =
                               [Kernel EXCEPT !.state = state, !.record = record]]
    BY <1>6 DEF Finalize, Enter, Kernel
  <2>2. PICK k : k = [Kernel EXCEPT !.state = state, !.record = record]
    OBVIOUS
  <2>3. k.votes = Kernel.votes
    BY <1>1, <2>2
  <2> QED
    BY <1>2, <2>1, <2>2, <2>3
<1> QED
  BY <1>3, <1>4, <1>5, <1>6

LEMMA VoteCast ==
  ASSUME KernelOK, Running, ex.request \in Request, ex'.request = ex.request,
         CastVote(ex.request, Sent, Kernel.candidate, ex.vote)
  PROVE  /\ Seat \notin DOMAIN Kernel.votes /\ DOMAIN Kernel'.votes = DOMAIN Kernel.votes \cup {Seat}
         /\ \A s \in DOMAIN Kernel.votes : Kernel'.votes[s] = Kernel.votes[s]
         /\ Kernel'.votes[Seat] = ex.vote
<1>1. Kernel = [state |-> Kernel.state, config |-> Kernel.config,
                commitment |-> Kernel.commitment, proposal |-> Kernel.proposal,
                candidate |-> Kernel.candidate, votes |-> Kernel.votes,
                record |-> Kernel.record]
  BY DEF KernelOK, SessionOK
<1>2. PICK votes : votes = With(Kernel.votes, Seat, ex.vote)
  OBVIOUS
<1>3. PICK k : k = [Kernel EXCEPT !.state = "VOTING", !.votes = votes]
  OBVIOUS
<1>4. k.votes = votes
  BY <1>1, <1>3
<1>5. k = [Kernel EXCEPT !.state = "VOTING", !.votes = With(@, Sent.seat, ex.vote)]
  <2>1. Sent.seat = Seat
    BY DEF Sent
  <2> QED
    BY <1>1, <1>2, <1>3, <2>1
<1>6. sessions' = [sessions EXCEPT ![ex.request] = k] /\ Seat \notin DOMAIN Kernel.votes
  <2>1. Sent.seat = Seat
    BY DEF Sent
  <2> QED
    BY <1>5, <2>1 DEF CastVote, Enter, Kernel
<1>7. Kernel' = k
  BY <1>6 DEF Kernel, KernelOK
<1>8. DOMAIN votes = DOMAIN Kernel.votes \cup {Seat}
      /\ \A s \in DOMAIN votes : votes[s] = IF s = Seat THEN ex.vote ELSE Kernel.votes[s]
  BY <1>2 DEF With
<1> QED
  BY <1>4, <1>6, <1>7, <1>8

(* A step of the exercise leaves the evidence what it said.                *)
LEMMA EvidenceSays ==
  ASSUME EvidenceInv, Entries' = Entries, ex'.try = ex.try, ex.pc # "idle", ex'.pc # "idle",
         ex.pc \in {"prove", "proved", "finalizing", "done", "thrown"}
           => ex'.pc \in {"prove", "proved", "finalizing", "done", "thrown"},
         Running' => /\ Running /\ ex'.request = ex.request
                     /\ \A s \in DOMAIN Kernel.votes :
                          s \in DOMAIN Kernel'.votes /\ Kernel'.votes[s] = Kernel.votes[s]
                     /\ ex.pc = "vote" =>
                          \/ ex'.pc = "vote" /\ Seat' = Seat /\ ex'.vote = ex.vote
                          \/ Seat \in DOMAIN Kernel'.votes /\ Kernel'.votes[Seat] = ex.vote
  PROVE  EvidenceInv'
<1> USE DEF EvidenceInv
<1>1. TriesOK' /\ ConfigsOK'
  BY DEF TriesOK, ConfigsOK
<1>2. AssessmentsOK'
  <2> SUFFICES ASSUME NEW e \in Entries, e.kind = "assessment", e.try = ex.try, Running'
               PROVE  \/ e.seat \in DOMAIN Kernel'.votes /\ e.data = Kernel'.votes[e.seat]
                      \/ ex'.pc = "vote" /\ e.seat = Seat' /\ e.data = ex'.vote
    BY DEF AssessmentsOK
  <2>1. \/ e.seat \in DOMAIN Kernel.votes /\ e.data = Kernel.votes[e.seat]
        \/ ex.pc = "vote" /\ e.seat = Seat /\ e.data = ex.vote
    BY DEF AssessmentsOK
  <2> QED
    BY <2>1
<1>3. RecordsOK'
  BY DEF RecordsOK
<1> QED
  BY <1>1, <1>2, <1>3

LEMMA EvidenceStays ==
  ASSUME ExerciseInv, EvidenceInv, Entries' = Entries, [ShadowNext]_exerciseVars
  PROVE  EvidenceInv'
<1> USE DEF ExerciseInv
<1> DEFINE S == {"prove", "proved", "finalizing", "done", "thrown"}
<1>1. CASE UNCHANGED <<ex, sessions>>
  <2>1. Kernel' = Kernel /\ Seat' = Seat /\ Running' = Running
    BY <1>1, SameKernel, SameSeat DEF Running
  <2> QED
    BY <1>1, <2>1 DEF EvidenceInv, TriesOK, ConfigsOK, AssessmentsOK, RecordsOK
<1>2. CASE Gone
  <2>1. ex'.try = ex.try + 1 /\ ex'.pc = "idle" /\ ex.try \in Nat
    BY <1>2 DEF Gone, Out, ExOK
  <2>2. ~Running'
    BY <2>1 DEF Running
  <2>3. \A n \in Nat : n <= ex.try => n <= ex'.try /\ n < ex'.try
    BY <2>1
  <2>4. TriesOK' /\ ConfigsOK' /\ AssessmentsOK'
    BY <2>1, <2>2, <2>3 DEF EvidenceInv, TriesOK, ConfigsOK, AssessmentsOK
  <2>5. \A d \in Entries : d.kind = "record" => d.try # ex'.try
    <3>1. \A d \in Entries : d.kind = "record" => d.try \in Nat /\ d.try <= ex.try
      BY DEF EvidenceInv, TriesOK
    <3> QED
      BY <2>1, <3>1
  <2>6. RecordsOK'
    BY <2>5 DEF EvidenceInv, RecordsOK
  <2> QED
    BY <2>4, <2>6 DEF EvidenceInv
<1>3. CASE \E r \in Request, k \in Config, s \in Seating, g, f \in BOOLEAN : Starts(r, k, s, g, f)
  <2>1. ex.pc = "idle" /\ ex'.try = ex.try /\ ex'.pc = "invoke" /\ ex.try \in Nat
    BY <1>3 DEF Starts, Out, ExOK
  <2>2. \A e \in Entries : e.kind # "note" => e.try \in Nat /\ e.try < ex.try
    BY <2>1 DEF EvidenceInv, TriesOK
  <2>3. \A e \in Entries : e.kind # "note" => e.try # ex'.try /\ e.try \in Nat /\ e.try <= ex'.try
    BY <2>1, <2>2
  <2>4. TriesOK' /\ AssessmentsOK' /\ RecordsOK'
    BY <2>1, <2>3 DEF EvidenceInv, TriesOK, AssessmentsOK, RecordsOK
  <2>5. Configs(Entries, ex'.try) = {}
    BY <2>3 DEF Configs
  <2>6. ConfigsOK'
    BY <2>5 DEF EvidenceInv, ConfigsOK
  <2> QED
    BY <2>4, <2>6 DEF EvidenceInv
<1>4. ASSUME ex'.pc = "thrown", ex'.try = ex.try, ex.pc # "idle"
      PROVE  EvidenceInv'
  <2>1. ~Running'
    BY <1>4 DEF Running
  <2> QED
    BY <1>4, <2>1, EvidenceSays
<1>5. ASSUME NEW x, Goes("thrown", x), ex.pc # "idle"
      PROVE  EvidenceInv'
  BY <1>4, <1>5, GoesTo
<1>6. ASSUME UNCHANGED sessions, ex.pc # "idle", ex'.pc # "idle", ex.pc # "thrown" \/ ex'.pc = "thrown",
             ex'.try = ex.try, ex'.request = ex.request,
             ex.pc = "vote" => ex'.pc = "vote" /\ ex'.at = ex.at /\ ex'.seats = ex.seats /\ ex'.vote = ex.vote,
             ex.pc \in S => ex'.pc \in S
      PROVE  EvidenceInv'
  <2>1. Kernel' = Kernel /\ ProposerSeat' = ProposerSeat
    BY <1>6, SameKernel
  <2>2. ex.pc = "vote" => Seat' = Seat
    BY <1>6, <2>1, SameSeat
  <2>3. Running' => Running
    BY <1>6 DEF Running
  <2> QED
    BY <1>6, <2>1, <2>2, <2>3, EvidenceSays
<1>7. CASE Appended
  <2>1. call.by = "exercise" /\ call.pc # "idle" /\ ex.pc # "finalizing" /\ UNCHANGED sessions
    BY <1>7 DEF Appended, councilVars
  <2>2. ex.pc # "idle"
    BY <2>1 DEF LinkOK, TodoOK
  <2>3. CASE Throws
    BY <1>5, <2>2, <2>3 DEF Throws
  <2>4. CASE ex' = [ex EXCEPT !.todo = Tail(ex.todo)]
    <3>1. /\ ex'.pc = ex.pc /\ ex'.try = ex.try /\ ex'.request = ex.request
          /\ ex'.at = ex.at /\ ex'.seats = ex.seats /\ ex'.vote = ex.vote
      BY <2>4 DEF ExOK
    <3> QED
      BY <1>6, <2>1, <2>2, <3>1
  <2> QED
    BY <1>7, <2>3, <2>4 DEF Appended
<1>8. ASSUME UNCHANGED sessions, NEW pc \in {"answered", "submit", "count", "prove", "proved", "finalizing", "done"},
             NEW x, Goes(pc, x), ex.pc \notin {"idle", "vote", "thrown"}, ex.pc \in S => pc \in S
      PROVE  EvidenceInv'
  <2>1. ex'.pc = pc /\ ex'.try = ex.try /\ ex'.request = ex.request
    BY <1>8, GoesTo
  <2> QED
    BY <1>6, <1>8, <2>1
<1>9. CASE Invoke
  BY <1>5, <1>8, <1>9 DEF Invoke, Ready, Captures, councilVars
<1>10. CASE Answer
  <2>1. ex.pc = "answered" /\ UNCHANGED sessions
    BY <1>10 DEF Answer, Ready, councilVars
  <2>2. CASE \E v \in VoteValue : ex' = [ex EXCEPT !.pc = "vote", !.vote = v, !.todo = <<Entry("assessment", Seat, v)>>]
    <3>1. ex'.pc = "vote" /\ ex'.try = ex.try /\ ex'.request = ex.request
      BY <2>2 DEF ExOK
    <3> QED
      BY <1>6, <2>1, <3>1
  <2> QED
    BY <1>5, <1>8, <1>10, <2>1, <2>2 DEF Answer, Captures
<1>11. CASE NextSeat
  <2>1. ex.pc = "next" /\ UNCHANGED sessions
    BY <1>11 DEF NextSeat, Ready, councilVars
  <2>2. CASE ex' = [ex EXCEPT !.pc = "invoke", !.at = @ + 1, !.todo = <<Packet(ex.seats[ex.at + 1], Frozen)>>]
    <3>1. ex'.pc = "invoke" /\ ex'.try = ex.try /\ ex'.request = ex.request
      BY <2>2 DEF ExOK
    <3> QED
      BY <1>6, <2>1, <3>1
  <2> QED
    BY <1>5, <1>8, <1>11, <2>1, <2>2 DEF NextSeat, Throws
<1>12. CASE Counts \/ Prove \/ Concludes \/ Concluded
  BY <1>5, <1>8, <1>12 DEF Counts, Prove, Concludes, Concluded, Ready, Captures, Throws, councilVars
<1>13. CASE \E c \in Content : Propose(c)
  <2>1. PICK c \in Content : Propose(c)
    BY <1>13
  <2>2. ex.pc \in {"submit", "reveal", "freeze"}
    BY <2>1 DEF Propose, Ready
  <2>3. ASSUME NEW pc \in {"reveal", "freeze", "next"}, Goes(pc, <<>>),
               \/ SubmitCommitment(ex.request, Sent, c) \/ RevealProposal(ex.request, Sent, c)
               \/ FreezeCandidate(ex.request)
        PROVE  EvidenceInv'
    <3>1. ex'.pc = pc /\ ex'.try = ex.try /\ ex'.request = ex.request
      BY <2>3, GoesTo
    <3>2. Running /\ ex.request \in Request
      BY <2>2 DEF Running, ExOK
    <3>3. Kernel'.votes = Kernel.votes
      BY <2>3, <3>1, <3>2, VotesKept
    <3> QED
      BY <2>2, <3>1, <3>2, <3>3, EvidenceSays
  <2> QED
    BY <1>5, <2>1, <2>2, <2>3 DEF Propose, Captures
<1>14. CASE Vote
  <2>1. ex.pc = "vote" /\ Running /\ ex.request \in Request
    BY <1>14 DEF Vote, Ready, Running, ExOK
  <2>2. CASE CastVote(ex.request, Sent, Kernel.candidate, ex.vote) /\ Goes("next", <<>>)
    <3>1. ex'.pc = "next" /\ ex'.try = ex.try /\ ex'.request = ex.request
      BY <2>2, GoesTo
    <3>2. /\ DOMAIN Kernel'.votes = DOMAIN Kernel.votes \cup {Seat}
          /\ \A s \in DOMAIN Kernel.votes : Kernel'.votes[s] = Kernel.votes[s]
          /\ Kernel'.votes[Seat] = ex.vote
      BY <2>1, <2>2, <3>1, VoteCast
    <3> QED
      BY <2>1, <3>1, <3>2, EvidenceSays
  <2> QED
    BY <1>5, <1>14, <2>1, <2>2 DEF Vote, Captures
<1>15. CASE Count
  <2>1. ex.pc = "count" /\ Running /\ ex.request \in Request
    BY <1>15 DEF Count, Ready, Running, ExOK
  <2>2. CASE Finalize(ex.request) /\ Goes("counted", <<>>)
    <3>1. ex'.pc = "counted" /\ ex'.try = ex.try /\ ex'.request = ex.request
      BY <2>2, GoesTo
    <3>2. Kernel'.votes = Kernel.votes
      BY <2>1, <2>2, <3>1, VotesKept
    <3> QED
      BY <2>1, <3>1, <3>2, EvidenceSays
  <2> QED
    BY <1>5, <1>15, <2>1, <2>2 DEF Count, Captures
<1>16. CASE \/ DurableAppend \/ Operator \/ UNCHANGED exerciseVars
            \/ (Bundle \/ ReadManifest \/ RenderReport \/ Spoils) /\ UNCHANGED <<councilVars, ex>>
  BY <1>1, <1>16 DEF DurableAppend, Operator, exerciseVars, councilVars
<1> QED
  BY <1>2, <1>3, <1>7, <1>9, <1>10, <1>11, <1>12, <1>13, <1>14, <1>15, <1>16
     DEF ShadowNext, Exercise, Exits, Crash

(* Whatever is appended and whatever crashes, the record in a bundle       *)
(* stands beside what it was decided from, of its own exercise, and no     *)
(* other exercise of its council epoch has got past its request.           *)
THEOREM DecisionsStayDocumented == ShadowSpec => []DecisionsAreDocumented
<1>1. ShadowInit => EvidenceInv
  <2> SUFFICES ASSUME ShadowInit PROVE EvidenceInv
    OBVIOUS
  <2>1. Entries = {}
    BY DEF ShadowInit, BundleInit, Entries, IsDocument, Absent
  <2> QED
    BY <2>1 DEF EvidenceInv, TriesOK, ConfigsOK, Configs, AssessmentsOK, RecordsOK
<1>2. BundleInv /\ ExerciseInv /\ EvidenceInv /\ [ShadowNext]_exerciseVars => EvidenceInv'
  <2> SUFFICES ASSUME BundleInv, ExerciseInv, EvidenceInv, [ShadowNext]_exerciseVars
               PROVE  EvidenceInv'
    OBVIOUS
  <2>1. CASE Entries' = Entries
    BY <2>1, EvidenceStays
  <2>2. CASE /\ Write /\ UNCHANGED <<sessions, ex>>
             /\ Entries' = Entries \cup call.add /\ Unique(Entries, call.add)
    <3>1. call.pc = "write"
      BY <2>2 DEF Write
    <3>2. UNCHANGED <<ex, sessions>>
      BY <2>2
    <3> QED
      BY <2>2, <3>1, <3>2, EvidenceGrows
  <2> QED
    BY <2>1, <2>2, EntriesChange
<1>3. EvidenceInv => DecisionsAreDocumented
  BY DEF EvidenceInv, RecordsOK, DecisionsAreDocumented
<1> QED
  BY <1>1, <1>2, <1>3, BundleInvariant, ExerciseInvariant, PTL DEF ShadowSpec
=============================================================================
