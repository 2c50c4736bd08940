------------------------------ MODULE RunBundle ------------------------------
(***************************************************************************)
(* Run bundles, scripts/dev/run-bundle.mjs and run-bundle-report.mjs: a    *)
(* task record, an evidence manifest and a run manifest that refers to     *)
(* both by hash, written one after the other; appended to until it is      *)
(* finalized, and rendered as a report afterwards.                         *)
(*                                                                         *)
(* A hash is what it hashes, so a reference is the document referred to.   *)
(* An evidence entry has an id and a source file of its own, which others  *)
(* may change.  Calls of writeRunBundle do not overlap; crashes, failing   *)
(* writes and a report may come between any two of its steps.              *)
(***************************************************************************)
EXTENDS Naturals, Sequences

CONSTANTS
  Run,          \* run ids with the context and repository they are bound to
  TaskRecord,
  Nobody

VARIABLES
  files,        \* the three documents of the bundle
  spoiled,      \* ids of entries whose source file is not what was hashed
  call,         \* the call of writeRunBundle in progress
  reader,       \* the manifest a report has read, or Absent
  reports,      \* history: the manifests of rendered reports
  acked         \* history: the entries of the calls that returned OK

bundleVars == <<files, spoiled, call, reader, reports, acked>>

(* A file of the bundle: there is none, it was created and not filled, or   *)
(* it holds a document.                                                    *)
Absent == [is |-> "absent"]
Torn == [is |-> "torn"]
Document(c) == [is |-> "document", content |-> c]
IsDocument(f) == f.is = "document"

Documents == <<"task", "evidence", "manifest">>
Finalized == IsDocument(files["manifest"]) /\ files["manifest"].content.status = "FINALIZED"
Entries == IF IsDocument(files["evidence"]) THEN files["evidence"].content ELSE {}

NoCall == [by |-> Nobody, pc |-> "idle", run |-> Nobody, task |-> Nobody, add |-> {},
           final |-> FALSE, existing |-> Absent, next |-> {}, at |-> 1, created |-> FALSE]

Ends(result) == call' = [NoCall EXCEPT !.by = call.by, !.pc = result]

(* The seeded faults of this module: the finalization gate and the          *)
(* references are not looked at; an append replaces what was there.         *)
OpenUngated(w, run, t, add, final) ==
  /\ call.pc = "idle"
  /\ call' = [NoCall EXCEPT !.by = w, !.run = run, !.task = t, !.add = add, !.final = final,
                            !.existing = files["manifest"],
                            !.pc = IF files["manifest"] = Torn THEN "blocked" ELSE "verify"]
  /\ UNCHANGED <<files, reader, reports, acked>>
RefersUnchecked(m) == TRUE
KeepingNone(old, add) == add

(* The gate: the manifest is read before anything else.  Whether the caller *)
(* has just written the source files is left to it.                        *)
Open(w, run, t, add, final) ==
  /\ call.pc = "idle"
  /\ call' = [NoCall EXCEPT !.by = w, !.run = run, !.task = t, !.add = add, !.final = final,
                            !.existing = files["manifest"],
                            !.pc = IF files["manifest"] = Torn \/ Finalized THEN "blocked" ELSE "verify"]
  /\ UNCHANGED <<files, reader, reports, acked>>

Refers(m) == files["task"] = Document(m.task) /\ files["evidence"] = Document(m.evidence)
Sound(entries) == \A e \in entries : e.id \notin spoiled
Unique(old, add) == \A e \in old, f \in add : e.id # f.id
Keeping(old, add) == old \cup add

(* verifyExistingBundle, verifyImmutableRunIdentity and what is checked of *)
(* the new entries.                                                        *)
Verify ==
  LET new == call.existing = Absent
      old == IF new THEN {} ELSE Entries
      admitted ==
        /\ ~new => LET m == call.existing.content
                   IN Refers(m) /\ m.task = call.task /\ m.run = call.run
        /\ Sound(old \cup call.add) /\ Unique(old, call.add)
  IN
  /\ call.pc = "verify"
  /\ IF admitted THEN call' = [call EXCEPT !.pc = "write", !.next = Keeping(old, call.add)]
     ELSE Ends("blocked")
  /\ UNCHANGED <<files, spoiled, reader, reports, acked>>

Compiled(d) ==
  CASE d = "task" -> call.task
    [] d = "evidence" -> call.next
    [] d = "manifest" -> [status |-> IF call.final THEN "FINALIZED" ELSE "OPEN",
                          run |-> call.run, task |-> call.task, evidence |-> call.next]

Filled(d) ==
  /\ files' = [files EXCEPT ![d] = Document(Compiled(d))]
  /\ call' = [call EXCEPT !.at = @ + 1, !.created = FALSE]

(* exclusiveWrite: a new file is created and then filled, an existing one  *)
(* replaced by a rename.                                                   *)
Write ==
  /\ call.pc = "write" /\ call.at <= Len(Documents)
  /\ LET d == Documents[call.at] IN
     \/ call.existing # Absent /\ Filled(d)
     \/ call.existing = Absent /\ call.created /\ Filled(d)
     \/ /\ call.existing = Absent /\ ~call.created /\ files[d] = Absent
        /\ files' = [files EXCEPT ![d] = Torn]
        /\ call' = [call EXCEPT !.created = TRUE]
     \/ /\ call.existing = Absent /\ ~call.created /\ files[d] # Absent   \* EEXIST
        /\ Ends("blocked") /\ UNCHANGED files
  /\ UNCHANGED <<spoiled, reader, reports, acked>>

(* A write fails, or the chmod of a finalized bundle.                      *)
WriteFails ==
  /\ call.pc = "write" /\ (call.at <= Len(Documents) \/ call.final)
  /\ Ends("blocked")
  /\ UNCHANGED <<files, spoiled, reader, reports, acked>>

Written ==
  /\ call.pc = "write" /\ call.at > Len(Documents)
  /\ Ends("ok")
  /\ acked' = acked \cup call.add
  /\ UNCHANGED <<files, spoiled, reader, reports>>

Bundle == Verify \/ Write \/ WriteFails \/ Written

-----------------------------------------------------------------------------
(* renderRunBundleReport: the manifest, then what it refers to.            *)

ReadManifest ==
  /\ reader = Absent /\ Finalized
  /\ reader' = files["manifest"]
  /\ UNCHANGED <<files, spoiled, call, reports, acked>>

RenderReport ==
  /\ reader # Absent
  /\ reports' = IF Refers(reader.content) /\ Sound(reader.content.evidence) THEN reports \cup {reader} ELSE reports
  /\ reader' = Absent
  /\ UNCHANGED <<files, spoiled, call, acked>>

(* Somebody changes the source file of an entry.                           *)
Spoil(id) ==
  /\ spoiled' = spoiled \cup {id}
  /\ UNCHANGED <<files, call, reader, reports, acked>>

BundleInit ==
  /\ files = [d \in {"task", "evidence", "manifest"} |-> Absent]
  /\ spoiled = {} /\ call = NoCall
  /\ reader = Absent /\ reports = {} /\ acked = {}

-----------------------------------------------------------------------------
(* Properties.                                                             *)

Whole ==
  /\ IsDocument(files["manifest"])
  /\ \A d \in {"task", "evidence"} : files[d] = Document(files["manifest"].content[d])

(* What a call was told is in the bundle stays in it, through every crash  *)
(* and failed write of later calls.                                        *)
AckedIsKept == acked \subseteq Entries

(* A report shows a finalized bundle with everything that was appended to  *)
(* it, though it is read in two steps beside a writer.                     *)
ReportsAreTrue ==
  \A m \in reports : m = files["manifest"] /\ Whole /\ acked \subseteq m.content.evidence

(* A bundle that a crash or a failed write left in between is never        *)
(* written to again: it stays as it is, for whoever comes to look at it.   *)
Broken ==
  /\ \E d \in DOMAIN files : files[d] # Absent
  /\ ~Whole /\ call.at = 1 /\ ~call.created     \* and the call in progress has not written
FailsClosed == [][Broken => Broken' /\ UNCHANGED files]_bundleVars
=============================================================================
