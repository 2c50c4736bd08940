------------------------------ MODULE AuditLog ------------------------------
(***************************************************************************)
(* The hash-chained audit log of tools/publication-broker/internal/audit:  *)
(* a file of one JSON entry per line, each with the hash of the entry      *)
(* before it, appended to by the goroutines of one broker process that may *)
(* stop at any moment and be started again.                                *)
(*                                                                         *)
(* Hashing is taken to be injective: the hash of an entry is the sequence  *)
(* of the bodies hashed into it.                                           *)
(***************************************************************************)
EXTENDS Naturals, Sequences

CONSTANTS
  Thread,       \* goroutines that call Append
  NoThread,
  MaxEntries,   \* bound on the number of Append calls
  Tear          \* how a write may fail after some of its bytes

ASSUME AuditAssumption ==
  /\ NoThread \notin Thread
  /\ MaxEntries \in Nat
  /\ Tear \subseteq {"partial", "unterminated"}

VARIABLES
  file,       \* the lines of the file
  lastHash,   \* Log.lastHash
  up,         \* the process runs
  mu,         \* who holds Log.mu
  step,       \* where each goroutine is in Append
  entry,      \* the entry it is about to write
  calls,      \* Append calls so far; the body of an entry is its number
  logged      \* history: the bodies whose Append returned without an error

auditVars == <<file, lastHash, up, mu, step, entry, calls, logged>>

Body == 1 .. MaxEntries
Hash(e) == Append(e.prev, e.body)
NoHash == <<>>

NoEntry == [prev |-> NoHash, body |-> 0]

(* A line of the file holds an entry or cannot be parsed, and may lack its *)
(* newline.                                                                *)
LineOf(e, parses, ended) ==
  [prev |-> e.prev, body |-> e.body, parses |-> parses, ended |-> ended]

AuditInit ==
  /\ file = <<>>
  /\ lastHash = NoHash
  /\ up = TRUE
  /\ mu = NoThread
  /\ step = [t \in Thread |-> "idle"]
  /\ entry = [t \in Thread |-> NoEntry]
  /\ calls = 0
  /\ logged = <<>>

-----------------------------------------------------------------------------
(* The file.                                                               *)

(* Bytes that follow a line without a newline become part of that line,    *)
(* which no longer parses.                                                 *)
Written(line) ==
  LET n == Len(file)
  IN IF n > 0 /\ ~file[n].ended
     THEN [file EXCEPT ![n].parses = FALSE, ![n].ended = line.ended]
     ELSE Append(file, line)

(* Open and ReadAll stop with an error at a line that does not parse;      *)
(* Verify also reports a line whose prev_hash is not the hash before it.   *)
Parses == \A i \in 1 .. Len(file) : file[i].parses
TailHash == IF file = <<>> THEN NoHash ELSE Hash(file[Len(file)])
Verifies ==
  /\ Parses
  /\ \A i \in 1 .. Len(file) :
       file[i].prev = IF i = 1 THEN NoHash ELSE Hash(file[i - 1])

-----------------------------------------------------------------------------
(* Append.                                                                 *)

(* Seeded fault: Append without the mutex.                                 *)
LockUnguarded(t) == mu' = t

Lock(t) == mu = NoThread /\ mu' = t

(* An entry with a forbidden key is refused with the mutex given back,     *)
(* which changes nothing.                                                  *)
Begin(t) ==
  /\ up /\ step[t] = "idle" /\ calls < MaxEntries
  /\ Lock(t)
  /\ calls' = calls + 1
  /\ entry' = [entry EXCEPT ![t] = [prev |-> lastHash, body |-> calls + 1]]
  /\ step' = [step EXCEPT ![t] = "write"]
  /\ UNCHANGED <<file, lastHash, up, logged>>

Leave(t) ==
  /\ mu' = NoThread
  /\ step' = [step EXCEPT ![t] = "idle"]
  /\ entry' = [entry EXCEPT ![t] = NoEntry]

Write(t) ==
  /\ step[t] = "write"
  /\ file' = Written(LineOf(entry[t], TRUE, TRUE))
  /\ step' = [step EXCEPT ![t] = "update"]
  /\ UNCHANGED <<lastHash, up, mu, entry, calls, logged>>

(* What a write that stops early leaves behind.                            *)
Torn(e) ==
  {Written(LineOf(e, how = "unterminated", FALSE)) : how \in Tear}

(* Seeded fault: lastHash is moved on whether or not the write succeeds.   *)
WriteFailsAfterUpdate(t) ==
  /\ step[t] = "write"
  /\ file' \in {file} \cup Torn(entry[t])
  /\ lastHash' = Hash(entry[t])
  /\ Leave(t)
  /\ UNCHANGED <<up, calls, logged>>

(* The open or the write fails, perhaps with a part of the line written.   *)
WriteFails(t) ==
  /\ step[t] = "write"
  /\ file' \in {file} \cup Torn(entry[t])
  /\ Leave(t)
  /\ UNCHANGED <<lastHash, up, calls, logged>>

Update(t) ==
  /\ step[t] = "update"
  /\ lastHash' = Hash(entry[t])
  /\ logged' = Append(logged, entry[t].body)
  /\ Leave(t)
  /\ UNCHANGED <<file, up, calls>>

-----------------------------------------------------------------------------
(* The process.                                                            *)

(* It may stop in the middle of a write.                                   *)
Stop ==
  /\ up
  /\ up' = FALSE
  /\ file' \in {file} \cup UNION {Torn(entry[t]) : t \in {x \in Thread : step[x] = "write"}}
  /\ mu' = NoThread
  /\ step' = [t \in Thread |-> "idle"]
  /\ entry' = [t \in Thread |-> NoEntry]
  /\ lastHash' = NoHash
  /\ UNCHANGED <<calls, logged>>

(* The broker does not start when Open reports an error.                   *)
Open ==
  /\ ~up /\ Parses
  /\ up' = TRUE
  /\ lastHash' = TailHash
  /\ UNCHANGED <<file, mu, step, entry, calls, logged>>

AuditNext ==
  \/ Stop
  \/ Open
  \/ \E t \in Thread : Begin(t) \/ Write(t) \/ WriteFails(t) \/ Update(t)

AuditSpec == AuditInit /\ [][AuditNext]_auditVars

-----------------------------------------------------------------------------
(* Properties.                                                             *)

(* Whatever a failed or interrupted write leaves behind, the entries before *)
(* the first line that does not parse are a chain.                         *)
ChainVerifiesUpToDamage ==
  \A i \in 1 .. Len(file) :
    (\A j \in 1 .. i : file[j].parses)
      => file[i].prev = IF i = 1 THEN NoHash ELSE Hash(file[i - 1])

(* While every line parses, what Append reported as logged can be read     *)
(* back in the order logged, whoever appends, however often an append      *)
(* fails and the process stops and starts.                                 *)
LoggedIsReadable ==
  Parses => \A i, j \in 1 .. Len(logged) :
    /\ \E k \in 1 .. Len(file) : file[k].body = logged[i]
    /\ i < j => \A k, l \in 1 .. Len(file) :
                  file[k].body = logged[i] /\ file[l].body = logged[j] => k < l
=============================================================================
