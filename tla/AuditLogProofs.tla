--------------------------- MODULE AuditLogProofs ---------------------------
(***************************************************************************)
(* The two properties of the audit log, for any number of goroutines and   *)
(* of appends.                                                             *)
(*                                                                         *)
(* Why they hold: the mutex is held from the reading of lastHash to its    *)
(* update, so whoever writes holds the hash of the last line, as long as   *)
(* the file is clean; bytes without a newline turn the next line into one  *)
(* that does not parse, so that nothing that parses comes after damage;    *)
(* and entries are numbered under the same mutex.                          *)
(***************************************************************************)
EXTENDS AuditLog, TLAPS

Line == [prev : Seq(Nat), body : Nat, parses : BOOLEAN, ended : BOOLEAN]

(* The next line written is a line of its own, behind what is readable.    *)
Clean == Parses /\ (Len(file) > 0 => file[Len(file)].ended)

Numbered == \A k, l \in 1 .. Len(file) : k < l => file[k].body < file[l].body

FileInv == /\ file \in Seq(Line)
           /\ ChainVerifiesUpToDamage
           /\ Parses => Numbered

LogInv == /\ lastHash \in Seq(Nat) /\ up \in BOOLEAN
          /\ calls \in Nat /\ logged \in Seq(Nat)
          /\ \A k \in 1 .. Len(file) : file[k].body <= calls
          /\ \A i, j \in 1 .. Len(logged) : i < j => logged[i] < logged[j]
          /\ \A i \in 1 .. Len(logged) : logged[i] <= calls
          /\ Parses => \A i \in 1 .. Len(logged) :
                           \E k \in 1 .. Len(file) : file[k].body = logged[i]
          /\ up /\ Clean /\ (\A t \in Thread : step[t] # "update") => lastHash = TailHash

(* The goroutine that holds the mutex.                                     *)
HolderInv ==
    /\ step \in [Thread -> {"idle", "write", "update"}]
    /\ entry \in [Thread -> [prev : Seq(Nat), body : Nat]]
    /\ \A t \in Thread : step[t] # "idle" =>
          /\ mu = t /\ up
          /\ entry[t].prev = lastHash /\ entry[t].body = calls
          /\ \A i \in 1 .. Len(logged) : logged[i] < calls
    /\ \A t \in Thread : step[t] = "write" => \A k \in 1 .. Len(file) : file[k].body < calls
    /\ \A t \in Thread : step[t] = "update" =>
          /\ Clean => TailHash = Hash(entry[t])
          /\ Parses => \E k \in 1 .. Len(file) : file[k].body = calls

AuditInv == FileInv /\ LogInv /\ HolderInv

-----------------------------------------------------------------------------
(* What the invariant says of the properties.                              *)
LEMMA InvReadable == AuditInv => ChainVerifiesUpToDamage /\ LoggedIsReadable
<1> SUFFICES ASSUME AuditInv
             PROVE  LoggedIsReadable
  BY DEF AuditInv, FileInv
<1> SUFFICES ASSUME Parses, NEW i \in 1 .. Len(logged), NEW j \in 1 .. Len(logged)
             PROVE  /\ \E k \in 1 .. Len(file) : file[k].body = logged[i]
                    /\ i < j => \A k, l \in 1 .. Len(file) :
                          file[k].body = logged[i] /\ file[l].body = logged[j] => k < l
  BY DEF LoggedIsReadable
<1>1. \E k \in 1 .. Len(file) : file[k].body = logged[i]
  BY DEF AuditInv, LogInv
<1>2. ASSUME i < j, NEW k \in 1 .. Len(file), NEW l \in 1 .. Len(file),
             file[k].body = logged[i], file[l].body = logged[j]
      PROVE  k < l
  <2>1. logged[i] < logged[j]
    BY <1>2 DEF AuditInv, LogInv
  <2>2. logged[i] \in Nat /\ logged[j] \in Nat
    <3>1. logged \in Seq(Nat)
      BY DEF AuditInv, LogInv
    <3> QED
      BY <3>1
  <2>3. Numbered
    BY DEF AuditInv, FileInv
  <2>4. ~(l < k) /\ l # k
    <3>1. l < k => file[l].body < file[k].body
      BY <2>3 DEF Numbered
    <3>2. file[k].body < file[l].body
      BY <1>2, <2>1
    <3>3. file[k].body \in Nat /\ file[l].body \in Nat
      BY <1>2, <2>2
    <3> QED
      BY <3>1, <3>2, <3>3
  <2> QED
    BY <2>4
<1> QED
  BY <1>1, <1>2

LEMMA InitAuditInv == AuditInit => AuditInv
<1> SUFFICES ASSUME AuditInit
             PROVE  AuditInv
  OBVIOUS
<1>1. file = <<>> /\ Len(file) = 0 /\ logged = <<>> /\ Len(logged) = 0
  BY DEF AuditInit
<1>2. FileInv
  BY <1>1 DEF FileInv, ChainVerifiesUpToDamage, Numbered
<1>3. LogInv
  BY <1>1 DEF AuditInit, LogInv, TailHash, NoHash
<1>4. HolderInv
  BY <1>1 DEF AuditInit, HolderInv, NoEntry, NoHash
<1> QED
  BY <1>2, <1>3, <1>4 DEF AuditInv

-----------------------------------------------------------------------------
(* What Written returns: the file with one more line, or the file whose    *)
(* unended last line has become one that does not parse.                   *)
LEMMA WrittenAppends ==
    ASSUME file \in Seq(Line), NEW line \in Line,
           ~(Len(file) > 0 /\ ~file[Len(file)].ended)
    PROVE  /\ Written(line) = Append(file, line)
           /\ Written(line) \in Seq(Line)
           /\ Len(Written(line)) = Len(file) + 1
           /\ \A i \in 1 .. Len(file) : Written(line)[i] = file[i]
           /\ Written(line)[Len(file) + 1] = line
BY DEF Written

LEMMA WrittenMerges ==
    ASSUME file \in Seq(Line), NEW line \in Line, file' = Written(line),
           Len(file) > 0 /\ ~file[Len(file)].ended
    PROVE  /\ file' \in Seq(Line) /\ Len(file') = Len(file)
           /\ \A i \in 1 .. Len(file) : /\ file'[i].body = file[i].body
                                        /\ file'[i].prev = file[i].prev
                                        /\ i # Len(file) => file'[i] = file[i]
           /\ ~file'[Len(file)].parses
<1> DEFINE n == Len(file)
           last == [[file[n] EXCEPT !.parses = FALSE] EXCEPT !.ended = line.ended]
<1>1. n \in 1 .. n /\ file[n] \in Line
  OBVIOUS
<1>2. /\ last \in Line /\ last.parses = FALSE
      /\ last.body = file[n].body /\ last.prev = file[n].prev
  BY <1>1 DEF Line
<1>3. file' = [file EXCEPT ![n] = last]
  BY <1>1 DEF Written
<1> HIDE DEF last
<1>4. [file EXCEPT ![n] = last] \in Seq(Line) /\ Len([file EXCEPT ![n] = last]) = n
  BY <1>1, <1>2
<1>5. \A i \in 1 .. n : [file EXCEPT ![n] = last][i] = IF i = n THEN last ELSE file[i]
  BY <1>1
<1> QED
  BY <1>1, <1>2, <1>3, <1>4, <1>5

-----------------------------------------------------------------------------
(* One write, whole or torn.                                               *)
LEMMA WriteKeeps ==
    ASSUME FileInv, NEW line \in Line, file' = Written(line),
           Clean => line.prev = TailHash,
           \A k \in 1 .. Len(file) : file[k].body < line.body
    PROVE  /\ FileInv'
           /\ \A k \in 1 .. Len(file') : file'[k].body <= line.body
           /\ Clean' => line.parses /\ line.ended /\ TailHash' = Hash(line)
           /\ Parses' => /\ Parses
                         /\ \E k \in 1 .. Len(file') : file'[k].body = line.body
                         /\ \A k \in 1 .. Len(file) :
                              \E l \in 1 .. Len(file') : file'[l].body = file[k].body
<1> DEFINE n == Len(file)
<1>1. file \in Seq(Line) /\ n \in Nat
  BY DEF FileInv
<1>2. \A k \in 1 .. n : file[k] \in Line
  BY <1>1
<1>3. CASE n > 0 /\ ~file[n].ended
  <2>0. file \in Seq(Line) /\ Len(file) > 0 /\ ~file[Len(file)].ended
    BY <1>1, <1>3
  <2>1. /\ file' \in Seq(Line) /\ Len(file') = Len(file)
        /\ \A i \in 1 .. Len(file) : /\ file'[i].body = file[i].body
                                     /\ file'[i].prev = file[i].prev
                                     /\ i # Len(file) => file'[i] = file[i]
        /\ ~file'[Len(file)].parses
    BY <2>0, WrittenMerges, Zenon
  <2>2. ~Parses' /\ ~Clean'
    <3>1. n \in 1 .. Len(file') /\ ~file'[n].parses
      BY <1>1, <1>3, <2>1
    <3>2. ~Parses'
      BY <3>1 DEF Parses
    <3> QED
      BY <3>2 DEF Clean
  <2>3. ChainVerifiesUpToDamage'
    <3> SUFFICES ASSUME NEW i \in 1 .. Len(file), \A j \in 1 .. i : file'[j].parses
                 PROVE  file'[i].prev = IF i = 1 THEN NoHash ELSE Hash(file'[i - 1])
      BY <2>1 DEF ChainVerifiesUpToDamage, Hash, NoHash
    <3>1. i # n /\ \A j \in 1 .. i : j \in 1 .. n /\ j # n
      BY <1>1, <1>3, <2>1
    <3>2. \A j \in 1 .. Len(file) : j # Len(file) => file'[j] = file[j]
      BY <2>1, Zenon
    <3>3. \A j \in 1 .. i : file'[j] = file[j]
      BY <3>1, <3>2
    <3>4. \A j \in 1 .. i : file[j].parses
      BY <3>3
    <3>5. file[i].prev = IF i = 1 THEN NoHash ELSE Hash(file[i - 1])
      BY <3>4 DEF FileInv, ChainVerifiesUpToDamage
    <3>6. i \in 1 .. i /\ (i # 1 => i - 1 \in 1 .. i)
      BY <1>1
    <3>7. file'[i] = file[i] /\ (i # 1 => file'[i - 1] = file[i - 1])
      BY <3>3, <3>6
    <3> QED
      BY <3>5, <3>7 DEF Hash
  <2>4. \A k \in 1 .. Len(file) : file'[k].body <= line.body
    <3> TAKE k \in 1 .. Len(file)
    <3>1. file'[k].body = file[k].body
      BY <2>1, Zenon
    <3>2. file[k].body < line.body /\ file[k].body \in Nat /\ line.body \in Nat
      BY <1>2 DEF Line
    <3> QED
      BY <3>1, <3>2
  <2> QED
    BY <2>1, <2>2, <2>3, <2>4 DEF FileInv
<1>4. CASE ~(n > 0 /\ ~file[n].ended)
  <2>1. /\ file' = Append(file, line) /\ file' \in Seq(Line) /\ Len(file') = n + 1
        /\ \A i \in 1 .. n : file'[i] = file[i]
        /\ file'[n + 1] = line
    BY <1>1, <1>4, WrittenAppends
  <2> HIDE DEF n
  <2>2. /\ Parses' => Parses /\ line.parses
        /\ (\A j \in 1 .. n : file'[j].parses) => Clean
    BY <1>1, <1>4, <2>1 DEF Parses, Clean, n
  <2>3. TailHash = IF n = 0 THEN NoHash ELSE Hash(file[n])
    BY <1>1 DEF TailHash, n
  <2>4. ChainVerifiesUpToDamage'
    <3> SUFFICES ASSUME NEW i \in 1 .. (n + 1), \A j \in 1 .. i : file'[j].parses
                 PROVE  file'[i].prev = IF i = 1 THEN NoHash ELSE Hash(file'[i - 1])
      BY <2>1 DEF ChainVerifiesUpToDamage, Hash, NoHash
    <3>1. CASE i = n + 1
      <4>1. line.prev = TailHash
        BY <1>1, <2>2, <3>1
      <4>2. n > 0 => file'[n] = file[n]
        BY <1>1, <2>1
      <4>3. n > 0 => Hash(file'[n]) = Hash(file[n])
        BY <4>2 DEF Hash
      <4>4. file'[i].prev = line.prev /\ i - 1 = n /\ (i = 1 <=> n = 0)
        BY <1>1, <2>1, <3>1
      <4> QED
        BY <1>1, <2>3, <4>1, <4>3, <4>4
    <3>2. CASE i # n + 1
      <4>1. i \in 1 .. n /\ \A j \in 1 .. i : file'[j] = file[j]
        BY <1>1, <2>1, <3>2
      <4>2. file[i].prev = IF i = 1 THEN NoHash ELSE Hash(file[i - 1])
        BY <4>1 DEF FileInv, ChainVerifiesUpToDamage, n
      <4>3. i # 1 => file'[i - 1] = file[i - 1]
        BY <1>1, <4>1
      <4> QED
        BY <4>1, <4>2, <4>3 DEF Hash
    <3> QED
      BY <3>1, <3>2
  <2>5. Parses' => Numbered'
    <3> SUFFICES ASSUME Parses', NEW k \in 1 .. (n + 1), NEW l \in 1 .. (n + 1), k < l
                 PROVE  file'[k].body < file'[l].body
      BY <2>1 DEF Numbered
    <3>1. \A a, b \in 1 .. n : a < b => file[a].body < file[b].body
      BY <2>2 DEF FileInv, Numbered, n
    <3>2. k \in 1 .. n /\ (l \in 1 .. n \/ l = n + 1)
      BY <1>1
    <3> QED
      BY <2>1, <3>1, <3>2 DEF n
  <2>6. \A k \in 1 .. (n + 1) : file'[k].body <= line.body
    <3> TAKE k \in 1 .. (n + 1)
    <3>1. CASE k = n + 1
      BY <2>1, <3>1 DEF Line
    <3>2. CASE k # n + 1
      <4>1. k \in 1 .. n
        BY <1>1, <3>2
      <4>2. file[k].body < line.body /\ file[k].body \in Nat /\ line.body \in Nat
        BY <1>2, <4>1 DEF Line, n
      <4> QED
        BY <2>1, <4>1, <4>2
    <3> QED
      BY <3>1, <3>2
  <2>7. Clean' => line.parses /\ line.ended /\ TailHash' = Hash(line)
    <3>1. file' # <<>> /\ Len(file') > 0 /\ file'[Len(file')] = line
      BY <1>1, <2>1
    <3> QED
      BY <2>2, <3>1 DEF Clean, TailHash, Hash
  <2>8. /\ n + 1 \in 1 .. Len(file') /\ file'[n + 1].body = line.body
        /\ \A k \in 1 .. n : k \in 1 .. Len(file') /\ file'[k].body = file[k].body
    BY <1>1, <2>1
  <2> QED
    BY <2>1, <2>2, <2>4, <2>5, <2>6, <2>7, <2>8 DEF FileInv, n
<1> QED
  BY <1>3, <1>4

-----------------------------------------------------------------------------
(* Steps that leave the file alone.                                        *)
LEMMA FileStays ==
    ASSUME file' = file
    PROVE  /\ FileInv => FileInv'
           /\ Parses' <=> Parses
           /\ Clean' <=> Clean
           /\ TailHash' = TailHash
BY DEF FileInv, ChainVerifiesUpToDamage, Numbered, Parses, Clean, TailHash, Hash, NoHash

(* Only one goroutine is in Append.                                        *)
LEMMA OneHolder ==
    ASSUME AuditInv, NEW t \in Thread, step[t] # "idle",
           NEW u \in Thread, step[u] # "idle"
    PROVE  u = t
BY DEF AuditInv, HolderInv

(* What the goroutine that writes knows of its line.                       *)
LEMMA WriterKnows ==
    ASSUME AuditInv, NEW t \in Thread, step[t] = "write",
           NEW line, \E parses, ended \in BOOLEAN : line = LineOf(entry[t], parses, ended)
    PROVE  /\ line \in Line
           /\ line.prev = entry[t].prev /\ line.body = calls
           /\ Hash(line) = Hash(entry[t])
           /\ Clean => line.prev = TailHash
           /\ \A k \in 1 .. Len(file) : file[k].body < line.body
<1>1. entry[t] \in [prev : Seq(Nat), body : Nat]
  BY DEF AuditInv, HolderInv
<1>2. up /\ entry[t].prev = lastHash /\ entry[t].body = calls
  BY DEF AuditInv, HolderInv
<1>3. \A u \in Thread : step[u] # "update"
  BY OneHolder
<1>4. Clean => entry[t].prev = TailHash
  BY <1>2, <1>3 DEF AuditInv, LogInv
<1>5. \A k \in 1 .. Len(file) : file[k].body < calls
  BY DEF AuditInv, HolderInv
<1>6. line.prev = entry[t].prev /\ line.body = entry[t].body
  BY DEF LineOf
<1>7. line \in Line
  BY <1>1 DEF LineOf, Line
<1> QED
  BY <1>2, <1>4, <1>5, <1>6, <1>7 DEF Hash

(* A write that stops early, or is never begun.                            *)
LEMMA TornKeeps ==
    ASSUME AuditInv, NEW t \in Thread, step[t] = "write",
           file' \in {file} \cup Torn(entry[t])
    PROVE  /\ FileInv'
           /\ \A k \in 1 .. Len(file') : file'[k].body <= calls
           /\ Clean' => Clean /\ TailHash' = TailHash
           /\ Parses' => /\ Parses
                         /\ \A k \in 1 .. Len(file) :
                              \E l \in 1 .. Len(file') : file'[l].body = file[k].body
<1>1. CASE file' = file
  BY <1>1, FileStays DEF AuditInv, LogInv
<1>2. CASE file' \in Torn(entry[t])
  <2>1. PICK how \in Tear : file' = Written(LineOf(entry[t], how = "unterminated", FALSE))
    BY <1>2 DEF Torn
  <2>2. PICK line : /\ line = LineOf(entry[t], how = "unterminated", FALSE)
                    /\ file' = Written(line)
    BY <2>1
  <2>3. ~line.ended /\ \E parses, ended \in BOOLEAN : line = LineOf(entry[t], parses, ended)
    BY <2>2 DEF LineOf
  <2>4. /\ line \in Line /\ line.body = calls
        /\ Clean => line.prev = TailHash
        /\ \A k \in 1 .. Len(file) : file[k].body < line.body
    BY <2>3, WriterKnows
  <2>5. /\ FileInv'
        /\ \A k \in 1 .. Len(file') : file'[k].body <= line.body
        /\ Clean' => line.ended
        /\ Parses' => /\ Parses
                      /\ \A k \in 1 .. Len(file) :
                           \E l \in 1 .. Len(file') : file'[l].body = file[k].body
    BY <2>2, <2>3, <2>4, WriteKeeps DEF AuditInv
  <2> QED
    BY <2>3, <2>4, <2>5
<1> QED
  BY <1>1, <1>2

-----------------------------------------------------------------------------
(* Append, step by step.                                                   *)
LEMMA BeginKeeps ==
    ASSUME AuditInv, NEW t \in Thread, Begin(t)
    PROVE  AuditInv'
<1>1. \A u \in Thread : step[u] = "idle"
  BY AuditAssumption DEF AuditInv, HolderInv, Begin, Lock
<1>2. /\ up /\ mu' = t /\ calls' = calls + 1
      /\ UNCHANGED <<file, lastHash, up, logged>>
  BY DEF Begin, Lock
<1>3. FileInv' /\ (Parses' <=> Parses) /\ (Clean' <=> Clean) /\ TailHash' = TailHash
  BY <1>2, FileStays DEF AuditInv
<1>4. LogInv
  BY DEF AuditInv
<1>5. \A k \in 1 .. Len(file) : file[k].body < calls'
  <2> TAKE k \in 1 .. Len(file)
  <2>1. file[k] \in Line /\ calls \in Nat
    BY <1>4 DEF AuditInv, FileInv, LogInv
  <2>2. file[k].body \in Nat
    BY <2>1 DEF Line
  <2>3. file[k].body <= calls
    BY <1>4 DEF LogInv
  <2> QED
    BY <1>2, <2>1, <2>2, <2>3
<1>6. \A i \in 1 .. Len(logged) : logged[i] < calls'
  <2> TAKE i \in 1 .. Len(logged)
  <2>1. logged[i] \in Nat /\ calls \in Nat /\ logged[i] <= calls
    BY <1>4 DEF LogInv
  <2> QED
    BY <1>2, <2>1
<1>7. /\ step' = [step EXCEPT ![t] = "write"] /\ step \in [Thread -> {"idle", "write", "update"}]
      /\ entry' = [entry EXCEPT ![t] = [prev |-> lastHash, body |-> calls + 1]]
      /\ entry \in [Thread -> [prev : Seq(Nat), body : Nat]]
      /\ lastHash \in Seq(Nat) /\ calls \in Nat
  BY DEF AuditInv, HolderInv, LogInv, Begin
<1>8. LogInv'
  <2>1. \A k \in 1 .. Len(file') : file'[k].body <= calls'
    <3> TAKE k \in 1 .. Len(file')
    <3>1. file[k] \in Line /\ file[k].body < calls' /\ calls' \in Nat
      BY <1>2, <1>5, <1>7 DEF AuditInv, FileInv
    <3>2. file[k].body \in Nat
      BY <3>1 DEF Line
    <3> QED
      BY <1>2, <3>1, <3>2
  <2>2. \A i \in 1 .. Len(logged') : logged'[i] <= calls'
    BY <1>2, <1>4 DEF LogInv
  <2>3. Parses' => \A i \in 1 .. Len(logged') :
                     \E k \in 1 .. Len(file') : file'[k].body = logged'[i]
    BY <1>2, <1>3, <1>4 DEF LogInv
  <2>4. Clean' => lastHash' = TailHash'
    BY <1>1, <1>2, <1>3, <1>4 DEF LogInv
  <2>5. \A i, j \in 1 .. Len(logged') : i < j => logged'[i] < logged'[j]
    BY <1>2, <1>4 DEF LogInv
  <2>6. lastHash' \in Seq(Nat) /\ up' \in BOOLEAN /\ calls' \in Nat /\ logged' \in Seq(Nat)
    BY <1>2, <1>4 DEF LogInv
  <2> QED
    BY <2>1, <2>2, <2>3, <2>4, <2>5, <2>6 DEF LogInv
<1>9. HolderInv'
  <2>1. \A u \in Thread : step'[u] # "idle" => u = t
    BY <1>1, <1>7
  <2>2. step'[t] = "write" /\ entry'[t].prev = lastHash /\ entry'[t].body = calls'
    BY <1>2, <1>7
  <2>3. /\ step' \in [Thread -> {"idle", "write", "update"}]
        /\ entry' \in [Thread -> [prev : Seq(Nat), body : Nat]]
    BY <1>7
  <2> QED
    BY <1>2, <1>5, <1>6, <2>1, <2>2, <2>3 DEF HolderInv
<1> QED
  BY <1>3, <1>8, <1>9 DEF AuditInv

LEMMA WriteStepKeeps ==
    ASSUME AuditInv, NEW t \in Thread, Write(t)
    PROVE  AuditInv'
<1>1. /\ step[t] = "write" /\ FileInv /\ LogInv /\ HolderInv
      /\ UNCHANGED <<lastHash, up, mu, entry, calls, logged>>
      /\ step' = [step EXCEPT ![t] = "update"]
  BY DEF Write, AuditInv
<1>2. \A u \in Thread : step[u] # "idle" => u = t
  BY <1>1, OneHolder
<1>3. PICK line : line = LineOf(entry[t], TRUE, TRUE) /\ file' = Written(line)
  BY DEF Write
<1>4. /\ line \in Line /\ line.body = calls /\ Hash(line) = Hash(entry[t])
      /\ Clean => line.prev = TailHash
      /\ \A k \in 1 .. Len(file) : file[k].body < line.body
  <2>1. \E parses, ended \in BOOLEAN : line = LineOf(entry[t], parses, ended)
    BY <1>3
  <2> QED
    BY <1>1, <2>1, WriterKnows
<1>5. /\ FileInv'
      /\ \A k \in 1 .. Len(file') : file'[k].body <= calls
      /\ Clean' => TailHash' = Hash(entry[t])
      /\ Parses' => /\ Parses
                    /\ \E k \in 1 .. Len(file') : file'[k].body = calls
                    /\ \A k \in 1 .. Len(file) :
                         \E l \in 1 .. Len(file') : file'[l].body = file[k].body
  BY <1>1, <1>3, <1>4, WriteKeeps
<1>6. /\ step' \in [Thread -> {"idle", "write", "update"}] /\ step'[t] = "update"
      /\ \A u \in Thread : u # t => step'[u] = "idle"
  BY <1>1, <1>2 DEF HolderInv
<1>7. Parses' => \A i \in 1 .. Len(logged) :
                   \E k \in 1 .. Len(file') : file'[k].body = logged[i]
  <2> SUFFICES ASSUME Parses', NEW i \in 1 .. Len(logged)
               PROVE  \E k \in 1 .. Len(file') : file'[k].body = logged[i]
    OBVIOUS
  <2>1. PICK k \in 1 .. Len(file) : file[k].body = logged[i]
    BY <1>1, <1>5 DEF LogInv
  <2> QED
    BY <1>5, <2>1
<1>8. LogInv'
  BY <1>1, <1>5, <1>6, <1>7 DEF LogInv
<1>9. HolderInv'
  <2>1. /\ mu = t /\ up /\ entry[t].prev = lastHash /\ entry[t].body = calls
        /\ \A i \in 1 .. Len(logged) : logged[i] < calls
        /\ entry \in [Thread -> [prev : Seq(Nat), body : Nat]]
    BY <1>1 DEF HolderInv
  <2>2. Hash(entry[t])' = Hash(entry[t])
    BY <1>1 DEF Hash
  <2>3. \A u \in Thread : step'[u] # "write" /\ (step'[u] # "idle" => u = t)
    BY <1>6
  <2> QED
    BY <1>1, <1>5, <1>6, <2>1, <2>2, <2>3 DEF HolderInv
<1> QED
  BY <1>5, <1>8, <1>9 DEF AuditInv

(* After Leave nobody is in Append.                                        *)
LEMMA LeaveFrees ==
    ASSUME AuditInv, NEW t \in Thread, step[t] # "idle", Leave(t)
    PROVE  /\ \A u \in Thread : step'[u] = "idle"
           /\ step' \in [Thread -> {"idle", "write", "update"}]
           /\ entry' \in [Thread -> [prev : Seq(Nat), body : Nat]]
           /\ HolderInv'
<1>1. /\ step \in [Thread -> {"idle", "write", "update"}]
      /\ entry \in [Thread -> [prev : Seq(Nat), body : Nat]]
      /\ step' = [step EXCEPT ![t] = "idle"] /\ entry' = [entry EXCEPT ![t] = NoEntry]
  BY DEF AuditInv, HolderInv, Leave
<1>2. \A u \in Thread : step[u] # "idle" => u = t
  BY OneHolder
<1>3. \A u \in Thread : step'[u] = "idle"
  BY <1>1, <1>2
<1>4. NoEntry \in [prev : Seq(Nat), body : Nat]
  BY DEF NoEntry, NoHash
<1>5. /\ step' \in [Thread -> {"idle", "write", "update"}]
      /\ entry' \in [Thread -> [prev : Seq(Nat), body : Nat]]
  BY <1>1, <1>4
<1> QED
  BY <1>3, <1>5 DEF HolderInv

LEMMA WriteFailsKeeps ==
    ASSUME AuditInv, NEW t \in Thread, WriteFails(t)
    PROVE  AuditInv'
<1>1. /\ step[t] = "write" /\ Leave(t) /\ LogInv
      /\ UNCHANGED <<lastHash, up, calls, logged>>
      /\ file' \in {file} \cup Torn(entry[t])
  BY DEF WriteFails, AuditInv
<1>2. HolderInv'
  BY <1>1, LeaveFrees
<1>3. /\ FileInv'
      /\ \A k \in 1 .. Len(file') : file'[k].body <= calls
      /\ Clean' => Clean /\ TailHash' = TailHash
      /\ Parses' => /\ Parses
                    /\ \A k \in 1 .. Len(file) :
                         \E l \in 1 .. Len(file') : file'[l].body = file[k].body
  BY <1>1, TornKeeps
<1>4. Parses' => \A i \in 1 .. Len(logged) :
                   \E k \in 1 .. Len(file') : file'[k].body = logged[i]
  <2> SUFFICES ASSUME Parses', NEW i \in 1 .. Len(logged)
               PROVE  \E k \in 1 .. Len(file') : file'[k].body = logged[i]
    OBVIOUS
  <2>1. PICK k \in 1 .. Len(file) : file[k].body = logged[i]
    BY <1>1, <1>3 DEF LogInv
  <2> QED
    BY <1>3, <2>1
<1>5. up /\ Clean' => lastHash = TailHash'
  <2>1. \A u \in Thread : step[u] # "update"
    BY <1>1, OneHolder
  <2> QED
    BY <1>1, <1>3, <2>1 DEF LogInv
<1>6. LogInv'
  BY <1>1, <1>3, <1>4, <1>5 DEF LogInv
<1> QED
  BY <1>2, <1>3, <1>6 DEF AuditInv

LEMMA UpdateKeeps ==
    ASSUME AuditInv, NEW t \in Thread, Update(t)
    PROVE  AuditInv'
<1>1. /\ step[t] = "update" /\ Leave(t) /\ LogInv /\ FileInv
      /\ lastHash' = Hash(entry[t]) /\ logged' = Append(logged, entry[t].body)
      /\ UNCHANGED <<file, up, calls>>
  BY DEF Update, AuditInv
<1>2. HolderInv'
  BY <1>1, LeaveFrees
<1>3. FileInv' /\ (Parses' <=> Parses) /\ (Clean' <=> Clean) /\ TailHash' = TailHash
  BY <1>1, FileStays
<1>4. /\ entry[t] \in [prev : Seq(Nat), body : Nat] /\ entry[t].body = calls
      /\ \A i \in 1 .. Len(logged) : logged[i] < calls
      /\ Clean => TailHash = Hash(entry[t])
      /\ Parses => \E k \in 1 .. Len(file) : file[k].body = calls
  BY <1>1 DEF AuditInv, HolderInv
<1>5. /\ logged \in Seq(Nat) /\ calls \in Nat
      /\ logged' \in Seq(Nat) /\ Len(logged') = Len(logged) + 1
      /\ \A i \in 1 .. Len(logged) : logged'[i] = logged[i]
      /\ logged'[Len(logged) + 1] = calls
  BY <1>1, <1>4 DEF LogInv
<1>6. \A i \in 1 .. Len(logged') : i \in 1 .. Len(logged) \/ i = Len(logged) + 1
  BY <1>5
<1>7. \A i, j \in 1 .. Len(logged') : i < j => logged'[i] < logged'[j]
  <2> SUFFICES ASSUME NEW i \in 1 .. Len(logged'), NEW j \in 1 .. Len(logged'), i < j
               PROVE  logged'[i] < logged'[j]
    OBVIOUS
  <2>1. i \in 1 .. Len(logged)
    BY <1>5, <1>6
  <2>2. CASE j \in 1 .. Len(logged)
    BY <1>1, <1>5, <2>1, <2>2 DEF LogInv
  <2>3. CASE j = Len(logged) + 1
    BY <1>4, <1>5, <2>1, <2>3
  <2> QED
    BY <1>6, <2>2, <2>3
<1>8. \A i \in 1 .. Len(logged') : logged'[i] <= calls
  BY <1>1, <1>5, <1>6 DEF LogInv
<1>9. Parses => \A i \in 1 .. Len(logged') :
                  \E k \in 1 .. Len(file) : file[k].body = logged'[i]
  BY <1>1, <1>4, <1>5, <1>6 DEF LogInv
<1>10. Hash(entry[t]) \in Seq(Nat)
  BY <1>4 DEF Hash
<1>11. LogInv'
  BY <1>1, <1>3, <1>4, <1>5, <1>7, <1>8, <1>9, <1>10 DEF LogInv
<1> QED
  BY <1>2, <1>3, <1>11 DEF AuditInv

-----------------------------------------------------------------------------
(* The process stops and starts.                                           *)
LEMMA StopKeeps ==
    ASSUME AuditInv, Stop
    PROVE  AuditInv'
<1>1. /\ LogInv /\ up' = FALSE /\ lastHash' = NoHash
      /\ step' = [t \in Thread |-> "idle"] /\ entry' = [t \in Thread |-> NoEntry]
      /\ UNCHANGED <<calls, logged>>
  BY DEF Stop, AuditInv
<1>2. /\ FileInv'
      /\ \A k \in 1 .. Len(file') : file'[k].body <= calls
      /\ Parses' => /\ Parses
                    /\ \A k \in 1 .. Len(file) :
                         \E l \in 1 .. Len(file') : file'[l].body = file[k].body
  <2>1. CASE file' = file
    BY <1>1, <2>1, FileStays DEF AuditInv, LogInv
  <2>2. CASE file' # file
    <3>1. PICK t \in Thread : step[t] = "write" /\ file' \in {file} \cup Torn(entry[t])
      BY <2>2 DEF Stop
    <3> QED
      BY <3>1, TornKeeps
  <2> QED
    BY <2>1, <2>2
<1>3. Parses' => \A i \in 1 .. Len(logged) :
                   \E k \in 1 .. Len(file') : file'[k].body = logged[i]
  <2> SUFFICES ASSUME Parses', NEW i \in 1 .. Len(logged)
               PROVE  \E k \in 1 .. Len(file') : file'[k].body = logged[i]
    OBVIOUS
  <2>1. PICK k \in 1 .. Len(file) : file[k].body = logged[i]
    BY <1>1, <1>2 DEF LogInv
  <2> QED
    BY <1>2, <2>1
<1>4. LogInv'
  <2>1. lastHash' \in Seq(Nat)
    BY <1>1 DEF NoHash
  <2>2. up' \in BOOLEAN
    BY <1>1, Zenon
  <2> QED
    BY <1>1, <1>2, <1>3, <2>1, <2>2 DEF LogInv
<1>5. HolderInv'
  <2>1. NoEntry \in [prev : Seq(Nat), body : Nat]
    BY DEF NoEntry, NoHash
  <2> QED
    BY <1>1, <2>1 DEF HolderInv
<1> QED
  BY <1>2, <1>4, <1>5 DEF AuditInv

LEMMA OpenKeeps ==
    ASSUME AuditInv, Open
    PROVE  AuditInv'
<1>1. /\ FileInv /\ LogInv /\ HolderInv /\ ~up /\ up' = TRUE /\ lastHash' = TailHash
      /\ UNCHANGED <<file, mu, step, entry, calls, logged>>
  BY DEF Open, AuditInv
<1>2. FileInv' /\ (Parses' <=> Parses) /\ (Clean' <=> Clean) /\ TailHash' = TailHash
  BY <1>1, FileStays
<1>3. \A t \in Thread : step[t] = "idle"
  BY <1>1 DEF HolderInv
<1>4. TailHash \in Seq(Nat)
  <2>1. CASE file = <<>>
    BY <2>1 DEF TailHash, NoHash
  <2>2. CASE file # <<>>
    <3>1. file[Len(file)] \in Line
      BY <1>1, <2>2 DEF FileInv
    <3>2. file[Len(file)].prev \in Seq(Nat) /\ file[Len(file)].body \in Nat
      BY <3>1 DEF Line
    <3> QED
      BY <2>2, <3>2 DEF TailHash, Hash
  <2> QED
    BY <2>1, <2>2
<1>5. LogInv'
  BY <1>1, <1>2, <1>4 DEF LogInv
<1>6. HolderInv'
  BY <1>1, <1>3 DEF HolderInv
<1> QED
  BY <1>2, <1>5, <1>6 DEF AuditInv

LEMMA StutterKeeps ==
    ASSUME AuditInv, UNCHANGED auditVars
    PROVE  AuditInv'
<1>1. /\ file' = file /\ lastHash' = lastHash /\ up' = up /\ mu' = mu /\ step' = step
      /\ entry' = entry /\ calls' = calls /\ logged' = logged
  BY DEF auditVars
<1>2. FileInv' /\ (Parses' <=> Parses) /\ (Clean' <=> Clean) /\ TailHash' = TailHash
  BY <1>1, FileStays DEF AuditInv
<1>3. LogInv'
  BY <1>1, <1>2 DEF AuditInv, LogInv
<1>4. HolderInv'
  BY <1>1, <1>2 DEF AuditInv, HolderInv, Hash
<1> QED
  BY <1>2, <1>3, <1>4 DEF AuditInv

-----------------------------------------------------------------------------
(* The theorems.                                                           *)

(* AuditInv is an inductive invariant of the log: the mutex is held from   *)
(* the reading of lastHash to its update, and nothing that parses follows  *)
(* damage.                                                                 *)
THEOREM AuditInvariant == AuditSpec => []AuditInv
<1>1. AuditInit => AuditInv
  BY InitAuditInv
<1>2. AuditInv /\ [AuditNext]_auditVars => AuditInv'
  BY BeginKeeps, WriteStepKeeps, WriteFailsKeeps, UpdateKeeps, StopKeeps, OpenKeeps,
     StutterKeeps DEF AuditNext
<1> QED
  BY <1>1, <1>2, PTL DEF AuditSpec

(* Whatever a failed write or a stop in the middle of one leaves in the    *)
(* file, the entries before the damage are a chain, for any number of      *)
(* goroutines and entries.                                                 *)
THEOREM ChainVerifies == AuditSpec => []ChainVerifiesUpToDamage
BY AuditInvariant, InvReadable, PTL

(* What Append reported as logged can be read back from every file that    *)
(* still parses, in the order logged.                                      *)
THEOREM LoggedCanBeRead == AuditSpec => []LoggedIsReadable
BY AuditInvariant, InvReadable, PTL
=============================================================================
