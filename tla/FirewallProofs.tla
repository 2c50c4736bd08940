--------------------------- MODULE FirewallProofs ---------------------------
(***************************************************************************)
(* That settings.json never registers a release whose loader would not     *)
(* verify, for any engine, any number of versions and any hooks; and that  *)
(* receipts, replies and allowed stops are what they should be, for any    *)
(* delegations and any interleaving of their hooks.                        *)
(*                                                                         *)
(* Why the first holds: an address is the content of its release, so that  *)
(* whoever writes below it writes the same bytes; the manifest is written  *)
(* last, so a release that has one is complete and stays so; and only      *)
(* addresses with a manifest get into the settings, into the backups, or   *)
(* into what a running installer has read of the settings.                 *)
(*                                                                         *)
(* Why the others hold: each record is made by the one process its         *)
(* delegation has at that time, of facts the host does not take back; so   *)
(* they do not need the chain of the file, which concurrent hooks break.   *)
(* A stop that is to be blocked does need it, and is the last section.     *)
(***************************************************************************)
EXTENDS Firewall, WellFoundedInduction, TLAPS

Settings == [owned : SUBSET Address, other : Nat]
Copies == [EngineFiles -> Versions \cup {NoFile}]
Release == [engine : Copies, loader : Versions \cup {NoFile},
            manifest : Manifest \cup {NoFile}]

(* A release with all its files.                                           *)
Published(a) == [engine |-> a.files, loader |-> a.commit,
                 manifest |-> [engine |-> a.files, loader |-> a.commit,
                               commit |-> a.commit]]
Complete == {a \in Address : disk[a] = Published(a)}

DiskInv == /\ disk \in [Address -> Release]
           /\ \A a \in Address : disk[a].manifest # NoFile => a \in Complete

SettingsInv == /\ settings \in Settings
               /\ settings.owned \subseteq Complete
               /\ \A owned \in backups : owned \subseteq Complete

SourceInv == source \in Address

(* The installer between its steps.                                        *)
Copying == /\ run \in [pc : {"stage"}, base : Settings, staged : Copies]
           /\ run.base.owned \subseteq Complete
Removing == /\ run \in [pc : {"save", "remove"}, base : Settings]
            /\ run.base.owned \subseteq Complete
Placing ==
    /\ run \in [pc : {"backup", "engine", "manifest", "compare", "rename"},
                base : Settings, staged : Copies, addr : Address]
    /\ run.base.owned \subseteq Complete
    /\ run.pc = "backup" => run.staged = run.addr.files
    /\ run.pc = "engine" =>
         \A f \in EngineFiles :
             IF run.staged[f] = NoFile THEN disk[run.addr].engine[f] = run.addr.files[f]
             ELSE run.staged[f] = run.addr.files[f]
    /\ run.pc = "manifest" => /\ disk[run.addr].engine = run.addr.files
                              /\ disk[run.addr].loader = run.addr.commit
    /\ run.pc \in {"compare", "rename"} => run.addr \in Complete
RunInv == run = Idle \/ Copying \/ Removing \/ Placing

InstallInv == DiskInv /\ SettingsInv /\ SourceInv /\ RunInv

-----------------------------------------------------------------------------
(* A complete release verifies.                                            *)
LEMMA CompleteVerifies ==
    ASSUME NEW a \in Complete
    PROVE  Verifies(a)
<1>1. a \in Address /\ disk[a] = Published(a)
  BY DEF Complete
<1>2. a.commit # NoFile
  BY <1>1, InstallAssumption DEF Address
<1>3. Published(a).manifest \in Manifest
  BY <1>1 DEF Published, Manifest, Address
<1>4. Published(a).manifest # NoFile
  BY <1>3, InstallAssumption
<1>5. /\ Published(a).loader = a.commit
      /\ Published(a).engine = a.files
      /\ Published(a).manifest = [engine |-> a.files, loader |-> a.commit, commit |-> a.commit]
  BY DEF Published
<1> QED
  BY <1>1, <1>2, <1>4, <1>5 DEF Verifies, Recorded

LEMMA InvImplies == InstallInv => InstalledIsEnforceable
<1> SUFFICES ASSUME InstallInv, NEW a \in settings.owned
             PROVE  Verifies(a)
  BY DEF InstalledIsEnforceable
<1>1. a \in Complete
  BY DEF InstallInv, SettingsInv
<1> QED
  BY <1>1, CompleteVerifies

LEMMA FirstIsAddress == FirstSource \in Address
<1>1. 1 \in Versions
  BY InstallAssumption DEF Versions
<1> QED
  BY <1>1 DEF FirstSource, Address

LEMMA InitInstallInv == Init => InstallInv
<1> SUFFICES ASSUME InstallInit
             PROVE  InstallInv
  BY DEF Init
<1>1. DiskInv
  <2>1. Missing \in Release
    BY DEF Missing, Release, Copies
  <2>2. Missing.manifest = NoFile
    BY DEF Missing
  <2>3. disk = [a \in Address |-> Missing]
    BY DEF InstallInit
  <2> QED
    BY <2>1, <2>2, <2>3 DEF DiskInv
<1>2. SettingsInv
  <2>1. settings = [owned |-> {}, other |-> 1] /\ backups = {}
    BY DEF InstallInit
  <2>2. settings \in Settings /\ settings.owned = {}
    BY <2>1 DEF Settings
  <2> QED
    BY <2>1, <2>2 DEF SettingsInv
<1>3. SourceInv
  BY FirstIsAddress DEF InstallInit, SourceInv
<1>4. RunInv
  BY DEF InstallInit, RunInv
<1> QED
  BY <1>1, <1>2, <1>3, <1>4 DEF InstallInv

-----------------------------------------------------------------------------
(* The pc tells which of the four the installer is in.                     *)
LEMMA AtPc ==
    ASSUME RunInv
    PROVE  /\ run.pc = "idle" => run = Idle
           /\ run.pc = "stage" => Copying
           /\ run.pc \in {"save", "remove"} => Removing
           /\ run.pc \in {"backup", "engine", "manifest", "compare", "rename"} => Placing
           /\ run.pc \in {"idle", "stage", "save", "remove", "backup", "engine", "manifest",
                          "compare", "rename"}
<1>1. CASE run = Idle
  BY <1>1 DEF Idle
<1>2. CASE Copying
  <2>1. run.pc = "stage"
    BY <1>2 DEF Copying
  <2> QED
    BY <1>2, <2>1
<1>3. CASE Removing
  <2>1. run.pc \in {"save", "remove"}
    BY <1>3 DEF Removing
  <2> QED
    BY <1>3, <2>1
<1>4. CASE Placing
  <2>1. run.pc \in {"backup", "engine", "manifest", "compare", "rename"}
    BY <1>4 DEF Placing
  <2> QED
    BY <1>4, <2>1
<1> QED
  BY <1>1, <1>2, <1>3, <1>4 DEF RunInv

(* A step that leaves the disk alone keeps what was complete.              *)
LEMMA DiskKept ==
    ASSUME InstallInv, UNCHANGED disk
    PROVE  DiskInv' /\ Complete' = Complete
BY DEF InstallInv, DiskInv, Complete

(* Completeness is kept by what only adds to it: then the settings, the    *)
(* backups and what the installer has read stay complete.                  *)
LEMMA SettingsKept ==
    ASSUME InstallInv, UNCHANGED <<settings, backups>>, Complete \subseteq Complete'
    PROVE  SettingsInv'
BY DEF InstallInv, SettingsInv

(* The steps before anything is placed on the disk.                        *)
LEMMA PrepareStep == InstallInv /\ Prepare => InstallInv'
<1> SUFFICES ASSUME InstallInv, Prepare
             PROVE  InstallInv'
  OBVIOUS
<1>1. DiskInv' /\ Complete' = Complete
  BY DiskKept DEF Prepare
<1>2. SettingsInv' /\ SourceInv'
  BY <1>1, SettingsKept DEF InstallInv, SourceInv, Prepare
<1>3. Copying'
  <2>1. [f \in EngineFiles |-> NoFile] \in Copies
    BY DEF Copies
  <2>2. run' = [pc |-> "stage", base |-> settings, staged |-> [f \in EngineFiles |-> NoFile]]
    BY DEF Prepare
  <2>3. settings \in Settings /\ settings.owned \subseteq Complete
    BY DEF InstallInv, SettingsInv
  <2> QED
    BY <1>1, <2>1, <2>2, <2>3 DEF Copying
<1> QED
  BY <1>1, <1>2, <1>3 DEF InstallInv, RunInv

LEMMA StageStep == ASSUME NEW f \in EngineFiles PROVE InstallInv /\ StageFile(f) => InstallInv'
<1> SUFFICES ASSUME InstallInv, StageFile(f)
             PROVE  InstallInv'
  OBVIOUS
<1>1. DiskInv' /\ Complete' = Complete
  BY DiskKept DEF StageFile
<1>2. SettingsInv' /\ SourceInv'
  BY <1>1, SettingsKept DEF InstallInv, SourceInv, StageFile
<1>3. Copying'
  <2>1. Copying /\ run' = [run EXCEPT !.staged[f] = source.files[f]]
    BY AtPc DEF StageFile, InstallInv
  <2>2. source.files[f] \in Versions
    BY DEF InstallInv, SourceInv, Address
  <2>3. [run.staged EXCEPT ![f] = source.files[f]] \in Copies
    BY <2>1, <2>2 DEF Copying, Copies
  <2> QED
    BY <1>1, <2>1, <2>3 DEF Copying
<1> QED
  BY <1>1, <1>2, <1>3 DEF InstallInv, RunInv

LEMMA AddressStep == InstallInv /\ AddressRelease => InstallInv'
<1> SUFFICES ASSUME InstallInv, AddressRelease
             PROVE  InstallInv'
  OBVIOUS
<1>1. DiskInv' /\ Complete' = Complete
  BY DiskKept DEF AddressRelease
<1>2. SettingsInv' /\ SourceInv'
  BY <1>1, SettingsKept DEF InstallInv, SourceInv, AddressRelease
<1> DEFINE addr == [files |-> run.staged, commit |-> source.commit]
<1>3. /\ Copying
      /\ run' = [pc |-> "backup", base |-> run.base, staged |-> run.staged, addr |-> addr]
  BY AtPc DEF AddressRelease, InstallInv
<1>4. run.staged \in [EngineFiles -> Versions]
  BY <1>3 DEF AddressRelease, Copying, Copies
<1>5. addr \in Address
  BY <1>4 DEF InstallInv, SourceInv, Address
<1>6. Placing'
  BY <1>1, <1>3, <1>5 DEF Placing, Copying
<1> QED
  BY <1>1, <1>2, <1>6 DEF InstallInv, RunInv

LEMMA BackupStep == InstallInv /\ BackupSettings => InstallInv'
<1> SUFFICES ASSUME InstallInv, BackupSettings
             PROVE  InstallInv'
  OBVIOUS
<1>1. DiskInv' /\ Complete' = Complete /\ SourceInv'
  BY DiskKept DEF BackupSettings, InstallInv, SourceInv
<1>2. Placing /\ run.pc = "backup" /\ run' = [run EXCEPT !.pc = "engine"]
  BY AtPc DEF BackupSettings, InstallInv
<1>3. SettingsInv'
  <2>1. run.base.owned \subseteq Complete
    BY <1>2 DEF Placing
  <2>2. settings' = settings /\ backups' = backups \cup {run.base.owned}
    BY DEF BackupSettings
  <2> QED
    BY <1>1, <2>1, <2>2 DEF InstallInv, SettingsInv
<1>4. Placing'
  <2>1. \A f \in EngineFiles : run.staged[f] = run.addr.files[f] /\ run.staged[f] # NoFile
    BY <1>2, InstallAssumption DEF Placing, Address
  <2>2. run'.staged = run.staged /\ run'.addr = run.addr /\ run'.base = run.base /\ run'.pc = "engine"
    BY <1>2 DEF Placing
  <2>3. run' \in [pc : {"backup", "engine", "manifest", "compare", "rename"},
                base : Settings, staged : Copies, addr : Address]
    BY <1>2 DEF Placing
  <2> QED
    BY <1>1, <1>2, <2>1, <2>2, <2>3 DEF Placing
<1> QED
  BY <1>1, <1>3, <1>4 DEF InstallInv, RunInv

-----------------------------------------------------------------------------
(* The steps that write below the address of the release.  A step that     *)
(* puts there what the address stands for changes no complete release.     *)
LEMMA FileStep == ASSUME NEW f \in EngineFiles PROVE InstallInv /\ PublishFile(f) => InstallInv'
<1> SUFFICES ASSUME InstallInv, PublishFile(f)
             PROVE  InstallInv'
  OBVIOUS
<1> DEFINE addr == run.addr
<1>1. Placing /\ run.pc = "engine" /\ run' = [run EXCEPT !.staged[f] = NoFile]
  BY AtPc DEF PublishFile, InstallInv
<1>2. addr \in Address /\ run.staged[f] = addr.files[f] /\ addr.files[f] \in Versions
  BY <1>1 DEF PublishFile, Placing, Address
<1>3. disk' = [disk EXCEPT ![addr].engine[f] = addr.files[f]]
  BY <1>2 DEF PublishFile
<1>4. disk \in [Address -> Release]
  BY DEF InstallInv, DiskInv
<1>5. /\ disk'[addr] = [disk[addr] EXCEPT !.engine[f] = addr.files[f]]
      /\ \A a \in Address \ {addr} : disk'[a] = disk[a]
  BY <1>2, <1>3, <1>4
<1>6. disk[addr].engine \in Copies /\ disk[addr] \in Release
  BY <1>2, <1>4 DEF Release
<1>7. disk'[addr].engine = [disk[addr].engine EXCEPT ![f] = addr.files[f]]
  BY <1>5, <1>6 DEF Release
<1>8. disk' \in [Address -> Release]
  <2>1. [disk[addr].engine EXCEPT ![f] = addr.files[f]] \in Copies
    BY <1>2, <1>6 DEF Copies
  <2>2. disk'[addr] \in Release
    BY <1>5, <1>6, <2>1 DEF Release
  <2> QED
    BY <1>2, <1>3, <1>4, <1>5, <2>2
<1>9. addr \in Complete => disk'[addr] = disk[addr]
  <2> SUFFICES ASSUME addr \in Complete
               PROVE  disk'[addr] = disk[addr]
    OBVIOUS
  <2>1. disk[addr].engine = addr.files
    BY DEF Complete, Published
  <2>2. disk'[addr].engine = disk[addr].engine
    BY <1>6, <1>7, <2>1 DEF Copies
  <2> QED
    BY <1>5, <1>6, <1>7, <2>2 DEF Release
<1>10. Complete \subseteq Complete'
  BY <1>5, <1>9 DEF Complete
<1>11. DiskInv'
  <2> SUFFICES ASSUME NEW a \in Address, disk'[a].manifest # NoFile
               PROVE  a \in Complete'
    BY <1>8 DEF DiskInv
  <2>1. disk'[a].manifest = disk[a].manifest
    BY <1>5, <1>6 DEF Release
  <2> QED
    BY <1>10, <2>1 DEF InstallInv, DiskInv
<1>12. SettingsInv' /\ SourceInv'
  BY <1>10, SettingsKept DEF PublishFile, InstallInv, SourceInv
<1>13. Placing'
  <2>1. /\ run'.pc = "engine" /\ run'.base = run.base /\ run'.addr = addr
        /\ run'.staged = [run.staged EXCEPT ![f] = NoFile]
    BY <1>1 DEF Placing
  <2>2. run'.staged \in Copies
    BY <1>1, <2>1 DEF Placing, Copies
  <2>3. run' \in [pc : {"backup", "engine", "manifest", "compare", "rename"},
                base : Settings, staged : Copies, addr : Address]
    BY <1>1, <2>1, <2>2 DEF Placing
  <2>4. ASSUME NEW g \in EngineFiles
        PROVE  IF run'.staged[g] = NoFile THEN disk'[addr].engine[g] = addr.files[g]
               ELSE run'.staged[g] = addr.files[g]
    BY <1>1, <1>6, <1>7, <2>1, <2>4 DEF Placing, Copies
  <2>5. run'.base.owned \subseteq Complete'
    BY <1>1, <1>10, <2>1 DEF Placing
  <2> QED
    BY <2>1, <2>3, <2>4, <2>5 DEF Placing
<1> QED
  BY <1>11, <1>12, <1>13 DEF InstallInv, RunInv

LEMMA LoaderStep == InstallInv /\ PublishLoader => InstallInv'
<1> SUFFICES ASSUME InstallInv, PublishLoader
             PROVE  InstallInv'
  OBVIOUS
<1> DEFINE addr == run.addr
<1>1. /\ Placing /\ run.pc = "engine" /\ run' = [run EXCEPT !.pc = "manifest"]
      /\ disk' = [disk EXCEPT ![addr].loader = addr.commit]
  BY AtPc DEF PublishLoader, InstallInv
<1>2. addr \in Address /\ addr.commit \in Versions /\ addr.files \in Copies
  BY <1>1 DEF Placing, Address, Copies
<1>3. disk \in [Address -> Release] /\ disk[addr] \in Release
  BY <1>2 DEF InstallInv, DiskInv
<1>4. /\ disk'[addr] = [disk[addr] EXCEPT !.loader = addr.commit]
      /\ \A a \in Address \ {addr} : disk'[a] = disk[a]
  BY <1>1, <1>2, <1>3
<1>5. disk' \in [Address -> Release]
  <2>1. disk'[addr] \in Release
    BY <1>2, <1>3, <1>4 DEF Release
  <2> QED
    BY <1>1, <1>2, <1>3, <1>4, <2>1
<1>6. addr \in Complete => disk'[addr] = disk[addr]
  BY <1>3, <1>4 DEF Complete, Published, Release
<1>7. Complete \subseteq Complete'
  BY <1>4, <1>6 DEF Complete
<1>8. DiskInv'
  <2> SUFFICES ASSUME NEW a \in Address, disk'[a].manifest # NoFile
               PROVE  a \in Complete'
    BY <1>5 DEF DiskInv
  <2>1. disk'[a].manifest = disk[a].manifest
    BY <1>3, <1>4 DEF Release
  <2> QED
    BY <1>7, <2>1 DEF InstallInv, DiskInv
<1>9. SettingsInv' /\ SourceInv'
  BY <1>7, SettingsKept DEF PublishLoader, InstallInv, SourceInv
<1>10. Placing'
  <2>1. /\ run'.pc = "manifest" /\ run'.base = run.base /\ run'.addr = addr
        /\ run'.staged = run.staged
    BY <1>1 DEF Placing
  <2>2. run' \in [pc : {"backup", "engine", "manifest", "compare", "rename"},
                base : Settings, staged : Copies, addr : Address]
    BY <1>1 DEF Placing
  <2>3. \A f \in EngineFiles : disk[addr].engine[f] = addr.files[f]
    BY <1>1 DEF Placing, PublishLoader
  <2>4. disk[addr].engine = addr.files
    <3>1. addr.files \in [EngineFiles -> Versions] /\ disk[addr].engine \in Copies
      BY <1>2, <1>3 DEF Address, Release
    <3> QED
      BY <2>3, <3>1 DEF Copies
  <2>5. disk'[addr].engine = addr.files /\ disk'[addr].loader = addr.commit
    BY <1>3, <1>4, <2>4 DEF Release
  <2>6. run'.base.owned \subseteq Complete'
    BY <1>1, <1>7, <2>1 DEF Placing
  <2> QED
    BY <2>1, <2>2, <2>5, <2>6 DEF Placing
<1> QED
  BY <1>8, <1>9, <1>10 DEF InstallInv, RunInv

LEMMA ManifestStep == InstallInv /\ PublishManifest => InstallInv'
<1> SUFFICES ASSUME InstallInv, PublishManifest
             PROVE  InstallInv'
  OBVIOUS
<1> DEFINE addr == run.addr
<1>1. /\ Placing /\ run.pc = "manifest" /\ run' = [run EXCEPT !.pc = "compare"]
      /\ disk' = [disk EXCEPT ![addr].manifest = ManifestOf(addr)]
  BY AtPc DEF PublishManifest, InstallInv
<1>2. addr \in Address /\ disk \in [Address -> Release] /\ disk[addr] \in Release
  BY <1>1 DEF Placing, InstallInv, DiskInv
<1>3. disk[addr].engine = addr.files /\ disk[addr].loader = addr.commit
  BY <1>1 DEF Placing
<1>4. /\ disk'[addr] = [disk[addr] EXCEPT !.manifest = ManifestOf(addr)]
      /\ \A a \in Address \ {addr} : disk'[a] = disk[a]
  BY <1>1, <1>2
<1>5. disk'[addr] = Published(addr)
  BY <1>2, <1>3, <1>4 DEF Release, Published, ManifestOf
<1>6. Published(addr) \in Release
  BY <1>2 DEF Published, Release, Manifest, Copies, Address
<1>7. disk' \in [Address -> Release]
  BY <1>1, <1>2, <1>4, <1>5, <1>6
<1>8. Complete \subseteq Complete' /\ addr \in Complete'
  BY <1>2, <1>4, <1>5 DEF Complete
<1>9. DiskInv'
  BY <1>4, <1>7, <1>8 DEF InstallInv, DiskInv
<1>10. SettingsInv' /\ SourceInv'
  BY <1>8, SettingsKept DEF PublishManifest, InstallInv, SourceInv
<1>11. Placing'
  <2>1. run'.pc = "compare" /\ run'.base = run.base /\ run'.addr = addr
    BY <1>1 DEF Placing
  <2>2. run' \in [pc : {"backup", "engine", "manifest", "compare", "rename"},
                base : Settings, staged : Copies, addr : Address]
    BY <1>1 DEF Placing
  <2>3. run'.base.owned \subseteq Complete'
    BY <1>1, <1>8, <2>1 DEF Placing
  <2> QED
    BY <1>8, <2>1, <2>2, <2>3 DEF Placing
<1> QED
  BY <1>9, <1>10, <1>11 DEF InstallInv, RunInv

-----------------------------------------------------------------------------
(* The steps that leave the releases alone: of the installer when it has   *)
(* placed its own or places none, and of others.                           *)
LEMMA RestStep ==
    InstallInv /\ (CompareSettings \/ RenameSettings \/ BeginUninstall \/ BackupRemoved
                   \/ RemoveHooks \/ InstallerCrash \/ EditSource \/ EditSettings \/ RollBack) => InstallInv'
<1> USE DEF InstallInv
<1>0. InstallInv /\ UNCHANGED <<disk, run>> => RunInv'
  <2> SUFFICES ASSUME InstallInv, UNCHANGED <<disk, run>>
               PROVE  RunInv'
    OBVIOUS
  <2>1. Complete' = Complete
    BY DiskKept
  <2> QED
    BY <2>1 DEF RunInv, Copying, Removing, Placing
<1>1. ASSUME InstallInv, CompareSettings
      PROVE  InstallInv'
  <2>1. DiskInv' /\ Complete' = Complete
    BY <1>1, DiskKept DEF CompareSettings
  <2>2. SettingsInv' /\ SourceInv'
    BY <1>1, <2>1, SettingsKept DEF SourceInv, CompareSettings
  <2>3. Placing /\ run.pc = "compare" /\ (run' = [run EXCEPT !.pc = "rename"] \/ run' = Idle)
    BY <1>1, AtPc DEF CompareSettings
  <2>4. RunInv'
    BY <2>1, <2>3 DEF RunInv, Placing
  <2> QED
    BY <2>1, <2>2, <2>4
<1>2. ASSUME InstallInv, RenameSettings
      PROVE  InstallInv'
  <2>1. DiskInv' /\ Complete' = Complete
    BY <1>2, DiskKept DEF RenameSettings
  <2>2. /\ Placing /\ run.addr \in Complete
        /\ settings' = [run.base EXCEPT !.owned = {run.addr}]
    BY <1>2, AtPc DEF RenameSettings, Placing, Merged
  <2>3. settings' \in Settings /\ settings'.owned = {run.addr}
    BY <2>2 DEF Placing, Settings
  <2>4. SettingsInv' /\ SourceInv' /\ RunInv'
    BY <1>2, <2>1, <2>2, <2>3 DEF RenameSettings, SettingsInv, SourceInv, RunInv
  <2> QED
    BY <2>1, <2>4
<1>3. ASSUME InstallInv, BeginUninstall
      PROVE  InstallInv'
  <2>1. DiskInv' /\ Complete' = Complete
    BY <1>3, DiskKept DEF BeginUninstall
  <2>2. SettingsInv' /\ SourceInv'
    BY <1>3, <2>1, SettingsKept DEF SourceInv, BeginUninstall
  <2>3. Removing'
    BY <1>3, <2>1 DEF BeginUninstall, Removing, SettingsInv
  <2> QED
    BY <2>1, <2>2, <2>3 DEF RunInv
<1>9. ASSUME InstallInv, BackupRemoved
      PROVE  InstallInv'
  <2>1. DiskInv' /\ Complete' = Complete
    BY <1>9, DiskKept DEF BackupRemoved
  <2>2. Removing /\ run' = [run EXCEPT !.pc = "remove"]
    BY <1>9, AtPc DEF BackupRemoved
  <2>3. run.base.owned \subseteq Complete /\ Removing'
    BY <2>1, <2>2 DEF Removing
  <2>4. settings' = settings /\ backups' = backups \cup {run.base.owned}
    BY <1>9 DEF BackupRemoved
  <2>5. SettingsInv' /\ SourceInv'
    BY <1>9, <2>1, <2>3, <2>4 DEF BackupRemoved, SettingsInv, SourceInv
  <2> QED
    BY <2>1, <2>3, <2>5 DEF RunInv
<1>4. ASSUME InstallInv, RemoveHooks
      PROVE  InstallInv'
  <2>1. DiskInv' /\ Complete' = Complete
    BY <1>4, DiskKept DEF RemoveHooks
  <2>2. Removing /\ settings' = [run.base EXCEPT !.owned = {}]
    BY <1>4, AtPc DEF RemoveHooks, WithoutOwned
  <2>3. settings' \in Settings /\ settings'.owned = {}
    BY <2>2 DEF Removing, Settings
  <2>4. SettingsInv' /\ SourceInv' /\ RunInv'
    BY <1>4, <2>1, <2>3 DEF RemoveHooks, SettingsInv, SourceInv, RunInv
  <2> QED
    BY <2>1, <2>4
<1>5. ASSUME InstallInv, InstallerCrash
      PROVE  InstallInv'
  <2>1. DiskInv' /\ Complete' = Complete
    BY <1>5, DiskKept DEF InstallerCrash
  <2>2. SettingsInv' /\ SourceInv' /\ RunInv'
    BY <1>5, <2>1, SettingsKept DEF SourceInv, InstallerCrash, RunInv
  <2> QED
    BY <2>1, <2>2
<1>6. ASSUME InstallInv, EditSource
      PROVE  InstallInv'
  <2>1. DiskInv' /\ Complete' = Complete /\ RunInv'
    BY <1>0, <1>6, DiskKept DEF EditSource
  <2>2. SettingsInv'
    BY <1>6, <2>1, SettingsKept DEF EditSource
  <2>3. SourceInv'
    BY <1>6 DEF EditSource, SourceInv, Address
  <2> QED
    BY <2>1, <2>2, <2>3
<1>7. ASSUME InstallInv, EditSettings
      PROVE  InstallInv'
  <2>1. DiskInv' /\ Complete' = Complete /\ RunInv'
    BY <1>0, <1>7, DiskKept DEF EditSettings
  <2>2. settings' \in Settings /\ settings'.owned = settings.owned
    BY <1>7 DEF EditSettings, SettingsInv, Settings
  <2>3. SettingsInv' /\ SourceInv'
    BY <1>7, <2>1, <2>2 DEF EditSettings, SettingsInv, SourceInv
  <2> QED
    BY <2>1, <2>3
<1>8. ASSUME InstallInv, RollBack
      PROVE  InstallInv'
  <2>1. DiskInv' /\ Complete' = Complete /\ RunInv'
    BY <1>0, <1>8, DiskKept DEF RollBack
  <2>2. PICK owned \in backups : settings' = [settings EXCEPT !.owned = owned]
    BY <1>8 DEF RollBack
  <2>3. owned \subseteq Complete /\ owned \subseteq Address
    BY <1>8, <2>2 DEF SettingsInv, Complete
  <2>4. settings' \in Settings /\ settings'.owned = owned
    BY <1>8, <2>2, <2>3 DEF SettingsInv, Settings
  <2>5. SettingsInv' /\ SourceInv'
    BY <1>8, <2>1, <2>3, <2>4 DEF RollBack, SettingsInv, SourceInv
  <2> QED
    BY <2>1, <2>5
<1> QED
  BY <1>1, <1>2, <1>3, <1>4, <1>5, <1>6, <1>7, <1>8, <1>9

-----------------------------------------------------------------------------
(* The inductive step: the hooks leave the installation alone.             *)
LEMMA InstallStep == InstallInv /\ [Next]_vars => InstallInv'
<1> SUFFICES ASSUME InstallInv, [Next]_vars
             PROVE  InstallInv'
  OBVIOUS
<1>1. CASE InstallNext
  BY <1>1, PrepareStep, StageStep, AddressStep, BackupStep, FileStep, LoaderStep,
     ManifestStep, RestStep DEF InstallNext, Install
<1>2. CASE UNCHANGED installVars
  BY <1>2 DEF installVars, InstallInv, DiskInv, SettingsInv, SourceInv, RunInv,
              Copying, Removing, Placing, Complete
<1>3. InstallNext \/ UNCHANGED installVars
  BY DEF Next, HookEvent, Unhooked, vars
<1> QED
  BY <1>1, <1>2, <1>3

(* What the installation is made of, for the reader of the next theorem:   *)
(* the addresses, the files below them, what is registered or was, and     *)
(* what a running installer holds.                                         *)
THEOREM InstallInvariant == Spec => []InstallInv
<1>1. Init => InstallInv
  BY InitInstallInv
<1>2. InstallInv /\ [Next]_vars => InstallInv'
  BY InstallStep
<1> QED
  BY <1>1, <1>2, PTL DEF Spec

(* Whatever the installer, crashes, other editors, roll-backs and changing *)
(* sources do, and for every engine, each hook that settings.json          *)
(* registers at any time passes the check of its loader.                   *)
THEOREM RegisteredVerifies == Spec => []InstalledIsEnforceable
<1>1. Spec => []InstallInv
  BY InstallInvariant
<1>2. InstallInv => InstalledIsEnforceable
  BY InvImplies
<1> QED
  BY <1>1, <1>2, PTL
-----------------------------------------------------------------------------
(* The hooks.  A delegation between its events.                            *)
Somewhere == Thread \cup {NoThread}
Fingerprint == 0 .. MaxChange

NewTool == [state : {"new", "denied"}]
OpenTool == [state : {"asked", "denied", "running"}, role : Role, thread : Somewhere]
DoneTool == [state : {"returned", "failed"}, role : Role, thread : Somewhere,
             id : Somewhere, work : Fingerprint, posted : Fingerprint \cup {NoFingerprint}]

ToolInv ==
    /\ tool \in [Delegation -> NewTool \cup OpenTool \cup DoneTool]
    /\ \A d \in Delegation : tool[d] \in DoneTool /\ tool[d].posted # NoFingerprint =>
           tool[d].work <= tool[d].posted
    /\ \A d \in Delegation : tool[d] \in DoneTool => tool[d].work <= work

(* The lines of the two files.                                             *)
StartedRecords == [seq : Nat, status : {"STARTED"}, tool : Delegation,
                   role : Role, thread : Somewhere]
Completions == [seq : Nat, status : {"COMPLETED", "FAILED"}, tool : Delegation,
                role : Role, at : Nat, work : Fingerprint]
OtherRecords == [seq : Nat, status : {"DELEGATION_METADATA_INVALID", "STOP_BLOCKED"},
                 tool : Hooks]
Bindings == [seq : Nat, status : {"BOUND", "UNBOUND", "THREAD_BINDING_CONFLICT"},
             thread : Somewhere, role : Role]

(* A delegation that had the role returned with the thread.                *)
Created(thread, role) ==
    \E d \in Delegation : /\ tool[d] \in DoneTool /\ tool[d].state = "returned"
                         /\ tool[d].id = thread /\ tool[d].role = role

StartedIsTrue(r) ==
    /\ r \in StartedRecords
    /\ tool[r.tool] \in OpenTool \cup DoneTool
    /\ tool[r.tool].role = r.role
    /\ r.thread # NoThread => Created(r.thread, r.role)

CompletionIsTrue(r) ==
    /\ r \in Completions
    /\ tool[r.tool] \in DoneTool
    /\ tool[r.tool].state = IF r.status = "COMPLETED" THEN "returned" ELSE "failed"
    /\ tool[r.tool].role = r.role
    /\ tool[r.tool].posted = r.work
    /\ r.at <= clock

BindingIsTrue(r) ==
    /\ r \in Bindings
    /\ r.status = "BOUND" => Created(r.thread, r.role)

(* The lines of a file are true, each kind in its way.                     *)
LineIsTrue(s, r) ==
    IF s = "threads" THEN BindingIsTrue(r)
    ELSE StartedIsTrue(r) \/ CompletionIsTrue(r) \/ r \in OtherRecords

Line == StartedRecords \cup Completions \cup OtherRecords \cup Bindings
Lines(s) == store[s].lines

StoreInv ==
    /\ store \in [Stores -> [lines : Seq(Line), head : Nat]]
    /\ \A s \in Stores : \A i \in DOMAIN Lines(s) : LineIsTrue(s, Lines(s)[i])

(* Before a completion: the start of its delegation, and no completion.    *)
OrderInv ==
    \A i \in DOMAIN Lines("ledger") : Lines("ledger")[i] \in Completions =>
        /\ \E j \in 1 .. (i - 1) : /\ Lines("ledger")[j] \in StartedRecords
                                   /\ Lines("ledger")[j].tool = Lines("ledger")[i].tool
        /\ \A j \in 1 .. (i - 1) : Lines("ledger")[j] \in Completions =>
               Lines("ledger")[j].tool # Lines("ledger")[i].tool

-----------------------------------------------------------------------------
(* A hook process p of the delegation d before it runs, and after.         *)
PreRun(d, p) ==
    /\ tool[d] \in OpenTool /\ tool[d].state = "asked"
    /\ \/ /\ p \in [pc : {"line", "head"}, store : {"ledger"}, then : {"allow"},
                    record : StartedRecords]
          /\ StartedIsTrue(p.record)
       \/ p \in [pc : {"line", "head", "deny"}, store : {"ledger"}, then : {"deny"},
                 record : OtherRecords]

PostRun(d, p) ==
    /\ tool[d] \in DoneTool
    /\ \/ p \in [pc : {"correlate"}, work : Fingerprint] /\ p.work = tool[d].posted
       \/ /\ p \in [pc : {"line", "head", "bind"}, store : {"ledger"}, then : {"bind", "end"},
                    record : Completions]
          /\ p.record.tool = d
          /\ CompletionIsTrue(p.record)
          /\ p.pc = "line" => Started(d) /\ ~Terminal(d)
          /\ p.then = "bind" => tool[d].state = "returned"
          /\ p.pc = "bind" => p.then = "bind"
       \/ /\ p \in [pc : {"verify", "line", "head"}, store : {"threads"}, then : {"end"},
                    record : Bindings]
          /\ BindingIsTrue(p.record) /\ tool[d].posted # NoFingerprint

StopRun(p) ==
    \/ p \in [pc : {"decide"}, work : Fingerprint]
    \/ p \in [pc : {"verify", "line", "head", "block"}, store : {"ledger"}, then : {"block"},
              work : Fingerprint, record : OtherRecords]

Runs(h, p) == \/ p = NoHook
              \/ h \in Delegation /\ (PreRun(h, p) \/ PostRun(h, p))
              \/ h = "stop" /\ StopRun(p)

ProcessInv == /\ hook = [h \in Hooks |-> hook[h]]
              /\ \A h \in Hooks : Runs(h, hook[h])

(* An allowed stop was earned.                                             *)
Earned(fingerprint) ==
    \E implementer, verifier \in Delegation :
        /\ tool[implementer] \in DoneTool
        /\ tool[implementer].state = "returned" /\ tool[implementer].role = "IMPLEMENTER"
        /\ tool[verifier] \in DoneTool
        /\ tool[verifier].state = "returned" /\ tool[verifier].role = "VERIFIER"
        /\ Same(tool[verifier].posted, fingerprint)

Answer == [gate : {"allow", "block", "none"}, answer : {"allow", "block", "nothing", "crashed"},
           work : Fingerprint]

StopsInv ==
    /\ stops \in Seq(Answer)
    /\ \A i \in DOMAIN stops : stops[i].answer = "allow" /\ ~Same(stops[i].work, baseline) =>
           Earned(stops[i].work)

HookInv == /\ work \in Fingerprint /\ clock \in Nat
           /\ ToolInv /\ StoreInv /\ OrderInv /\ ProcessInv /\ StopsInv

-----------------------------------------------------------------------------
(* What every step leaves true: what the host has seen of a delegation is  *)
(* not taken back, and time does not run backwards.                        *)
Onward ==
    /\ clock' \in Nat /\ clock <= clock'
    /\ \A d \in Delegation :
           /\ tool[d] \in OpenTool \cup DoneTool =>
                  tool'[d] \in OpenTool \cup DoneTool /\ tool'[d].role = tool[d].role
           /\ tool[d] \in DoneTool =>
                  /\ tool'[d] \in DoneTool
                  /\ tool'[d].state = tool[d].state /\ tool'[d].id = tool[d].id
                  /\ tool[d].posted # NoFingerprint => tool'[d].posted = tool[d].posted

LEMMA FingerprintsAreTaken ==
    /\ NoFingerprint \notin Fingerprint /\ 0 \in Fingerprint
    /\ Fingerprint \subseteq Nat /\ NoFingerprint \in Nat
    /\ \A f \in Fingerprint : f <= MaxChange
  BY HooksAssumption DEF NoFingerprint, Fingerprint

LEMMA CreatedStays ==
    ASSUME Onward, NEW thread, NEW role, Created(thread, role)
    PROVE  Created(thread, role)'
  BY DEF Created, Onward

LEMMA TrueStays ==
    ASSUME Onward, clock \in Nat, NEW s, NEW r, LineIsTrue(s, r)
    PROVE  LineIsTrue(s, r)'
<1>1. ASSUME BindingIsTrue(r)
      PROVE  BindingIsTrue(r)'
  BY <1>1, CreatedStays DEF BindingIsTrue
<1>2. ASSUME StartedIsTrue(r)
      PROVE  StartedIsTrue(r)'
  <2>1. r \in StartedRecords /\ r.tool \in Delegation
    BY <1>2 DEF StartedIsTrue, StartedRecords
  <2>2. tool'[r.tool] \in OpenTool \cup DoneTool /\ tool'[r.tool].role = r.role
    BY <1>2, <2>1 DEF StartedIsTrue, Onward
  <2>3. r.thread # NoThread => Created(r.thread, r.role)'
    BY <1>2, CreatedStays DEF StartedIsTrue
  <2> QED
    BY <2>1, <2>2, <2>3 DEF StartedIsTrue
<1>3. ASSUME CompletionIsTrue(r)
      PROVE  CompletionIsTrue(r)'
  <2>1. r \in Completions /\ r.tool \in Delegation /\ r.work \in Fingerprint /\ r.at \in Nat
    BY <1>3 DEF CompletionIsTrue, Completions
  <2>2. /\ tool[r.tool] \in DoneTool /\ tool[r.tool].posted = r.work
        /\ tool[r.tool].posted # NoFingerprint
    BY <1>3, <2>1, FingerprintsAreTaken DEF CompletionIsTrue
  <2>3. /\ tool'[r.tool] \in DoneTool /\ tool'[r.tool].role = tool[r.tool].role
        /\ tool'[r.tool].state = tool[r.tool].state /\ tool'[r.tool].posted = r.work
    BY <2>1, <2>2 DEF Onward
  <2>4. r.at <= clock'
    BY <1>3, <2>1 DEF CompletionIsTrue, Onward
  <2> QED
    BY <1>3, <2>1, <2>3, <2>4 DEF CompletionIsTrue
<1> QED
  BY <1>1, <1>2, <1>3 DEF LineIsTrue

LEMMA EarnedStays ==
    ASSUME Onward, NEW f \in Fingerprint, Earned(f)
    PROVE  Earned(f)'
<1>1. ASSUME NEW d \in Delegation, tool[d] \in DoneTool, Same(tool[d].posted, f)
      PROVE  tool[d].posted # NoFingerprint
  BY <1>1, FingerprintsAreTaken DEF Same
<1>2. PICK implementer, verifier \in Delegation :
        /\ tool[implementer] \in DoneTool
        /\ tool[implementer].state = "returned" /\ tool[implementer].role = "IMPLEMENTER"
        /\ tool[verifier] \in DoneTool
        /\ tool[verifier].state = "returned" /\ tool[verifier].role = "VERIFIER"
        /\ Same(tool[verifier].posted, f)
  BY DEF Earned
<1> QED
  BY <1>1, <1>2 DEF Earned, Onward

(* Another delegation's process goes on as it was.                         *)
LEMMA RunsStay ==
    ASSUME Onward, clock \in Nat, NEW h, NEW p, Runs(h, p),
           h \in Delegation => /\ tool'[h] = tool[h]
                               /\ Started(h) => Started(h)'
                               /\ Terminal(h)' => Terminal(h)
    PROVE  Runs(h, p)'
<1>1. CASE p = NoHook \/ (h = "stop" /\ StopRun(p))
  BY <1>1 DEF Runs, StopRun
<1>2. CASE h \in Delegation /\ PreRun(h, p)
  <2>1. StartedIsTrue(p.record) => StartedIsTrue(p.record)'
    <3>1. PICK r : r = p.record
      OBVIOUS
    <3>2. StartedIsTrue(r) => StartedIsTrue(r)'
      <4>1. ASSUME StartedIsTrue(r)
            PROVE  StartedIsTrue(r)'
        <5>1. LineIsTrue("ledger", r)'
          BY <4>1, TrueStays DEF LineIsTrue
        <5> QED
          BY <4>1, <5>1 DEF LineIsTrue, StartedIsTrue, CompletionIsTrue, StartedRecords, Completions,
             OtherRecords
      <4> QED
        BY <4>1
    <3> QED
      BY <3>1, <3>2
  <2>2. PreRun(h, p)'
    BY <1>2, <2>1 DEF PreRun
  <2> QED
    BY <1>2, <2>2 DEF Runs
<1>3. CASE h \in Delegation /\ PostRun(h, p)
  <2>1. CompletionIsTrue(p.record) => CompletionIsTrue(p.record)'
    <3>1. PICK r : r = p.record
      OBVIOUS
    <3>2. ASSUME CompletionIsTrue(r)
          PROVE  CompletionIsTrue(r)'
      <4>1. LineIsTrue("ledger", r)'
        BY <3>2, TrueStays DEF LineIsTrue
      <4> QED
        BY <3>2, <4>1 DEF LineIsTrue, StartedIsTrue, CompletionIsTrue, StartedRecords, Completions,
           OtherRecords
    <3> QED
      BY <3>1, <3>2
  <2>2. BindingIsTrue(p.record) => BindingIsTrue(p.record)'
    <3>1. PICK r : r = p.record
      OBVIOUS
    <3>2. BindingIsTrue(r) => BindingIsTrue(r)'
      BY CreatedStays DEF BindingIsTrue
    <3> QED
      BY <3>1, <3>2
  <2>3. PostRun(h, p)'
    BY <1>3, <2>1, <2>2 DEF PostRun
  <2> QED
    BY <1>3, <2>3 DEF Runs
<1> QED
  BY <1>1, <1>2, <1>3 DEF Runs

(* Lines that stay the same stay true and in order.                        *)
StoreType == [Stores -> [lines : Seq(Line), head : Nat]]

LEMMA LinesSame ==
    ASSUME HookInv, Onward, store' \in StoreType, \A s \in Stores : Lines(s)' = Lines(s)
    PROVE  /\ StoreInv' /\ OrderInv'
           /\ \A d \in Delegation : (Started(d)' <=> Started(d)) /\ (Terminal(d)' <=> Terminal(d))
<1>1. "ledger" \in Stores
  BY DEF Stores
<1>2. ASSUME NEW s \in Stores, NEW i \in DOMAIN Lines(s)
      PROVE  LineIsTrue(s, Lines(s)[i])'
  <2>1. PICK r : r = Lines(s)[i]
    OBVIOUS
  <2>2. LineIsTrue(s, r)
    BY <1>2, <2>1 DEF HookInv, StoreInv
  <2>3. LineIsTrue(s, r)'
    BY <2>2, TrueStays DEF HookInv
  <2> QED
    BY <2>1, <2>3
<1>3. StoreInv'
  BY <1>2 DEF StoreInv, StoreType
<1>4. OrderInv'
  BY <1>1 DEF HookInv, OrderInv
<1>5. store'["ledger"].lines = store["ledger"].lines
  BY <1>1 DEF Lines
<1>6. \A d \in Delegation : (Started(d)' <=> Started(d)) /\ (Terminal(d)' <=> Terminal(d))
  BY <1>5 DEF Started, Terminal, Records
<1> QED
  BY <1>3, <1>4, <1>6

LEMMA StopsSame ==
    ASSUME HookInv, Onward, UNCHANGED <<stops, baseline>>
    PROVE  StopsInv'
<1>1. ASSUME NEW i \in DOMAIN stops, stops[i].answer = "allow", ~Same(stops[i].work, baseline)
      PROVE  Earned(stops[i].work)'
  <2>1. PICK f : f = stops[i].work
    OBVIOUS
  <2>2. stops \in Seq(Answer) /\ stops[i] \in Answer
    <3>1. stops \in Seq(Answer)
      BY DEF HookInv, StopsInv
    <3> QED
      BY <3>1
  <2>3. f \in Fingerprint /\ Earned(f)
    BY <1>1, <2>1, <2>2 DEF HookInv, StopsInv, Answer
  <2> QED
    BY <2>1, <2>3, EarnedStays
<1> QED
  BY <1>1 DEF HookInv, StopsInv

(* A stop hook that ends without letting the turn stop.                    *)
LEMMA StopsMore ==
    ASSUME HookInv, Onward, UNCHANGED baseline, NEW gate, NEW answer,
           StopEnds(gate, answer), hook["stop"].work \in Fingerprint,
           gate \in {"allow", "block", "none"}, answer \in {"allow", "block", "nothing", "crashed"},
           answer = "allow" /\ ~Same(hook["stop"].work, baseline) => Earned(hook["stop"].work)
    PROVE  StopsInv'
<1>1. PICK f : f = hook["stop"].work
  OBVIOUS
<1>2. PICK a : a = [gate |-> gate, answer |-> answer, work |-> f]
  OBVIOUS
<1>3. a \in Answer /\ stops' = Append(stops, a) /\ stops \in Seq(Answer)
  BY <1>1, <1>2 DEF StopEnds, Answer, HookInv, StopsInv
<1>4. stops' \in Seq(Answer) /\ DOMAIN stops' = 1 .. (Len(stops) + 1)
  BY <1>3
<1>5. ASSUME NEW i \in DOMAIN stops', stops'[i].answer = "allow", ~Same(stops'[i].work, baseline)
      PROVE  Earned(stops[i].work)'
  <2>1. CASE i = Len(stops) + 1
    <3>1. stops'[i] = a
      BY <1>3, <2>1
    <3>2. Earned(f)'
      BY <1>1, <1>2, <1>5, <3>1, EarnedStays
    <3> QED
      BY <1>2, <3>1, <3>2
  <2>2. CASE i # Len(stops) + 1
    <3>1. i \in DOMAIN stops /\ stops'[i] = stops[i]
      BY <1>3, <1>4, <2>2
    <3>2. PICK g : g = stops[i].work
      OBVIOUS
    <3>3. stops[i] \in Answer
      BY <1>3, <3>1
    <3>4. g \in Fingerprint /\ Earned(g)
      BY <1>5, <3>1, <3>2, <3>3 DEF HookInv, StopsInv, Answer
    <3> QED
      BY <3>1, <3>2, <3>4, EarnedStays
  <2> QED
    BY <2>1, <2>2
<1> QED
  BY <1>4, <1>5 DEF StopsInv

(* A step of the process of h, which is p after it.                        *)
LEMMA StepConcludes ==
    ASSUME HookInv, Onward, work' \in Fingerprint, ToolInv', StoreInv', OrderInv', StopsInv',
           NEW h \in Hooks, NEW p, hook' = [hook EXCEPT ![h] = p], Runs(h, p)',
           \A d \in Delegation \ {h} : /\ tool'[d] = tool[d]
                                       /\ Started(d) => Started(d)'
                                       /\ Terminal(d)' => Terminal(d)
    PROVE  HookInv'
<1>1. hook = [x \in Hooks |-> hook[x]]
  BY DEF HookInv, ProcessInv
<1>2. /\ hook' = [x \in Hooks |-> hook'[x]] /\ hook'[h] = p
      /\ \A x \in Hooks \ {h} : hook'[x] = hook[x]
  BY <1>1
<1>3. ASSUME NEW x \in Hooks
      PROVE  Runs(x, hook[x])'
  <2>1. CASE x = h
    BY <1>2, <2>1
  <2>2. CASE x # h
    <3>1. PICK q : q = hook[x]
      OBVIOUS
    <3>2. Runs(x, q)
      BY <1>3, <3>1 DEF HookInv, ProcessInv
    <3>3. clock \in Nat
      BY DEF HookInv
    <3>4. Runs(x, q)'
      BY <2>2, <3>2, <3>3, RunsStay
    <3> QED
      BY <1>2, <2>2, <3>1, <3>4
  <2> QED
    BY <2>1, <2>2
<1>4. clock' \in Nat
  BY DEF Onward
<1> QED
  BY <1>2, <1>3, <1>4 DEF HookInv, ProcessInv

LEMMA QuietConcludes ==
    ASSUME HookInv, Onward, work' \in Fingerprint, ToolInv', UNCHANGED <<stops, baseline>>,
           store' \in StoreType, \A s \in Stores : Lines(s)' = Lines(s),
           NEW h \in Hooks, NEW p, hook' = [hook EXCEPT ![h] = p], Runs(h, p)',
           \A d \in Delegation \ {h} : tool'[d] = tool[d]
    PROVE  HookInv'
  BY LinesSame, StopsSame, StepConcludes

(* A step that writes nothing and leaves the delegations alone.            *)
LEMMA LocalConcludes ==
    ASSUME HookInv, clock' \in Nat, clock <= clock',
           UNCHANGED <<store, tool, stops, baseline, work>>,
           NEW h \in Hooks, NEW p, hook' = [hook EXCEPT ![h] = p], Runs(h, p)'
    PROVE  HookInv'
<1>1. Onward /\ ToolInv' /\ work' \in Fingerprint
  BY DEF Onward, HookInv, ToolInv
<1>2. store' \in StoreType /\ \A s \in Stores : Lines(s)' = Lines(s)
  BY DEF HookInv, StoreInv, StoreType, Lines
<1> QED
  BY <1>1, <1>2, QuietConcludes

(* One event of a delegation.                                              *)
LEMMA ToolChanges ==
    ASSUME HookInv, NEW d \in Delegation, NEW t, tool' = [tool EXCEPT ![d] = t],
           UNCHANGED <<clock, work>>,
           \/ tool[d] \in NewTool /\ t \in NewTool \cup OpenTool
           \/ tool[d] \in OpenTool /\ t \in OpenTool /\ t.role = tool[d].role
           \/ /\ tool[d] \in OpenTool /\ t \in DoneTool /\ t.role = tool[d].role
              /\ t.work <= work /\ t.posted = NoFingerprint
           \/ /\ tool[d] \in DoneTool /\ tool[d].posted = NoFingerprint
              /\ t \in DoneTool /\ t.role = tool[d].role /\ t.state = tool[d].state
              /\ t.id = tool[d].id /\ t.work = tool[d].work /\ t.posted = work
    PROVE  Onward /\ ToolInv' /\ \A x \in Delegation \ {d} : tool'[x] = tool[x]
<1>1. /\ tool \in [Delegation -> NewTool \cup OpenTool \cup DoneTool]
      /\ tool'[d] = t /\ \A x \in Delegation \ {d} : tool'[x] = tool[x]
      /\ t \in NewTool \cup OpenTool \cup DoneTool
  BY DEF HookInv, ToolInv
<1>2. /\ NewTool \cap (OpenTool \cup DoneTool) = {}
      /\ OpenTool \cap DoneTool = {}
  BY DEF NewTool, OpenTool, DoneTool
<1>3. Onward
  BY <1>1, <1>2 DEF Onward, HookInv
<1>4. tool' \in [Delegation -> NewTool \cup OpenTool \cup DoneTool]
  BY <1>1
<1>5. t \in DoneTool => t.work <= work
  BY <1>1, <1>2 DEF HookInv, ToolInv
<1>6. t \in DoneTool /\ t.posted # NoFingerprint => t.work <= t.posted
  BY <1>1, <1>2 DEF HookInv, ToolInv
<1>7. ToolInv'
  BY <1>1, <1>4, <1>5, <1>6 DEF HookInv, ToolInv
<1> QED
  BY <1>1, <1>3, <1>7

LEMMA ToolSame ==
    ASSUME HookInv, UNCHANGED <<tool, work>>, clock' \in Nat, clock <= clock'
    PROVE  Onward /\ ToolInv'
  BY DEF Onward, HookInv, ToolInv

(* Before it is asked for and while it runs a delegation has no hook.      *)
LEMMA NoHookNow ==
    ASSUME HookInv, NEW d \in Delegation, tool[d].state \in {"new", "running"}
    PROVE  hook[d] = NoHook /\ hook = [hook EXCEPT ![d] = NoHook]
<1>1. hook = [x \in Hooks |-> hook[x]] /\ Runs(d, hook[d]) /\ d \in Hooks /\ d # "stop"
  BY HooksAssumption DEF HookInv, ProcessInv, Hooks
<1>2. ~PreRun(d, hook[d]) /\ ~PostRun(d, hook[d])
  BY DEF PreRun, PostRun, DoneTool
<1>3. hook[d] = NoHook
  BY <1>1, <1>2 DEF Runs
<1> QED
  BY <1>1, <1>3

(* What a process is, by where it is.                                      *)
LEMMA ProcessIs ==
    ASSUME HookInv, NEW h \in Hooks
    PROVE  /\ hook = [x \in Hooks |-> hook[x]] /\ Runs(h, hook[h])
           /\ h \in Delegation <=> h # "stop"
  BY HooksAssumption DEF HookInv, ProcessInv, Hooks

-----------------------------------------------------------------------------
(* appendRecord, step by step.                                             *)
LEMMA TakeNumberStep ==
    ASSUME HookInv, NEW h \in Hooks, TakeNumber(h)
    PROVE  HookInv'
<1>1. PICK q : q = hook[h]
  OBVIOUS
<1>2. PICK n : n = Len(store[q.store].lines)
  OBVIOUS
<1>3. PICK r : r = [q.record EXCEPT !.seq = n]
  OBVIOUS
<1>4. PICK p : p = [q EXCEPT !.pc = "line", !.record = r]
  OBVIOUS
<1>5. Runs(h, q) /\ (h \in Delegation <=> h # "stop") /\ hook = [x \in Hooks |-> hook[x]]
  BY <1>1, ProcessIs
<1>6. /\ q.pc = "verify" /\ UNCHANGED <<store, tool, stops, work, baseline, clock>>
      /\ clock' \in Nat /\ clock <= clock'
  BY <1>1 DEF TakeNumber, HookInv
<1>7. hook' = [hook EXCEPT ![h] = p]
  BY <1>1, <1>2, <1>3, <1>4, <1>5 DEF TakeNumber
<1>8. q.store \in Stores => n \in Nat
  <2>1. ASSUME q.store \in Stores
        PROVE  store[q.store].lines \in Seq(Line)
    BY <2>1 DEF HookInv, StoreInv
  <2> QED
    BY <1>2, <2>1
<1>9. CASE /\ h \in Delegation /\ tool[h] \in DoneTool /\ BindingIsTrue(q.record)
           /\ tool[h].posted # NoFingerprint
           /\ q \in [pc : {"verify", "line", "head"}, store : {"threads"}, then : {"end"},
                     record : Bindings]
  <2>1. n \in Nat
    BY <1>8, <1>9 DEF Stores
  <2>2. r = [seq |-> n, status |-> q.record.status, thread |-> q.record.thread,
             role |-> q.record.role]
    BY <1>3, <1>9 DEF Bindings
  <2>3. BindingIsTrue(r)
    BY <1>9, <2>1, <2>2 DEF BindingIsTrue, Bindings
  <2>4. p = [pc |-> "line", store |-> "threads", then |-> "end", record |-> r]
    BY <1>4, <1>9
  <2>5. PostRun(h, p)
    BY <1>9, <2>3, <2>4 DEF PostRun, BindingIsTrue
  <2>6. PostRun(h, p)'
    BY <1>6, <2>5 DEF PostRun, BindingIsTrue, CompletionIsTrue, Created, Started, Terminal, Records
  <2> QED
    BY <1>5, <1>6, <1>7, <1>9, <2>6, LocalConcludes DEF Runs
<1>10. CASE /\ h = "stop"
            /\ q \in [pc : {"verify", "line", "head", "block"}, store : {"ledger"},
                      then : {"block"}, work : Fingerprint, record : OtherRecords]
  <2>1. n \in Nat
    BY <1>8, <1>10 DEF Stores
  <2>2. r = [seq |-> n, status |-> q.record.status, tool |-> q.record.tool]
    BY <1>3, <1>10 DEF OtherRecords
  <2>3. r \in OtherRecords
    BY <1>10, <2>1, <2>2 DEF OtherRecords
  <2>4. p = [pc |-> "line", store |-> "ledger", then |-> "block", work |-> q.work, record |-> r]
    BY <1>4, <1>10
  <2>5. Runs(h, p)'
    BY <1>10, <2>3, <2>4 DEF Runs, StopRun
  <2> QED
    BY <1>6, <1>7, <2>5, LocalConcludes
<1>11. q # NoHook /\ ~PreRun(h, q)
  BY <1>6 DEF NoHook, PreRun
<1>12. h \in Delegation /\ PostRun(h, q) =>
         /\ h \in Delegation /\ tool[h] \in DoneTool /\ BindingIsTrue(q.record)
         /\ tool[h].posted # NoFingerprint
         /\ q \in [pc : {"verify", "line", "head"}, store : {"threads"}, then : {"end"},
                   record : Bindings]
  BY <1>6 DEF PostRun
<1>13. StopRun(q) => q \in [pc : {"verify", "line", "head", "block"}, store : {"ledger"},
                            then : {"block"}, work : Fingerprint, record : OtherRecords]
  BY <1>6 DEF StopRun
<1> QED
  BY <1>5, <1>9, <1>10, <1>11, <1>12, <1>13 DEF Runs

(* A true line behind the others; a completion behind the start of its     *)
(* delegation, and before any other.                                       *)
LEMMA LinesMore ==
    ASSUME HookInv, Onward, NEW s \in Stores, NEW r, LineIsTrue(s, r),
           store' = [store EXCEPT ![s].lines = Append(@, r)],
           r \in Completions => Started(r.tool) /\ ~Terminal(r.tool)
    PROVE  /\ StoreInv' /\ OrderInv'
           /\ \A d : Started(d) => Started(d)'
           /\ \A d : Terminal(d)' => Terminal(d) \/ (r \in Completions /\ d = r.tool)
<1>1. r \in Line
  BY DEF LineIsTrue, Line, BindingIsTrue, StartedIsTrue, CompletionIsTrue
<1>2. store \in StoreType /\ clock \in Nat
  BY DEF HookInv, StoreInv, StoreType
<1>3. \A x \in Stores : Lines(x) \in Seq(Line)
  BY <1>2 DEF StoreType, Lines
<1>4. PICK k : k = Append(Lines(s), r)
  OBVIOUS
<1>5. k \in Seq(Line) /\ Len(k) = Len(Lines(s)) + 1 /\ k[Len(k)] = r
      /\ \A i \in 1 .. Len(Lines(s)) : k[i] = Lines(s)[i]
  BY <1>1, <1>3, <1>4
<1>6. /\ store' \in StoreType /\ Lines(s)' = k
      /\ \A x \in Stores \ {s} : Lines(x)' = Lines(x)
  BY <1>2, <1>4, <1>5 DEF StoreType, Lines
<1>7. ASSUME NEW x \in Stores, NEW i \in 1 .. Len(Lines(x)')
      PROVE  LineIsTrue(x, Lines(x)[i])' /\ (x # s \/ i # Len(k) => Lines(x)'[i] = Lines(x)[i]
                                                            /\ i \in 1 .. Len(Lines(x)))
  <2>1. CASE x = s /\ i = Len(k)
    <3>1. Lines(x)'[i] = r
      BY <1>5, <1>6, <2>1
    <3>2. LineIsTrue(x, r)'
      BY <1>2, <2>1, TrueStays
    <3> QED
      BY <2>1, <3>1, <3>2
  <2>2. CASE ~(x = s /\ i = Len(k))
    <3>1. Lines(x)'[i] = Lines(x)[i] /\ i \in 1 .. Len(Lines(x))
      <4>1. CASE x = s
        <5>1. Len(Lines(s)) \in Nat
          BY <1>3
        <5> QED
          BY <1>5, <1>6, <1>7, <2>2, <4>1, <5>1
      <4>2. CASE x # s
        BY <1>6, <1>7, <4>2
      <4> QED
        BY <4>1, <4>2
    <3>2. PICK o : o = Lines(x)[i]
      OBVIOUS
    <3>3. i \in DOMAIN Lines(x)
      BY <1>3, <3>1
    <3>4. LineIsTrue(x, o)
      BY <3>2, <3>3 DEF HookInv, StoreInv
    <3>5. LineIsTrue(x, o)'
      BY <1>2, <3>4, TrueStays
    <3> QED
      BY <3>1, <3>2, <3>5
  <2> QED
    BY <2>1, <2>2
<1>8. StoreInv'
  <2>1. \A x \in Stores : Lines(x)' \in Seq(Line)
    BY <1>6 DEF StoreType, Lines
  <2>2. \A x \in Stores : DOMAIN Lines(x)' = 1 .. Len(Lines(x)')
    BY <2>1
  <2> QED
    BY <1>6, <1>7, <2>2 DEF StoreInv, StoreType
<1>9. "ledger" \in Stores /\ "threads" \in Stores /\ Stores = {"ledger", "threads"}
  BY DEF Stores
<1>10. s = "threads" => r \notin Completions
  BY DEF LineIsTrue, BindingIsTrue, Bindings, Completions
<1>11. /\ \A d : Started(d) => Started(d)'
       /\ \A d : Terminal(d)' => Terminal(d) \/ (r \in Completions /\ d = r.tool)
  <2> DEFINE old == Lines("ledger")
             new == Lines("ledger")'
  <2>1. /\ old \in Seq(Line) /\ new \in Seq(Line)
        /\ DOMAIN old = 1 .. Len(old) /\ Len(old) \in Nat
        /\ \A i \in 1 .. Len(old) : i \in DOMAIN new /\ new[i] = old[i]
        /\ \A i \in DOMAIN new : \/ i \in 1 .. Len(old)
                                 \/ s = "ledger" /\ new[i] = r
    <3>1. old \in Seq(Line) /\ new \in Seq(Line)
      BY <1>3, <1>5, <1>6, <1>9
    <3>2. CASE s = "ledger"
      <4>1. new = k /\ DOMAIN new = 1 .. Len(k) /\ DOMAIN old = 1 .. Len(old) /\ Len(old) \in Nat
        BY <1>6, <3>1, <3>2
      <4> QED
        BY <1>5, <3>1, <3>2, <4>1
    <3>3. CASE s # "ledger"
      <4>1. new = old
        BY <1>6, <1>9, <3>3
      <4> QED
        BY <3>1, <4>1
    <3> QED
      BY <3>2, <3>3
  <2>2. /\ Records("ledger") = {old[i] : i \in DOMAIN old}
        /\ Records("ledger")' = {new[i] : i \in DOMAIN new}
    BY DEF Records, Lines, ToSet
  <2> HIDE DEF old, new
  <2>3. Records("ledger") \subseteq Records("ledger")'
    BY <2>1, <2>2
  <2>4. Records("ledger")' \subseteq Records("ledger") \cup (IF s = "ledger" THEN {r} ELSE {})
    BY <2>1, <2>2
  <2>5. \A d : Started(d) => Started(d)'
    BY <2>3 DEF Started
  <2>6. s = "ledger" /\ r.status \in {"COMPLETED", "FAILED"} => r \in Completions
    BY DEF LineIsTrue, StartedIsTrue, CompletionIsTrue, StartedRecords, OtherRecords
  <2>7. \A d : Terminal(d)' => Terminal(d) \/ (r \in Completions /\ d = r.tool)
    BY <2>4, <2>6 DEF Terminal
  <2> QED
    BY <2>5, <2>7
<1>12. OrderInv'
  <2>1. CASE s = "threads"
    BY <1>6, <1>9, <2>1 DEF HookInv, OrderInv
  <2>2. CASE s = "ledger"
    <3> DEFINE old == Lines("ledger")
    <3>1. /\ old \in Seq(Line) /\ Lines("ledger")' = k
          /\ DOMAIN k = 1 .. (Len(old) + 1) /\ DOMAIN old = 1 .. Len(old) /\ Len(old) \in Nat
          /\ k[Len(old) + 1] = r /\ \A i \in 1 .. Len(old) : k[i] = old[i]
      BY <1>3, <1>5, <1>6, <1>9, <2>2
    <3>2. ASSUME NEW i \in 1 .. Len(old), old[i] \in Completions
          PROVE  /\ \E j \in 1 .. (i - 1) : k[j] \in StartedRecords /\ k[j].tool = old[i].tool
                 /\ \A j \in 1 .. (i - 1) : k[j] \in Completions => k[j].tool # old[i].tool
      <4>1. \A j \in 1 .. (i - 1) : j \in 1 .. Len(old) /\ k[j] = old[j]
        BY <3>1
      <4>2. i \in DOMAIN old
        BY <3>1
      <4> QED
        BY <3>2, <4>1, <4>2 DEF HookInv, OrderInv
    <3>3. ASSUME r \in Completions
          PROVE  /\ \E j \in 1 .. Len(old) : k[j] \in StartedRecords /\ k[j].tool = r.tool
                 /\ \A j \in 1 .. Len(old) : k[j] \in Completions => k[j].tool # r.tool
      <4>1. PICK o \in Records("ledger") : o.status = "STARTED" /\ o.tool = r.tool
        BY <3>3 DEF Started
      <4>2. PICK j \in 1 .. Len(old) : o = old[j]
        BY <3>1 DEF Records, ToSet, Lines
      <4>3. LineIsTrue("ledger", o)
        BY <1>9, <3>1, <4>2 DEF HookInv, StoreInv
      <4>4. o \in StartedRecords
        BY <4>1, <4>3 DEF LineIsTrue, StartedIsTrue, CompletionIsTrue, Completions, OtherRecords
      <4>5. ASSUME NEW i \in 1 .. Len(old), old[i] \in Completions
            PROVE  old[i].tool # r.tool
        <5>1. old[i] \in Records("ledger")
          BY <3>1 DEF Records, ToSet, Lines
        <5>2. old[i].status \in {"COMPLETED", "FAILED"}
          BY <4>5 DEF Completions
        <5> QED
          BY <3>3, <5>1, <5>2 DEF Terminal
      <4> QED
        BY <3>1, <4>1, <4>2, <4>4, <4>5
    <3>4. ASSUME NEW i \in DOMAIN k, k[i] \in Completions
          PROVE  /\ \E j \in 1 .. (i - 1) : k[j] \in StartedRecords /\ k[j].tool = k[i].tool
                 /\ \A j \in 1 .. (i - 1) : k[j] \in Completions => k[j].tool # k[i].tool
      <4>1. CASE i = Len(old) + 1
        <5>1. k[i] = r /\ i - 1 = Len(old)
          BY <3>1, <4>1
        <5> QED
          BY <3>3, <3>4, <5>1
      <4>2. CASE i # Len(old) + 1
        <5>1. i \in 1 .. Len(old) /\ k[i] = old[i]
          BY <3>1, <4>2
        <5> QED
          BY <3>2, <3>4, <5>1
      <4> QED
        BY <4>1, <4>2
    <3> QED
      BY <3>1, <3>4 DEF OrderInv
  <2> QED
    BY <1>9, <2>1, <2>2
<1> QED
  BY <1>8, <1>11, <1>12

(* Where nothing it says of the delegation changes, a process stays right. *)
LEMMA RunsSame ==
    ASSUME NEW h, NEW p, Runs(h, p), UNCHANGED <<tool, clock>>,
           p.pc # "line" \/ UNCHANGED store
    PROVE  Runs(h, p)'
<1>1. /\ StartedIsTrue(p.record)' <=> StartedIsTrue(p.record)
      /\ CompletionIsTrue(p.record)' <=> CompletionIsTrue(p.record)
      /\ BindingIsTrue(p.record)' <=> BindingIsTrue(p.record)
  BY DEF StartedIsTrue, CompletionIsTrue, BindingIsTrue, Created
<1>2. PreRun(h, p) => PreRun(h, p)'
  BY <1>1 DEF PreRun
<1>3. PostRun(h, p) => PostRun(h, p)'
  BY <1>1 DEF PostRun, Started, Terminal, Records
<1> QED
  BY <1>2, <1>3 DEF Runs, StopRun

(* A step that leaves the lines alone; the stops may grow.                 *)
LEMMA SilentConcludes ==
    ASSUME HookInv, Onward, work' \in Fingerprint, ToolInv', StopsInv', UNCHANGED store,
           NEW h \in Hooks, NEW p, hook' = [hook EXCEPT ![h] = p], Runs(h, p)',
           \A d \in Delegation \ {h} : tool'[d] = tool[d]
    PROVE  HookInv'
<1>1. store' \in StoreType /\ \A s \in Stores : Lines(s)' = Lines(s)
  BY DEF HookInv, StoreInv, StoreType, Lines
<1> QED
  BY <1>1, LinesSame, StepConcludes

LEMMA AppendLineStep ==
    ASSUME HookInv, NEW h \in Hooks, AppendLine(h)
    PROVE  HookInv'
<1>1. PICK q : q = hook[h]
  OBVIOUS
<1>2. PICK r : r = q.record
  OBVIOUS
<1>3. PICK p : p = [q EXCEPT !.pc = "head"]
  OBVIOUS
<1>4. Runs(h, q) /\ (h \in Delegation <=> h # "stop") /\ hook = [x \in Hooks |-> hook[x]]
  BY <1>1, ProcessIs
<1>5. /\ q.pc = "line" /\ UNCHANGED <<tool, stops, work, baseline, clock>>
      /\ store' = [store EXCEPT ![q.store].lines = Append(@, r)]
      /\ hook' = [hook EXCEPT ![h] = p]
  BY <1>1, <1>2, <1>3, <1>4 DEF AppendLine
<1>6. /\ q.store \in Stores /\ LineIsTrue(q.store, r) /\ p.pc = "head" /\ Runs(h, p)
      /\ r \in Completions => h \in Delegation /\ r.tool = h /\ Started(h) /\ ~Terminal(h)
  <2>1. CASE h \in Delegation /\ PreRun(h, q)
    <3>1. /\ q.store = "ledger" /\ LineIsTrue("ledger", r) /\ r \notin Completions
      BY <1>2, <1>5, <2>1 DEF PreRun, LineIsTrue, StartedRecords, OtherRecords, Completions
    <3>2. p.pc = "head" /\ PreRun(h, p)
      BY <1>3, <1>5, <2>1 DEF PreRun
    <3> QED
      BY <2>1, <3>1, <3>2 DEF Runs, Stores
  <2>2. CASE h \in Delegation /\ PostRun(h, q)
    <3>1. CASE /\ q \in [pc : {"line", "head", "bind"}, store : {"ledger"},
                         then : {"bind", "end"}, record : Completions]
               /\ CompletionIsTrue(r) /\ r.tool = h /\ Started(h) /\ ~Terminal(h)
               /\ q.then = "bind" => tool[h].state = "returned"
      <4>1. q.store = "ledger" /\ LineIsTrue("ledger", r)
        BY <3>1 DEF LineIsTrue
      <4>2. p = [pc |-> "head", store |-> "ledger", then |-> q.then, record |-> r]
        BY <1>2, <1>3, <3>1
      <4>3. PostRun(h, p)
        BY <1>2, <2>2, <3>1, <4>2 DEF PostRun
      <4> QED
        BY <2>2, <3>1, <4>1, <4>2, <4>3 DEF Runs, Stores
    <3>2. CASE /\ q \in [pc : {"verify", "line", "head"}, store : {"threads"},
                         then : {"end"}, record : Bindings]
               /\ BindingIsTrue(r)
      <4>1. q.store = "threads" /\ LineIsTrue("threads", r) /\ r \notin Completions
        BY <3>2 DEF LineIsTrue, BindingIsTrue, Bindings, Completions
      <4>2. p = [pc |-> "head", store |-> "threads", then |-> "end", record |-> r]
        BY <1>2, <1>3, <3>2
      <4>3. PostRun(h, p)
        BY <1>2, <2>2, <3>2, <4>2 DEF PostRun
      <4> QED
        BY <2>2, <4>1, <4>2, <4>3 DEF Runs, Stores
    <3> QED
      BY <1>2, <1>5, <2>2, <3>1, <3>2 DEF PostRun
  <2>3. CASE h = "stop" /\ StopRun(q)
    <3>1. q.store = "ledger" /\ LineIsTrue("ledger", r) /\ r \notin Completions
      BY <1>2, <1>5, <2>3 DEF StopRun, LineIsTrue, OtherRecords, Completions
    <3>2. p.pc = "head" /\ StopRun(p)
      BY <1>3, <1>5, <2>3 DEF StopRun
    <3> QED
      BY <2>3, <3>1, <3>2 DEF Runs, Stores
  <2>4. q # NoHook
    BY <1>5 DEF NoHook
  <2> QED
    BY <1>4, <2>1, <2>2, <2>3, <2>4 DEF Runs
<1>7. clock \in Nat /\ work \in Fingerprint
  BY DEF HookInv
<1>8. Onward /\ ToolInv' /\ work' \in Fingerprint /\ StopsInv'
  BY <1>5, <1>7, ToolSame, StopsSame
<1>9. /\ StoreInv' /\ OrderInv'
      /\ \A d : Started(d) => Started(d)'
      /\ \A d : Terminal(d)' => Terminal(d) \/ (r \in Completions /\ d = r.tool)
  BY <1>5, <1>6, <1>8, LinesMore
<1>10. Runs(h, p)'
  BY <1>5, <1>6, RunsSame
<1>11. ASSUME NEW d \in Delegation \ {h}
       PROVE  tool'[d] = tool[d] /\ (Started(d) => Started(d)') /\ (Terminal(d)' => Terminal(d))
  BY <1>5, <1>6, <1>9, <1>11
<1> QED
  BY <1>5, <1>8, <1>9, <1>10, <1>11, StepConcludes

LEMMA HeadOnly ==
    ASSUME HookInv, NEW s \in Stores, NEW n \in Nat, store' = [store EXCEPT ![s].head = n]
    PROVE  store' \in StoreType /\ \A x \in Stores : Lines(x)' = Lines(x)
<1>1. store \in StoreType
  BY DEF HookInv, StoreInv, StoreType
<1>2. PICK f : f = [store[s] EXCEPT !.head = n]
  OBVIOUS
<1>3. f = [lines |-> store[s].lines, head |-> n] /\ store[s].lines \in Seq(Line)
  BY <1>1, <1>2 DEF StoreType
<1>4. store' = [store EXCEPT ![s] = f]
  BY <1>1, <1>2 DEF StoreType
<1>5. f \in [lines : Seq(Line), head : Nat]
  BY <1>3
<1> QED
  BY <1>1, <1>3, <1>4, <1>5 DEF StoreType, Lines

LEMMA WriteHeadStep ==
    ASSUME HookInv, NEW h \in Hooks, WriteHead(h)
    PROVE  HookInv'
<1>1. PICK q : q = hook[h]
  OBVIOUS
<1>2. Runs(h, q) /\ (h \in Delegation <=> h # "stop") /\ hook = [x \in Hooks |-> hook[x]]
  BY <1>1, ProcessIs
<1>3. PICK p : p = IF q.then \in {"allow", "end"} THEN NoHook ELSE [q EXCEPT !.pc = q.then]
  OBVIOUS
<1>4. /\ q.pc = "head" /\ UNCHANGED <<stops, work, baseline, clock>>
      /\ store' = [store EXCEPT ![q.store].head = q.record.seq + 1]
      /\ hook' = [hook EXCEPT ![h] = p]
      /\ tool' = IF q.then = "allow" THEN [tool EXCEPT ![h].state = "running"] ELSE tool
  BY <1>1, <1>2, <1>3 DEF WriteHead
<1>5. /\ q.store \in Stores /\ q.record.seq \in Nat
      /\ q.then = "allow" => h \in Delegation /\ tool[h] \in OpenTool
      /\ q.then # "allow" => Runs(h, p) /\ p.pc # "line"
  <2>1. CASE h \in Delegation /\ PreRun(h, q)
    <3>1. q.store \in Stores /\ q.record.seq \in Nat /\ q.then \in {"allow", "deny"}
      BY <1>4, <2>1 DEF PreRun, Stores, StartedRecords, OtherRecords
    <3>2. q.then = "deny" => p.pc = "deny" /\ PreRun(h, p)
      BY <1>3, <1>4, <2>1 DEF PreRun
    <3> QED
      BY <2>1, <3>1, <3>2 DEF Runs, PreRun
  <2>2. CASE h \in Delegation /\ PostRun(h, q)
    <3>1. CASE q.store = "ledger"
      <4>1. /\ q \in [pc : {"line", "head", "bind"}, store : {"ledger"},
                      then : {"bind", "end"}, record : Completions]
            /\ CompletionIsTrue(q.record) /\ q.record.tool = h
            /\ q.then = "bind" => tool[h].state = "returned"
        BY <1>4, <2>2, <3>1 DEF PostRun
      <4>2. q.then = "bind" =>
              p = [pc |-> "bind", store |-> "ledger", then |-> "bind", record |-> q.record]
        BY <1>3, <4>1
      <4>3. q.then = "bind" => PostRun(h, p) /\ p.pc = "bind"
        BY <2>2, <4>1, <4>2 DEF PostRun
      <4>4. q.record.seq \in Nat /\ q.then \in {"bind", "end"}
        BY <4>1 DEF Completions
      <4>5. q.then = "end" => p = NoHook
        BY <1>3
      <4> QED
        BY <2>2, <3>1, <4>3, <4>4, <4>5 DEF Runs, Stores, NoHook
    <3>2. CASE q.store # "ledger"
      <4>1. q \in [pc : {"verify", "line", "head"}, store : {"threads"},
                   then : {"end"}, record : Bindings]
        BY <1>4, <2>2, <3>2 DEF PostRun
      <4>2. p = NoHook /\ q.store = "threads" /\ q.record.seq \in Nat /\ q.then = "end"
        BY <1>3, <4>1 DEF Bindings
      <4> QED
        BY <4>2 DEF Runs, Stores, NoHook
    <3> QED
      BY <3>1, <3>2
  <2>3. CASE h = "stop" /\ StopRun(q)
    <3>1. q.store \in Stores /\ q.record.seq \in Nat /\ q.then = "block"
      BY <1>4, <2>3 DEF StopRun, Stores, OtherRecords
    <3>2. p.pc = "block" /\ StopRun(p)
      BY <1>3, <1>4, <2>3 DEF StopRun
    <3> QED
      BY <2>3, <3>1, <3>2 DEF Runs
  <2>4. q # NoHook
    BY <1>4 DEF NoHook
  <2> QED
    BY <1>2, <2>1, <2>2, <2>3, <2>4 DEF Runs
<1>6. clock \in Nat /\ work \in Fingerprint
  BY DEF HookInv
<1>7. store' \in StoreType /\ \A x \in Stores : Lines(x)' = Lines(x)
  <2>1. PICK n : n = q.record.seq + 1
    OBVIOUS
  <2>2. n \in Nat /\ q.store \in Stores /\ store' = [store EXCEPT ![q.store].head = n]
    BY <1>4, <1>5, <2>1
  <2> QED
    BY <2>2, HeadOnly
<1>8. CASE q.then = "allow"
  <2>1. PICK t : t = [tool[h] EXCEPT !.state = "running"]
    OBVIOUS
  <2>2. t \in OpenTool /\ t.role = tool[h].role
    BY <1>5, <1>8, <2>1 DEF OpenTool
  <2>3. tool' = [tool EXCEPT ![h] = t]
    BY <1>4, <1>8, <2>1
  <2>4. Onward /\ ToolInv' /\ \A x \in Delegation \ {h} : tool'[x] = tool[x]
    BY <1>4, <1>5, <1>8, <2>2, <2>3, ToolChanges
  <2>5. Runs(h, p)'
    BY <1>3, <1>8 DEF Runs
  <2> QED
    BY <1>4, <1>6, <1>7, <2>4, <2>5, QuietConcludes
<1>9. CASE q.then # "allow"
  <2>1. Onward /\ ToolInv' /\ tool' = tool
    BY <1>4, <1>6, <1>9, ToolSame
  <2>2. Runs(h, p)'
    BY <1>4, <1>5, <1>9, <2>1, RunsSame
  <2> QED
    BY <1>4, <1>6, <1>7, <2>1, <2>2, QuietConcludes
<1> QED
  BY <1>8, <1>9

LEMMA StopWork ==
    ASSUME HookInv, hook["stop"] # NoHook
    PROVE  hook["stop"].work \in Fingerprint
<1>1. "stop" \in Hooks
  BY DEF Hooks
<1>2. StopRun(hook["stop"])
  BY <1>1, ProcessIs DEF Runs
<1> QED
  BY <1>2 DEF StopRun

LEMMA RefuseAppendStep ==
    ASSUME HookInv, NEW h \in Hooks, RefuseAppend(h)
    PROVE  HookInv'
<1>1. /\ hook' = [hook EXCEPT ![h] = NoHook] /\ UNCHANGED <<store, tool, work, baseline, clock>>
      /\ hook[h] # NoHook
  BY DEF RefuseAppend, NoHook
<1>2. clock \in Nat /\ work \in Fingerprint
  BY DEF HookInv
<1>3. Onward /\ ToolInv'
  BY <1>1, <1>2, ToolSame
<1>4. StopsInv'
  <2>1. CASE h = "stop"
    <3>1. StopEnds("block", "nothing")
      BY <2>1 DEF RefuseAppend
    <3> QED
      BY <1>1, <1>3, <2>1, <3>1, StopWork, StopsMore
  <2>2. CASE h # "stop"
    BY <1>1, <1>3, <2>2, StopsSame DEF RefuseAppend
  <2> QED
    BY <2>1, <2>2
<1>5. Runs(h, NoHook)'
  BY DEF Runs
<1> QED
  BY <1>1, <1>2, <1>3, <1>4, <1>5, SilentConcludes

LEMMA HookCrashStep ==
    ASSUME HookInv, NEW h \in Hooks, HookCrash(h)
    PROVE  HookInv'
<1>1. /\ hook' = [hook EXCEPT ![h] = NoHook] /\ UNCHANGED <<store, work, baseline, clock>>
      /\ hook[h] # NoHook
  BY DEF HookCrash
<1>2. clock \in Nat /\ work \in Fingerprint
  BY DEF HookInv
<1>3. Onward /\ ToolInv' /\ \A x \in Delegation \ {h} : tool'[x] = tool[x]
  <2>1. CASE h \in Delegation /\ tool[h].state = "asked"
    <3>1. PICK t : t = [tool[h] EXCEPT !.state = "running"]
      OBVIOUS
    <3>2. tool' = [tool EXCEPT ![h] = t]
      BY <2>1, <3>1 DEF HookCrash
    <3>3. tool[h] \in OpenTool
      BY <2>1 DEF HookInv, ToolInv, NewTool, DoneTool
    <3>4. t \in OpenTool /\ t.role = tool[h].role
      BY <3>1, <3>3 DEF OpenTool
    <3> QED
      BY <1>1, <2>1, <3>2, <3>3, <3>4, ToolChanges
  <2>2. CASE ~(h \in Delegation /\ tool[h].state = "asked")
    <3>1. tool' = tool
      BY <2>2 DEF HookCrash
    <3> QED
      BY <1>1, <1>2, <3>1, ToolSame
  <2> QED
    BY <2>1, <2>2
<1>4. StopsInv'
  <2>1. CASE h = "stop"
    <3>1. StopEnds("none", "crashed")
      BY <2>1 DEF HookCrash
    <3> QED
      BY <1>1, <1>3, <2>1, <3>1, StopWork, StopsMore
  <2>2. CASE h # "stop"
    BY <1>1, <1>3, <2>2, StopsSame DEF HookCrash
  <2> QED
    BY <2>1, <2>2
<1>5. Runs(h, NoHook)'
  BY DEF Runs
<1> QED
  BY <1>1, <1>2, <1>3, <1>4, <1>5, SilentConcludes

-----------------------------------------------------------------------------
(* The hooks of a delegation.                                              *)
LEMMA DenyStep ==
    ASSUME HookInv, NEW d \in Delegation, Deny(d)
    PROVE  HookInv'
<1>1. PICK t : t = [tool[d] EXCEPT !.state = "denied"]
  OBVIOUS
<1>2. /\ hook[d].pc = "deny" /\ hook' = [hook EXCEPT ![d] = NoHook]
      /\ tool' = [tool EXCEPT ![d] = t]
      /\ UNCHANGED <<store, stops, work, baseline, clock>>
  BY <1>1 DEF Deny
<1>3. d \in Hooks
  BY DEF Hooks
<1>4. tool[d] \in OpenTool
  <2>1. Runs(d, hook[d]) /\ d # "stop"
    BY <1>3, ProcessIs
  <2>2. hook[d] # NoHook /\ ~PostRun(d, hook[d])
    BY <1>2 DEF NoHook, PostRun
  <2> QED
    BY <2>1, <2>2 DEF Runs, PreRun
<1>5. t \in OpenTool /\ t.role = tool[d].role
  BY <1>1, <1>4 DEF OpenTool
<1>6. Onward /\ ToolInv' /\ \A x \in Delegation \ {d} : tool'[x] = tool[x]
  BY <1>2, <1>4, <1>5, ToolChanges
<1>7. work' \in Fingerprint /\ StopsInv' /\ Runs(d, NoHook)'
  BY <1>2, <1>6, StopsSame DEF HookInv, Runs
<1> QED
  BY <1>2, <1>3, <1>6, <1>7, SilentConcludes

(* Events that start no hook and end none.                                 *)
LEMMA EventConcludes ==
    ASSUME HookInv, NEW d \in Delegation, tool[d].state \in {"new", "running"},
           UNCHANGED <<store, hook, stops, work, baseline, clock>>,
           Onward, ToolInv', \A x \in Delegation \ {d} : tool'[x] = tool[x]
    PROVE  HookInv'
<1>1. d \in Hooks
  BY DEF Hooks
<1>2. hook' = [hook EXCEPT ![d] = NoHook]
  BY NoHookNow
<1>3. work' \in Fingerprint /\ StopsInv' /\ Runs(d, NoHook)'
  BY StopsSame DEF HookInv, Runs
<1> QED
  BY <1>1, <1>2, <1>3, SilentConcludes

LEMMA DenyToolStep ==
    ASSUME HookInv, NEW d \in Delegation, DenyTool(d)
    PROVE  HookInv'
<1>1. PICK t : t = [tool[d] EXCEPT !.state = "denied"]
  OBVIOUS
<1>2. /\ tool[d].state = "new" /\ tool' = [tool EXCEPT ![d] = t]
      /\ UNCHANGED <<store, hook, stops, work, baseline, clock>>
  BY <1>1 DEF DenyTool
<1>3. tool[d] \in NewTool
  BY <1>2 DEF HookInv, ToolInv, OpenTool, DoneTool
<1>4. t \in NewTool
  BY <1>1, <1>3 DEF NewTool
<1>5. Onward /\ ToolInv' /\ \A x \in Delegation \ {d} : tool'[x] = tool[x]
  BY <1>2, <1>3, <1>4, ToolChanges
<1> QED
  BY <1>2, <1>5, EventConcludes

LEMMA UnhookedStep ==
    ASSUME HookInv, NEW d \in Delegation, Unhooked(d)
    PROVE  HookInv'
<1>1. PICK role \in Role :
        tool' = [tool EXCEPT ![d] = [state |-> "running", role |-> role, thread |-> NoThread]]
  BY DEF Unhooked
<1>2. PICK t : t = [state |-> "running", role |-> role, thread |-> NoThread]
  OBVIOUS
<1>3. /\ tool[d].state = "new" /\ tool' = [tool EXCEPT ![d] = t]
      /\ UNCHANGED <<store, hook, stops, work, baseline, clock>>
  BY <1>1, <1>2 DEF Unhooked
<1>4. tool[d] \in NewTool /\ t \in OpenTool
  BY <1>2, <1>3 DEF HookInv, ToolInv, OpenTool, DoneTool, Somewhere
<1>5. Onward /\ ToolInv' /\ \A x \in Delegation \ {d} : tool'[x] = tool[x]
  BY <1>3, <1>4, ToolChanges
<1> QED
  BY <1>3, <1>5, EventConcludes

LEMMA ReturnStep ==
    ASSUME HookInv, NEW d \in Delegation, Return(d)
    PROVE  HookInv'
<1>1. PICK state \in {"returned", "failed"}, id \in Somewhere :
        tool' = [tool EXCEPT ![d] = [state |-> state, role |-> @.role, thread |-> @.thread,
                                     id |-> id, work |-> work, posted |-> NoFingerprint]]
  BY DEF Return, Somewhere
<1>2. PICK t : t = [state |-> state, role |-> tool[d].role, thread |-> tool[d].thread,
                    id |-> id, work |-> work, posted |-> NoFingerprint]
  OBVIOUS
<1>3. /\ tool[d].state = "running" /\ tool' = [tool EXCEPT ![d] = t]
      /\ UNCHANGED <<store, hook, stops, work, baseline, clock>>
  BY <1>1, <1>2 DEF Return
<1>4. tool[d] \in OpenTool
  BY <1>3 DEF HookInv, ToolInv, NewTool, DoneTool
<1>5. work \in Fingerprint /\ work <= work
  BY FingerprintsAreTaken DEF HookInv
<1>6. t \in DoneTool /\ t.role = tool[d].role /\ t.work <= work /\ t.posted = NoFingerprint
  BY <1>2, <1>4, <1>5 DEF OpenTool, DoneTool
<1>7. Onward /\ ToolInv' /\ \A x \in Delegation \ {d} : tool'[x] = tool[x]
  BY <1>3, <1>4, <1>6, ToolChanges
<1> QED
  BY <1>3, <1>7, EventConcludes

(* Who may reply on a thread has the role of the delegation that made it.  *)
LEMMA ReplyIsCreated ==
    ASSUME HookInv, NEW thread, NEW role, MayReply(thread, role)
    PROVE  Created(thread, role)
<1>1. PICK r \in Records("threads") : r.thread = thread /\ r.status = "BOUND" /\ r.role = role
  BY DEF MayReply
<1>2. PICK i \in DOMAIN Lines("threads") : r = Lines("threads")[i]
  BY DEF Records, Lines, ToSet
<1>3. LineIsTrue("threads", r)
  BY <1>2 DEF HookInv, StoreInv, Stores
<1> QED
  BY <1>1, <1>3 DEF LineIsTrue, BindingIsTrue

LEMMA LengthIsNat == HookInv => \A s \in Stores : Len(store[s].lines) \in Nat
<1> SUFFICES ASSUME HookInv, NEW s \in Stores
             PROVE  Len(store[s].lines) \in Nat
  OBVIOUS
<1>1. store[s].lines \in Seq(Line)
  BY DEF HookInv, StoreInv
<1> QED
  BY <1>1

LEMMA PreToolStep ==
    ASSUME HookInv, NEW d \in Delegation, PreTool(d)
    PROVE  HookInv'
<1>1. PICK role \in Role, thread \in Somewhere :
        /\ tool' = [tool EXCEPT ![d] = [state |-> "asked", role |-> role, thread |-> thread]]
        /\ \/ hook' = [hook EXCEPT ![d] = Numbered("ledger", InvalidRecord(d), "deny")]
           \/ /\ \/ thread = NoThread
                 \/ MayReply(thread, role)
              /\ hook' = [hook EXCEPT ![d] =
                     Numbered("ledger", StartedRecord(d, role, thread), "allow")]
  BY Zenon DEF PreTool, Somewhere
<1>2. PICK t : t = [state |-> "asked", role |-> role, thread |-> thread]
  OBVIOUS
<1>3. PICK n : n = Len(store["ledger"].lines)
  OBVIOUS
<1>4. /\ tool[d].state = "new" /\ tool' = [tool EXCEPT ![d] = t]
      /\ UNCHANGED <<store, stops, work, baseline, clock>>
  BY <1>1, <1>2 DEF PreTool
<1>5. n \in Nat /\ d \in Hooks
  BY <1>3, LengthIsNat DEF Stores, Hooks
<1>6. tool[d] \in NewTool /\ t \in OpenTool
  BY <1>2, <1>4 DEF HookInv, ToolInv, OpenTool, DoneTool
<1>7. Onward /\ ToolInv' /\ tool'[d] = t /\ \A x \in Delegation \ {d} : tool'[x] = tool[x]
  <2>1. tool'[d] = t
    BY <1>4 DEF HookInv, ToolInv
  <2> QED
    BY <1>4, <1>6, <2>1, ToolChanges
<1>8. \E p : hook' = [hook EXCEPT ![d] = p] /\ Runs(d, p)'
  <2>1. CASE hook' = [hook EXCEPT ![d] = Numbered("ledger", InvalidRecord(d), "deny")]
    <3>1. PICK r : r = [seq |-> n, status |-> "DELEGATION_METADATA_INVALID", tool |-> d]
      OBVIOUS
    <3>2. PICK p : p = [pc |-> "line", store |-> "ledger", then |-> "deny", record |-> r]
      OBVIOUS
    <3>3. hook' = [hook EXCEPT ![d] = p]
      <4>1. [InvalidRecord(d) EXCEPT !.seq = n] = r
        BY <3>1 DEF InvalidRecord
      <4>2. Numbered("ledger", InvalidRecord(d), "deny") = p
        BY <1>3, <3>2, <4>1 DEF Numbered
      <4> QED
        BY <2>1, <4>2
    <3>4. r \in OtherRecords
      BY <1>5, <3>1 DEF OtherRecords
    <3>5. PreRun(d, p)'
      BY <1>2, <1>6, <1>7, <3>2, <3>4 DEF PreRun
    <3> QED
      BY <3>3, <3>5 DEF Runs
  <2>2. CASE /\ thread = NoThread \/ MayReply(thread, role)
             /\ hook' = [hook EXCEPT ![d] =
                    Numbered("ledger", StartedRecord(d, role, thread), "allow")]
    <3>1. PICK r : r = [seq |-> n, status |-> "STARTED", tool |-> d, role |-> role,
                        thread |-> thread]
      OBVIOUS
    <3>2. PICK p : p = [pc |-> "line", store |-> "ledger", then |-> "allow", record |-> r]
      OBVIOUS
    <3>3. hook' = [hook EXCEPT ![d] = p]
      <4>1. [StartedRecord(d, role, thread) EXCEPT !.seq = n] = r
        BY <3>1 DEF StartedRecord
      <4>2. Numbered("ledger", StartedRecord(d, role, thread), "allow") = p
        BY <1>3, <3>2, <4>1 DEF Numbered
      <4> QED
        BY <2>2, <4>2
    <3>4. r \in StartedRecords
      BY <1>5, <3>1 DEF StartedRecords
    <3>5. thread # NoThread => Created(thread, role)'
      BY <1>7, <2>2, ReplyIsCreated, CreatedStays
    <3>6. StartedIsTrue(r)'
      BY <1>2, <1>6, <1>7, <3>1, <3>4, <3>5 DEF StartedIsTrue
    <3>7. PreRun(d, p)'
      BY <1>2, <1>6, <1>7, <3>2, <3>4, <3>6 DEF PreRun
    <3> QED
      BY <3>3, <3>7 DEF Runs
  <2> QED
    BY <1>1, <2>1, <2>2
<1>9. work' \in Fingerprint /\ StopsInv'
  BY <1>4, <1>7, StopsSame DEF HookInv
<1> QED
  BY <1>4, <1>5, <1>7, <1>8, <1>9, SilentConcludes

LEMMA PostToolStep ==
    ASSUME HookInv, NEW d \in Delegation, PostTool(d)
    PROVE  HookInv'
<1>1. PICK t : t = [tool[d] EXCEPT !.posted = work]
  OBVIOUS
<1>2. PICK p : p = IF Verified("ledger") /\ Started(d)
                   THEN [pc |-> "correlate", work |-> work] ELSE NoHook
  OBVIOUS
<1>3. /\ tool[d].state \in {"returned", "failed"} /\ tool[d].posted = NoFingerprint
      /\ tool' = [tool EXCEPT ![d] = t] /\ hook' = [hook EXCEPT ![d] = p]
      /\ UNCHANGED <<store, stops, work, baseline, clock>>
  BY <1>1, <1>2 DEF PostTool
<1>4. tool[d] \in DoneTool /\ work \in Fingerprint /\ d \in Hooks /\ tool'[d] = t
  BY <1>3 DEF HookInv, ToolInv, NewTool, OpenTool, Hooks
<1>5. t \in DoneTool /\ t.role = tool[d].role /\ t.state = tool[d].state
      /\ t.id = tool[d].id /\ t.work = tool[d].work /\ t.posted = work
  BY <1>1, <1>4 DEF DoneTool
<1>6. Onward /\ ToolInv' /\ \A x \in Delegation \ {d} : tool'[x] = tool[x]
  BY <1>3, <1>4, <1>5, ToolChanges
<1>7. Runs(d, p)'
  <2>1. CASE p = [pc |-> "correlate", work |-> work]
    <3>1. PostRun(d, p)'
      BY <1>4, <1>5, <2>1 DEF PostRun
    <3> QED
      BY <3>1 DEF Runs
  <2>2. CASE p = NoHook
    BY <2>2 DEF Runs
  <2> QED
    BY <1>2, <2>1, <2>2
<1>8. work' \in Fingerprint /\ StopsInv'
  BY <1>3, <1>6, StopsSame DEF HookInv
<1> QED
  BY <1>3, <1>4, <1>6, <1>7, <1>8, SilentConcludes

LEMMA CorrelateStep ==
    ASSUME HookInv, NEW d \in Delegation, Correlate(d)
    PROVE  HookInv'
<1>1. PICK q : q = hook[d]
  OBVIOUS
<1>2. /\ q.pc = "correlate" /\ clock' \in {clock, clock + 1}
      /\ UNCHANGED <<store, tool, stops, work, baseline>>
  BY <1>1 DEF Correlate
<1>3. clock \in Nat /\ clock' \in Nat /\ clock <= clock' /\ d \in Hooks
  BY <1>2 DEF HookInv, Hooks
<1>4. /\ tool[d] \in DoneTool /\ q \in [pc : {"correlate"}, work : Fingerprint]
      /\ q.work = tool[d].posted
  <2>1. Runs(d, q) /\ d # "stop"
    BY <1>1, <1>3, ProcessIs
  <2>2. q # NoHook /\ ~PreRun(d, q)
    BY <1>2 DEF NoHook, PreRun
  <2> QED
    BY <1>2, <2>1, <2>2 DEF Runs, PostRun
<1>5. CASE Verified("ledger") /\ Started(d) /\ ~Terminal(d)
  <2>1. PICK n : n = Len(store["ledger"].lines)
    OBVIOUS
  <2>2. PICK then : then = IF tool[d].state = "returned" /\ tool[d].thread = NoThread
                           THEN "bind" ELSE "end"
    OBVIOUS
  <2>3. PICK r : r = [seq |-> n, status |-> IF tool[d].state = "returned" THEN "COMPLETED"
                                            ELSE "FAILED",
                      tool |-> d, role |-> tool[d].role, at |-> clock', work |-> q.work]
    OBVIOUS
  <2>4. PICK p : p = [pc |-> "line", store |-> "ledger", then |-> then, record |-> r]
    OBVIOUS
  <2>5. hook' = [hook EXCEPT ![d] = p]
    BY <1>1, <1>5, <2>1, <2>2, <2>3, <2>4 DEF Correlate, Numbered
  <2>6. n \in Nat
    BY <2>1, LengthIsNat DEF Stores
  <2>7. r \in Completions
    BY <1>3, <1>4, <2>3, <2>6 DEF Completions, DoneTool
  <2>8. CompletionIsTrue(r)'
    <3>1. /\ tool'[r.tool] = tool[d] /\ r.role = tool[d].role /\ r.work = tool[d].posted
          /\ r.at <= clock'
      BY <1>2, <1>3, <1>4, <2>3
    <3>2. tool[d].state = IF r.status = "COMPLETED" THEN "returned" ELSE "failed"
      BY <1>4, <2>3 DEF DoneTool
    <3> QED
      BY <1>4, <2>7, <3>1, <3>2 DEF CompletionIsTrue
  <2>9. Started(d)' /\ ~Terminal(d)'
    BY <1>2, <1>5 DEF Started, Terminal, Records
  <2>10. PostRun(d, p)'
    BY <1>2, <1>4, <2>2, <2>3, <2>4, <2>7, <2>8, <2>9 DEF PostRun
  <2>11. Runs(d, p)'
    BY <2>10 DEF Runs
  <2> QED
    BY <1>2, <1>3, <2>5, <2>11, LocalConcludes
<1>6. CASE ~(Verified("ledger") /\ Started(d) /\ ~Terminal(d))
  <2>1. hook' = [hook EXCEPT ![d] = NoHook]
    BY <1>6 DEF Correlate
  <2>2. Runs(d, NoHook)'
    BY DEF Runs
  <2> QED
    BY <1>2, <1>3, <2>1, <2>2, LocalConcludes
<1> QED
  BY <1>5, <1>6

LEMMA BindThreadStep ==
    ASSUME HookInv, NEW d \in Delegation, BindThread(d)
    PROVE  HookInv'
<1>1. PICK q : q = hook[d]
  OBVIOUS
<1>2. q.pc = "bind" /\ UNCHANGED <<store, tool, stops, work, baseline, clock>>
  BY <1>1 DEF BindThread
<1>3. clock' \in Nat /\ clock <= clock' /\ d \in Hooks
  BY <1>2 DEF HookInv, Hooks
<1>4. tool[d] \in DoneTool /\ tool[d].state = "returned" /\ tool[d].posted # NoFingerprint
  <2>1. Runs(d, q) /\ d # "stop"
    BY <1>1, <1>3, ProcessIs
  <2>2. q # NoHook /\ ~PreRun(d, q)
    BY <1>2 DEF NoHook, PreRun
  <2>3. /\ tool[d] \in DoneTool /\ tool[d].state = "returned"
        /\ q.record \in Completions /\ q.record.tool = d /\ CompletionIsTrue(q.record)
    BY <1>2, <2>1, <2>2 DEF Runs, PostRun
  <2> QED
    BY <2>3, FingerprintsAreTaken DEF CompletionIsTrue, Completions
<1>5. PICK id, role : id = tool[d].id /\ role = tool[d].role
  OBVIOUS
<1>6. CASE Verified("threads")
  <2>1. PICK status : status = BindingOf(id)
    OBVIOUS
  <2>2. status \in {"BOUND", "UNBOUND", "THREAD_BINDING_CONFLICT"}
    BY <2>1 DEF BindingOf
  <2>3. PICK r : r = [seq |-> 0, status |-> status, thread |-> id, role |-> role]
    OBVIOUS
  <2>4. PICK p : p = [pc |-> "verify", store |-> "threads", then |-> "end", record |-> r]
    OBVIOUS
  <2>5. hook' = [hook EXCEPT ![d] = p]
    BY <1>5, <1>6, <2>1, <2>3, <2>4 DEF BindThread, Appending
  <2>6. r \in Bindings /\ Created(id, role)
    BY <1>4, <1>5, <2>2, <2>3 DEF Bindings, DoneTool, Created
  <2>7. BindingIsTrue(r)
    BY <2>3, <2>6 DEF BindingIsTrue
  <2>8. PostRun(d, p)
    BY <1>4, <2>4, <2>6, <2>7 DEF PostRun
  <2>9. Runs(d, p) /\ p.pc # "line"
    BY <2>4, <2>8 DEF Runs
  <2>10. Runs(d, p)'
    BY <1>2, <2>9, RunsSame
  <2> QED
    BY <1>2, <1>3, <2>5, <2>10, LocalConcludes
<1>7. CASE ~Verified("threads")
  <2>1. hook' = [hook EXCEPT ![d] = NoHook]
    BY <1>7 DEF BindThread
  <2>2. Runs(d, NoHook)'
    BY DEF Runs
  <2> QED
    BY <1>2, <1>3, <2>1, <2>2, LocalConcludes
<1> QED
  BY <1>6, <1>7

LEMMA ChangeWorkspaceStep ==
    ASSUME HookInv, ChangeWorkspace
    PROVE  HookInv'
<1>1. PICK p : p = hook["stop"]
  OBVIOUS
<1>2. /\ work < MaxChange /\ work' = work + 1
      /\ UNCHANGED <<store, tool, stops, hook, baseline, clock>>
  BY DEF ChangeWorkspace
<1>3. work \in Fingerprint /\ work' \in Fingerprint /\ work <= work'
  BY <1>2, HooksAssumption DEF HookInv, Fingerprint
<1>4. "stop" \in Hooks /\ hook' = [hook EXCEPT !["stop"] = p] /\ Runs("stop", p)
  <2>1. "stop" \in Hooks
    BY DEF Hooks
  <2>2. hook = [x \in Hooks |-> hook[x]] /\ Runs("stop", p)
    BY <1>1, <2>1, ProcessIs
  <2> QED
    BY <1>1, <1>2, <2>1, <2>2
<1>5. Onward
  BY <1>2 DEF Onward, HookInv
<1>6. ToolInv'
  <2>1. ASSUME NEW d \in Delegation, tool[d] \in DoneTool
        PROVE  tool[d].work <= work'
    <3>1. tool[d].work \in Fingerprint /\ tool[d].work <= work
      BY <2>1 DEF DoneTool, HookInv, ToolInv
    <3> QED
      BY <1>3, <3>1, FingerprintsAreTaken
  <2> QED
    BY <1>2, <2>1 DEF HookInv, ToolInv
<1>7. StopsInv' /\ Runs("stop", p)'
  BY <1>2, <1>4, <1>5, StopsSame, RunsSame
<1> QED
  BY <1>2, <1>3, <1>4, <1>5, <1>6, <1>7, SilentConcludes

-----------------------------------------------------------------------------
(* The stop hook.                                                          *)
Below == {p \in Nat \X Nat : p[1] < p[2]}

LEMMA BelowWellFounded == IsWellFoundedOn(Below, Nat)
  BY NatLessThanWellFounded, Zenon DEF OpToRel, Below

LEMMA Highest ==
    ASSUME NEW T, T # {}, NEW b \in Nat, \A x \in T : x \in Nat /\ x <= b
    PROVE  \E m \in T : \A x \in T : x <= m
<1> DEFINE U == {b - x : x \in T}
<1>1. U \subseteq Nat /\ U # {}
  OBVIOUS
<1>2. PICK k \in U : \A j \in U : ~ <<j, k>> \in Below
  <2> HIDE DEF U
  <2> QED
    BY <1>1, BelowWellFounded, WFMin
<1>3. PICK m \in T : k = b - m
  OBVIOUS
<1>4. ASSUME NEW x \in T
      PROVE  x <= m
  <2>1. b - x \in U /\ b - x \in Nat /\ k \in Nat
    BY <1>1
  <2>2. ~(b - x < k)
    BY <1>2, <2>1 DEF Below
  <2> QED
    BY <1>3, <2>1, <2>2
<1> QED
  BY <1>4

(* Of the completions of a verified chain one is the last.                 *)
LEMMA LastCompletion ==
    ASSUME HookInv, NEW S, S # {}, Verified("ledger"),
           S \subseteq Records("ledger") \cap Completions
    PROVE  \E v \in S : \A o \in S : v.at > o.at \/ (v.at = o.at /\ v.seq >= o.seq)
<1> DEFINE n == Len(Lines("ledger"))
           times == {v.at : v \in S}
<1>1. "ledger" \in Stores /\ n \in Nat /\ clock \in Nat
  BY LengthIsNat DEF Stores, Lines, HookInv
<1>2. ASSUME NEW v \in S
      PROVE  /\ v.at \in Nat /\ v.at <= clock
             /\ v.seq \in Nat /\ v.seq <= n
  <2>1. PICK i \in DOMAIN Lines("ledger") : v = Lines("ledger")[i]
    BY DEF Records, Lines, ToSet
  <2>2. LineIsTrue("ledger", v) /\ v \in Completions
    BY <1>1, <2>1 DEF HookInv, StoreInv
  <2>3. CompletionIsTrue(v)
    BY <2>2 DEF LineIsTrue, StartedIsTrue, StartedRecords, Completions, OtherRecords
  <2>4. v.seq = i - 1 /\ i \in 1 .. n
    <3>1. Lines("ledger") \in Seq(Line)
      BY <1>1 DEF HookInv, StoreInv, Lines
    <3> QED
      BY <2>1, <3>1 DEF Verified, Lines
  <2> QED
    BY <1>1, <2>2, <2>3, <2>4 DEF CompletionIsTrue, Completions
<1>3. PICK t \in times : \A x \in times : x <= t
  <2>1. times # {} /\ \A x \in times : x \in Nat /\ x <= clock
    BY <1>2
  <2> HIDE DEF times
  <2> QED
    BY <1>1, <2>1, Highest
<1> DEFINE numbers == {v.seq : v \in {v \in S : v.at = t}}
<1>4. PICK s \in numbers : \A x \in numbers : x <= s
  <2>1. numbers # {} /\ \A x \in numbers : x \in Nat /\ x <= n
    BY <1>2
  <2> HIDE DEF numbers, n
  <2> QED
    BY <1>1, <2>1, Highest
<1>5. PICK v \in S : v.at = t /\ v.seq = s
  BY <1>4
<1>6. ASSUME NEW o \in S
      PROVE  v.at > o.at \/ (v.at = o.at /\ v.seq >= o.seq)
  <2>1. o.at \in Nat /\ v.at \in Nat /\ o.at <= v.at /\ o.seq \in Nat /\ v.seq \in Nat
    BY <1>2, <1>3, <1>5
  <2>2. o.at = v.at => o.seq <= v.seq
    BY <1>4, <1>5
  <2> QED
    BY <2>1, <2>2
<1> QED
  BY <1>6

(* A completion of the ledger is of a delegation that returned, and of the *)
(* workspace its hook was run in.                                          *)
LEMMA CompletedReturned ==
    ASSUME HookInv, NEW r \in Records("ledger"), r.status = "COMPLETED"
    PROVE  /\ r \in Completions /\ r.tool \in Delegation
           /\ tool[r.tool] \in DoneTool /\ tool[r.tool].state = "returned"
           /\ tool[r.tool].role = r.role /\ tool[r.tool].posted = r.work
<1>1. PICK i \in DOMAIN Lines("ledger") : r = Lines("ledger")[i]
  BY DEF Records, Lines, ToSet
<1>2. LineIsTrue("ledger", r)
  BY <1>1 DEF HookInv, StoreInv, Stores
<1>3. CompletionIsTrue(r)
  BY <1>2 DEF LineIsTrue, StartedIsTrue, StartedRecords, OtherRecords
<1> QED
  BY <1>3 DEF CompletionIsTrue, Completions

LEMMA AllowIsEarned ==
    ASSUME HookInv, NEW w \in Fingerprint, ~Same(w, baseline), NEW records,
           records \subseteq Records("ledger"), records # {} => Verified("ledger"),
           DecideStop(w, records) = "allow"
    PROVE  Earned(w)
<1> DEFINE done(role) == {r \in records : r.status = "COMPLETED" /\ r.role = role}
           later == {v \in done("VERIFIER") : \A i \in done("IMPLEMENTER") : v.at > i.at}
           last == CHOOSE v \in later : \A o \in later :
                       v.at > o.at \/ (v.at = o.at /\ v.seq >= o.seq)
<1>1. "allow" = CASE ~ ~Same(w, baseline) -> "allow"
                  [] ~Same(w, baseline) /\ done("IMPLEMENTER") = {} -> "block"
                  [] ~Same(w, baseline) /\ done("IMPLEMENTER") # {} /\ later = {} -> "block"
                  [] OTHER -> IF Same(last.work, w) THEN "allow" ELSE "block"
  BY DEF DecideStop
<1>2. PICK implementers, verifiers, l :
        implementers = done("IMPLEMENTER") /\ verifiers = later /\ l = last
  OBVIOUS
<1>3. implementers # {} /\ verifiers # {} /\ Same(l.work, w)
  <2> HIDE DEF done, later, last
  <2> QED
    BY <1>1, <1>2
<1>4. verifiers \subseteq Records("ledger") \cap Completions /\ Verified("ledger")
  BY <1>2, <1>3, CompletedReturned
<1>5. \E v \in verifiers : \A o \in verifiers : v.at > o.at \/ (v.at = o.at /\ v.seq >= o.seq)
  BY <1>3, <1>4, LastCompletion
<1>6. l \in verifiers
  BY <1>2, <1>5
<1>7. /\ l \in Records("ledger") /\ l.status = "COMPLETED" /\ l.role = "VERIFIER"
  BY <1>2, <1>6
<1>8. PICK i \in Records("ledger") : i.status = "COMPLETED" /\ i.role = "IMPLEMENTER"
  BY <1>2, <1>3
<1> QED
  BY <1>3, <1>7, <1>8, CompletedReturned DEF Earned

LEMMA StopStep ==
    ASSUME HookInv, Stop
    PROVE  HookInv'
<1>1. PICK p : p = [pc |-> "decide", work |-> work]
  OBVIOUS
<1>2. /\ hook' = [hook EXCEPT !["stop"] = p] /\ "stop" \in Hooks
      /\ UNCHANGED <<store, tool, stops, work, baseline, clock>>
  BY <1>1 DEF Stop, Hooks
<1>3. Runs("stop", p)' /\ clock' \in Nat /\ clock <= clock'
  BY <1>1, <1>2 DEF Runs, StopRun, HookInv
<1> QED
  BY <1>2, <1>3, LocalConcludes

LEMMA DecideStep ==
    ASSUME HookInv, Decide
    PROVE  HookInv'
<1>1. PICK w : w = hook["stop"].work
  OBVIOUS
<1>2. PICK records : records = IF Verified("ledger") THEN Records("ledger") ELSE {}
  OBVIOUS
<1>3. PICK p : p = [pc |-> "verify", store |-> "ledger", then |-> "block", work |-> w,
                    record |-> [seq |-> 0, status |-> "STOP_BLOCKED", tool |-> "stop"]]
  OBVIOUS
<1>4. /\ hook["stop"] # NoHook /\ UNCHANGED <<store, tool, work, baseline, clock>>
      /\ \/ /\ DecideStop(w, records) = "allow" /\ StopEnds("allow", "allow")
            /\ hook' = [hook EXCEPT !["stop"] = NoHook]
         \/ hook' = [hook EXCEPT !["stop"] = p] /\ UNCHANGED stops
  BY <1>1, <1>2, <1>3 DEF Decide, NoHook
<1>5. w \in Fingerprint /\ "stop" \in Hooks
  BY <1>1, <1>4, StopWork DEF Hooks
<1>6. /\ clock' \in Nat /\ clock <= clock' /\ clock \in Nat
      /\ work' \in Fingerprint /\ "stop" \notin Delegation
  BY <1>4, HooksAssumption DEF HookInv
<1>7. CASE /\ DecideStop(w, records) = "allow" /\ StopEnds("allow", "allow")
           /\ hook' = [hook EXCEPT !["stop"] = NoHook]
  <2>1. Onward /\ ToolInv'
    BY <1>4, <1>6, ToolSame
  <2>2. ~Same(w, baseline) => Earned(w)
    BY <1>2, <1>5, <1>7, AllowIsEarned
  <2>3. StopsInv'
    BY <1>1, <1>4, <1>5, <1>7, <2>1, <2>2, StopsMore
  <2>4. Runs("stop", NoHook)'
    BY DEF Runs
  <2> QED
    BY <1>4, <1>5, <1>6, <1>7, <2>1, <2>3, <2>4, SilentConcludes
<1>8. CASE hook' = [hook EXCEPT !["stop"] = p] /\ UNCHANGED stops
  <2>1. Runs("stop", p)'
    <3>1. p.record \in OtherRecords
      BY <1>3, <1>5 DEF OtherRecords
    <3>2. StopRun(p)
      BY <1>3, <1>5, <3>1 DEF StopRun
    <3> QED
      BY <3>2 DEF Runs, StopRun
  <2> QED
    BY <1>4, <1>5, <1>6, <1>8, <2>1, LocalConcludes
<1> QED
  BY <1>4, <1>7, <1>8

LEMMA BlockStep ==
    ASSUME HookInv, Block
    PROVE  HookInv'
<1>1. /\ hook["stop"] # NoHook /\ StopEnds("block", "block")
      /\ hook' = [hook EXCEPT !["stop"] = NoHook] /\ "stop" \in Hooks
      /\ UNCHANGED <<store, tool, work, baseline, clock>>
  BY DEF Block, NoHook, Hooks
<1>2. /\ clock' \in Nat /\ clock <= clock' /\ clock \in Nat /\ work' \in Fingerprint
  BY <1>1 DEF HookInv
<1>3. Onward /\ ToolInv'
  BY <1>1, <1>2, ToolSame
<1>4. StopsInv' /\ Runs("stop", NoHook)'
  BY <1>1, <1>3, StopWork, StopsMore DEF Runs
<1> QED
  BY <1>1, <1>2, <1>3, <1>4, SilentConcludes

LEMMA InitHookInv == HooksInit => HookInv
<1> SUFFICES ASSUME HooksInit
             PROVE  HookInv
  OBVIOUS
<1>1. work \in Fingerprint /\ clock \in Nat
  BY FingerprintsAreTaken DEF HooksInit
<1>2. ToolInv
  BY DEF HooksInit, ToolInv, NewTool, DoneTool
<1>3. StoreInv /\ OrderInv
  <2>1. <<>> \in Seq(Line) /\ DOMAIN <<>> = {}
    OBVIOUS
  <2>2. store \in [Stores -> [lines : Seq(Line), head : Nat]] /\ \A s \in Stores : Lines(s) = <<>>
    BY <2>1 DEF HooksInit, Lines
  <2>3. "ledger" \in Stores
    BY DEF Stores
  <2> QED
    BY <2>1, <2>2, <2>3 DEF StoreInv, OrderInv
<1>4. ProcessInv
  BY DEF HooksInit, ProcessInv, Runs
<1>5. StopsInv
  BY DEF HooksInit, StopsInv
<1> QED
  BY <1>1, <1>2, <1>3, <1>4, <1>5 DEF HookInv

LEMMA HookInvStep == HookInv /\ [Next]_vars => HookInv'
<1> SUFFICES ASSUME HookInv, [Next]_vars
             PROVE  HookInv'
  OBVIOUS
<1>1. CASE HookStep
  <2>1. ASSUME NEW h \in Hooks,
               \/ TakeNumber(h) \/ AppendLine(h) \/ WriteHead(h)
               \/ RefuseAppend(h) \/ HookCrash(h)
        PROVE  HookInv'
    BY <2>1, TakeNumberStep, AppendLineStep, WriteHeadStep, RefuseAppendStep, HookCrashStep
  <2>2. ASSUME NEW d \in Delegation, Deny(d) \/ Return(d) \/ Correlate(d) \/ BindThread(d)
        PROVE  HookInv'
    BY <2>2, DenyStep, ReturnStep, CorrelateStep, BindThreadStep
  <2> QED
    BY <1>1, <2>1, <2>2, DecideStep, BlockStep, ChangeWorkspaceStep DEF HookStep
<1>2. CASE HookBegins
  BY <1>2, StopStep, DenyToolStep, PreToolStep, PostToolStep DEF HookBegins
<1>3. CASE \E d \in Delegation : Unhooked(d)
  BY <1>3, UnhookedStep
<1>4. CASE UNCHANGED hooksVars
  <2>1. "stop" \in Hooks /\ clock' \in Nat /\ clock <= clock'
    BY <1>4 DEF Hooks, HookInv, hooksVars
  <2>2. PICK p : p = hook["stop"]
    OBVIOUS
  <2>3. Runs("stop", p) /\ hook = [x \in Hooks |-> hook[x]]
    BY <2>1, <2>2, ProcessIs
  <2>4. UNCHANGED <<store, tool, stops, baseline, work, clock>> /\ hook' = [hook EXCEPT !["stop"] = p]
    BY <1>4, <2>2, <2>3 DEF hooksVars
  <2>5. Runs("stop", p)'
    BY <2>3, <2>4, RunsSame
  <2> QED
    BY <2>1, <2>4, <2>5, LocalConcludes
<1>5. \/ HookStep \/ HookBegins
      \/ \E d \in Delegation : Unhooked(d)
      \/ UNCHANGED hooksVars
  BY DEF Next, HookEvent, vars
<1> QED
  BY <1>1, <1>2, <1>3, <1>4, <1>5

(* What the hooks know of each other: which process a delegation may have, *)
(* what its record says, and what the lines of the two files say, whether  *)
(* their chains are whole or not.                                          *)
THEOREM HookInvariant == Spec => []HookInv
<1>1. Init => HookInv
  BY InitHookInv DEF Init
<1>2. HookInv /\ [Next]_vars => HookInv'
  BY HookInvStep
<1> QED
  BY <1>1, <1>2, PTL DEF Spec

(* A terminal receipt is true of its delegation and the only one it has,   *)
(* however the hooks of the others interleave with its own, whichever are  *)
(* cut short, and also in a file whose chain they have broken.             *)
THEOREM ReceiptsStayTrue == Spec => []ReceiptsAreTrue
<1>1. HookInv => ReceiptsAreTrue
  <2> SUFFICES ASSUME HookInv, NEW i \in DOMAIN Lines("ledger"),
                      Lines("ledger")[i].status \in {"COMPLETED", "FAILED"}
               PROVE  LET r == Lines("ledger")[i]
                      IN  /\ tool[r.tool].state = IF r.status = "COMPLETED" THEN "returned"
                                                  ELSE "failed"
                          /\ r.work >= tool[r.tool].work
                          /\ \E j \in 1 .. (i - 1) :
                                /\ Lines("ledger")[j].status = "STARTED"
                                /\ Lines("ledger")[j].tool = r.tool
                                /\ Lines("ledger")[j].role = r.role
                          /\ \A j \in 1 .. (i - 1) : Lines("ledger")[j].tool = r.tool =>
                                Lines("ledger")[j].status \notin {"COMPLETED", "FAILED"}
    BY DEF ReceiptsAreTrue, Lines
  <2>1. PICK r : r = Lines("ledger")[i]
    OBVIOUS
  <2>2. \A j \in DOMAIN Lines("ledger") : LineIsTrue("ledger", Lines("ledger")[j])
    BY DEF HookInv, StoreInv, Stores
  <2>3. r \in Completions /\ CompletionIsTrue(r)
    BY <2>1, <2>2 DEF LineIsTrue, StartedIsTrue, CompletionIsTrue, StartedRecords, OtherRecords
  <2>4. r.work >= tool[r.tool].work
    <3>1. r.tool \in Delegation /\ r.work \in Fingerprint
      BY <2>3 DEF Completions
    <3>2. tool[r.tool] \in DoneTool /\ tool[r.tool].posted = r.work
      BY <2>3 DEF CompletionIsTrue
    <3>3. tool[r.tool].work <= r.work /\ tool[r.tool].work \in Fingerprint
      BY <3>1, <3>2, FingerprintsAreTaken DEF HookInv, ToolInv, DoneTool
    <3> QED
      BY <3>1, <3>3, FingerprintsAreTaken
  <2>5. \A j \in 1 .. (i - 1) : j \in DOMAIN Lines("ledger")
    <3>1. Lines("ledger") \in Seq(Line)
      BY DEF HookInv, StoreInv, Stores, Lines
    <3> QED
      BY <3>1
  <2>6. PICK j \in 1 .. (i - 1) : /\ Lines("ledger")[j] \in StartedRecords
                                  /\ Lines("ledger")[j].tool = r.tool
    BY <2>1, <2>3 DEF HookInv, OrderInv
  <2>7. Lines("ledger")[j].status = "STARTED" /\ Lines("ledger")[j].role = r.role
    <3>1. PICK o : o = Lines("ledger")[j]
      OBVIOUS
    <3>2. LineIsTrue("ledger", o) /\ o \in StartedRecords
      BY <2>2, <2>5, <2>6, <3>1
    <3>3. StartedIsTrue(o)
      BY <3>2 DEF LineIsTrue, CompletionIsTrue, StartedRecords, Completions, OtherRecords
    <3> QED
      BY <2>3, <2>6, <3>1, <3>2, <3>3 DEF StartedIsTrue, CompletionIsTrue, StartedRecords
  <2>8. ASSUME NEW k \in 1 .. (i - 1), Lines("ledger")[k].tool = r.tool
        PROVE  Lines("ledger")[k].status \notin {"COMPLETED", "FAILED"}
    <3>1. PICK o : o = Lines("ledger")[k]
      OBVIOUS
    <3>2. LineIsTrue("ledger", o)
      BY <2>2, <2>5, <3>1
    <3>3. o \notin Completions
      BY <2>1, <2>3, <2>8, <3>1 DEF HookInv, OrderInv
    <3> QED
      BY <3>1, <3>2, <3>3 DEF LineIsTrue, StartedIsTrue, CompletionIsTrue, StartedRecords, OtherRecords
  <2> QED
    BY <2>1, <2>3, <2>4, <2>6, <2>7, <2>8 DEF CompletionIsTrue
<1> QED
  BY <1>1, HookInvariant, PTL

(* Every reply that is recorded as started went to a thread a delegation   *)
(* of the same role created and returned with.                             *)
THEOREM RepliesStayInRole == Spec => []RepliesKeepAuthority
<1>1. HookInv => RepliesKeepAuthority
  <2> SUFFICES ASSUME HookInv, NEW r \in Records("ledger"),
                      r.status = "STARTED", r.thread # NoThread
               PROVE  Created(r.thread, r.role)
    BY DEF RepliesKeepAuthority, Created
  <2>1. PICK i \in DOMAIN Lines("ledger") : r = Lines("ledger")[i]
    BY DEF Records, Lines, ToSet
  <2>2. LineIsTrue("ledger", r)
    BY <2>1 DEF HookInv, StoreInv, Stores
  <2>3. StartedIsTrue(r)
    BY <2>2 DEF LineIsTrue, CompletionIsTrue, Completions, OtherRecords
  <2> QED
    BY <2>3 DEF StartedIsTrue
<1> QED
  BY <1>1, HookInvariant, PTL

(* However many delegations, changes, stops and crashes there are: a stop  *)
(* the gate allows on a changed workspace has an implementer that returned *)
(* and a verifier whose hook ran on what the workspace held at the stop.   *)
THEOREM AllowedIsEarned == Spec => []AllowedWasEarned
<1>1. HookInv => AllowedWasEarned
  BY DEF HookInv, StopsInv, AllowedWasEarned, Earned
<1> QED
  BY <1>1, HookInvariant, PTL

-----------------------------------------------------------------------------
(* What it takes to release a stop that should be blocked.                 *)

(* Of the processes that have begun to append to a file there is one.      *)
Recording(s) == {h \in Hooks : hook[h].pc \in {"verify", "line", "head"} /\ hook[h].store = s}
OneRecords == \A s \in Stores : \A g, h \in Recording(s) : g = h

(* A hook that is cut short is not between its line and its anchor.        *)
AnchorsFollow ==
    crashes' # crashes => \A h \in Hooks : hook[h].pc = "head" => hook'[h] = hook[h]

(* The chain of a file is whole, but for an anchor still to be written.    *)
Whole(s) ==
    /\ \A i \in DOMAIN Lines(s) : Lines(s)[i].seq = i - 1
    /\ \/ store[s].head = Len(Lines(s))
       \/ \E h \in Hooks : hook[h].pc = "head" /\ hook[h].store = s

(* A number taken is the next one, and a line written is the last one.     *)
Placed(h) ==
    /\ hook[h].pc = "line" => hook[h].record.seq = Len(Lines(hook[h].store))
    /\ hook[h].pc = "head" => hook[h].record.seq + 1 = Len(Lines(hook[h].store))

ChainInv == /\ \A s \in Stores : Whole(s)
            /\ \A h \in Hooks : Placed(h)
            /\ crashes \in Nat

(* A process that is not about to write its anchor goes elsewhere.         *)
LEMMA ChainElsewhere ==
    ASSUME HookInv, ChainInv, NEW h \in Hooks, NEW p, hook' = [hook EXCEPT ![h] = p],
           store' = store, crashes' \in Nat, hook[h].pc # "head", p.pc # "head",
           p.pc = "line" => p.record.seq = Len(Lines(p.store))
    PROVE  ChainInv'
<1>1. hook'[h] = p /\ \A g \in Hooks \ {h} : hook'[g] = hook[g]
  BY ProcessIs
<1>2. ASSUME NEW s \in Stores
      PROVE  Whole(s)'
  BY <1>1, <1>2 DEF ChainInv, Whole, Lines
<1>3. ASSUME NEW g \in Hooks
      PROVE  Placed(g)'
  BY <1>1, <1>3 DEF ChainInv, Placed, Lines
<1> QED
  BY <1>2, <1>3 DEF ChainInv

(* It ends, where it is not about to write its anchor.                     *)
LEMMA ChainEnds ==
    ASSUME HookInv, ChainInv, NEW h \in Hooks, hook' = [hook EXCEPT ![h] = NoHook],
           store' = store, crashes' \in Nat, hook[h].pc # "head"
    PROVE  ChainInv'
<1>1. PICK p : p = NoHook
  OBVIOUS
<1>2. p.pc = "none" /\ hook' = [hook EXCEPT ![h] = p]
  BY <1>1 DEF NoHook
<1> QED
  BY <1>2, ChainElsewhere

LEMMA ChainSame ==
    ASSUME ChainInv, UNCHANGED <<hook, store, crashes>>
    PROVE  ChainInv'
  BY DEF ChainInv, Whole, Placed, Lines

(* Nobody else is about to append where a process writes.                  *)
LEMMA OnlyRecorder ==
    ASSUME OneRecords, NEW h \in Hooks, hook[h].pc \in {"verify", "line", "head"},
           hook[h].store \in Stores, NEW g \in Hooks, g # h,
           hook[g].pc \in {"verify", "line", "head"}
    PROVE  hook[g].store # hook[h].store
  BY DEF OneRecords, Recording

LEMMA RecorderIs ==
    ASSUME HookInv, NEW h \in Hooks, hook[h].pc \in {"verify", "line", "head"}
    PROVE  /\ hook[h].store \in Stores /\ hook[h].record.seq \in Nat
           /\ h = "stop" => hook[h].store = "ledger"
<1>1. Runs(h, hook[h]) /\ (h \in Delegation <=> h # "stop") /\ hook[h] # NoHook
  BY ProcessIs DEF NoHook
<1>2. CASE h \in Delegation /\ PreRun(h, hook[h])
  BY <1>1, <1>2 DEF PreRun, Stores, StartedRecords, OtherRecords
<1>3. CASE h \in Delegation /\ PostRun(h, hook[h])
  BY <1>1, <1>3 DEF PostRun, Stores, Completions, Bindings
<1>4. CASE h = "stop" /\ StopRun(hook[h])
  BY <1>4 DEF StopRun, Stores, OtherRecords
<1> QED
  BY <1>1, <1>2, <1>3, <1>4 DEF Runs

LEMMA AppendChain ==
    ASSUME HookInv, ChainInv, OneRecords, NEW h \in Hooks, AppendLine(h)
    PROVE  ChainInv'
<1>1. PICK s \in Stores : s = hook[h].store
  BY RecorderIs DEF AppendLine
<1>2. PICK lines : lines = Lines(s)
  OBVIOUS
<1>3. PICK r : r = hook[h].record
  OBVIOUS
<1>4. lines \in Seq(Line) /\ Len(lines) \in Nat /\ store[s] = [lines |-> lines, head |-> store[s].head]
  BY <1>2 DEF HookInv, StoreInv, Lines
<1>5. r.seq = Len(lines) /\ hook[h].pc = "line"
  BY <1>1, <1>2, <1>3 DEF AppendLine, ChainInv, Placed
<1>6. /\ hook'[h].pc = "head" /\ hook'[h].store = s /\ hook'[h].record = r
      /\ \A g \in Hooks \ {h} : hook'[g] = hook[g]
  <2>1. hook = [x \in Hooks |-> hook[x]]
    BY ProcessIs
  <2>2. hook' = [hook EXCEPT ![h].pc = "head"]
    BY DEF AppendLine
  <2>3. hook[h] # NoHook /\ Runs(h, hook[h]) /\ (h \in Delegation <=> h # "stop")
    BY <1>5, ProcessIs DEF NoHook
  <2>4. PICK p : p = [hook[h] EXCEPT !.pc = "head"]
    OBVIOUS
  <2>5. p.pc = "head" /\ p.store = s /\ p.record = r
    <3>1. CASE h \in Delegation /\ PreRun(h, hook[h])
      BY <1>1, <1>3, <1>5, <2>4, <3>1 DEF PreRun
    <3>2. CASE h \in Delegation /\ PostRun(h, hook[h])
      BY <1>1, <1>3, <1>5, <2>4, <3>2 DEF PostRun
    <3>3. CASE h = "stop" /\ StopRun(hook[h])
      BY <1>1, <1>3, <1>5, <2>4, <3>3 DEF StopRun
    <3> QED
      BY <2>3, <3>1, <3>2, <3>3 DEF Runs
  <2> QED
    BY <2>1, <2>2, <2>4, <2>5
<1>7. PICK more : more = Append(lines, r)
  OBVIOUS
<1>8. /\ Len(more) = Len(lines) + 1 /\ DOMAIN more = 1 .. Len(lines) + 1
      /\ more[Len(lines) + 1] = r /\ \A i \in 1 .. Len(lines) : more[i] = lines[i]
      /\ DOMAIN lines = 1 .. Len(lines)
  <2>1. lines \in Seq(Line \cup {r})
    BY <1>4
  <2> QED
    BY <1>4, <1>7, <2>1
<1>9. Lines(s)' = more /\ \A t \in Stores \ {s} : store'[t] = store[t]
  BY <1>1, <1>2, <1>3, <1>4, <1>7 DEF AppendLine, HookInv, StoreInv, Lines
<1>10. ASSUME NEW t \in Stores
       PROVE  Whole(t)'
  <2>1. CASE t = s
    <3>1. \A i \in DOMAIN lines : lines[i].seq = i - 1
      BY <1>2 DEF ChainInv, Whole
    <3>2. \A i \in DOMAIN more : more[i].seq = i - 1
      BY <1>4, <1>5, <1>8, <3>1
    <3>3. \A i \in DOMAIN Lines(s)' : Lines(s)'[i].seq = i - 1
      BY <1>9, <3>2
    <3> QED
      BY <1>6, <2>1, <3>3 DEF Whole
  <2>2. CASE t # s
    BY <1>1, <1>5, <1>6, <1>9, <2>2 DEF ChainInv, Whole, Lines
  <2> QED
    BY <2>1, <2>2
<1>11. ASSUME NEW g \in Hooks
       PROVE  Placed(g)'
  <2>1. CASE g = h
    BY <1>4, <1>5, <1>6, <1>8, <1>9, <2>1 DEF Placed, Lines
  <2>2. CASE g # h
    <3>1. hook[g].pc \in {"line", "head"} => hook[g].store \in Stores \ {s}
      BY <1>1, <1>5, <2>2, OnlyRecorder, RecorderIs
    <3> QED
      BY <1>6, <1>9, <2>2, <3>1 DEF ChainInv, Placed, Lines
  <2> QED
    BY <2>1, <2>2
<1> QED
  BY <1>10, <1>11 DEF ChainInv, AppendLine

LEMMA AnchorChain ==
    ASSUME HookInv, ChainInv, NEW h \in Hooks, WriteHead(h)
    PROVE  ChainInv'
<1>1. PICK s \in Stores : s = hook[h].store
  BY RecorderIs DEF WriteHead
<1>2. hook[h].pc = "head" /\ hook[h].record.seq + 1 = Len(Lines(s)) /\ hook[h].then # "line"
      /\ hook[h].then # "head"
  <2>1. hook[h].pc = "head" /\ hook[h].record.seq + 1 = Len(Lines(s))
    BY <1>1 DEF WriteHead, ChainInv, Placed
  <2>2. hook[h] # NoHook /\ Runs(h, hook[h]) /\ (h \in Delegation <=> h # "stop")
    BY <2>1, ProcessIs DEF NoHook
  <2>3. hook[h].then \in {"allow", "deny", "bind", "end", "block"}
    BY <2>1, <2>2 DEF Runs, PreRun, PostRun, StopRun
  <2> QED
    BY <2>1, <2>3
<1>3. store[s] = [lines |-> Lines(s), head |-> store[s].head]
  BY DEF HookInv, StoreInv, Lines
<1>4. /\ store'[s].head = Len(Lines(s)) /\ \A t \in Stores : Lines(t)' = Lines(t)
      /\ \A t \in Stores \ {s} : store'[t] = store[t]
  BY <1>1, <1>2, <1>3 DEF WriteHead, HookInv, StoreInv, Lines
<1>5. /\ hook'[h].pc \notin {"line", "head"}
      /\ \A g \in Hooks \ {h} : hook'[g] = hook[g]
  <2>1. hook = [x \in Hooks |-> hook[x]] /\ hook[h] # NoHook /\ Runs(h, hook[h])
        /\ (h \in Delegation <=> h # "stop")
    BY <1>2, ProcessIs DEF NoHook
  <2>2. PICK p : p = [hook[h] EXCEPT !.pc = hook[h].then]
    OBVIOUS
  <2>3. p.pc = hook[h].then
    BY <1>2, <2>1, <2>2 DEF Runs, PreRun, PostRun, StopRun
  <2>4. hook' = [hook EXCEPT ![h] = IF hook[h].then \in {"allow", "end"} THEN NoHook ELSE p]
    BY <2>1, <2>2 DEF WriteHead
  <2> QED
    BY <1>2, <2>1, <2>3, <2>4 DEF NoHook
<1>6. ASSUME NEW t \in Stores
      PROVE  Whole(t)'
  <2>1. \A i \in DOMAIN Lines(t)' : Lines(t)'[i].seq = i - 1
    BY <1>4 DEF ChainInv, Whole
  <2>2. t = s => store'[t].head = Len(Lines(t)')
    BY <1>4
  <2>3. t # s => \/ store'[t].head = Len(Lines(t)')
                 \/ \E g \in Hooks : hook'[g].pc = "head" /\ hook'[g].store = t
    BY <1>1, <1>4, <1>5 DEF ChainInv, Whole
  <2> QED
    BY <2>1, <2>2, <2>3 DEF Whole
<1>7. ASSUME NEW g \in Hooks
      PROVE  Placed(g)'
  <2>1. CASE g = h
    BY <1>5, <2>1 DEF Placed
  <2>2. CASE g # h
    <3>1. hook[g].pc \in {"line", "head"} => hook[g].store \in Stores
      BY RecorderIs
    <3> QED
      BY <1>4, <1>5, <2>2, <3>1 DEF ChainInv, Placed
  <2> QED
    BY <2>1, <2>2
<1> QED
  BY <1>6, <1>7 DEF ChainInv, WriteHead

LEMMA OtherHookChain ==
    ASSUME HookInv, ChainInv, AnchorsFollow, NEW h \in Hooks,
           TakeNumber(h) \/ RefuseAppend(h) \/ HookCrash(h)
    PROVE  ChainInv'
<1>1. hook = [x \in Hooks |-> hook[x]]
  BY ProcessIs
<1>2. CASE TakeNumber(h)
  <2>1. PICK q : q = hook[h]
    OBVIOUS
  <2>2. PICK r : r = [q.record EXCEPT !.seq = Len(store[q.store].lines)]
    OBVIOUS
  <2>3. PICK p : p = [q EXCEPT !.pc = "line", !.record = r]
    OBVIOUS
  <2>4. q.pc = "verify" /\ hook' = [hook EXCEPT ![h] = p] /\ store' = store
    BY <1>1, <1>2, <2>1, <2>2, <2>3 DEF TakeNumber
  <2>5. Runs(h, q) /\ (h \in Delegation <=> h # "stop") /\ q # NoHook
    BY <2>1, <2>4, ProcessIs DEF NoHook
  <2>6. p.pc = "line" /\ p.store = q.store /\ p.record = r
    BY <2>3, <2>4, <2>5 DEF Runs, PreRun, PostRun, StopRun
  <2>7. q.record \in OtherRecords \cup Bindings
    BY <2>4, <2>5 DEF Runs, PreRun, PostRun, StopRun
  <2>8. r.seq = Len(Lines(q.store))
    BY <2>2, <2>7 DEF Lines, OtherRecords, Bindings
  <2> QED
    BY <1>2, <2>1, <2>4, <2>6, <2>8, ChainElsewhere DEF TakeNumber, ChainInv
<1>3. CASE RefuseAppend(h)
  BY <1>3, ChainEnds DEF RefuseAppend, ChainInv
<1>4. CASE HookCrash(h)
  <2>1. hook' = [hook EXCEPT ![h] = NoHook] /\ store' = store /\ crashes' = crashes + 1
    BY <1>4 DEF HookCrash
  <2>2. crashes' # crashes /\ crashes' \in Nat
    BY <2>1 DEF ChainInv
  <2>3. hook'[h] = NoHook
    BY <1>1, <2>1
  <2>4. hook[h].pc # "head"
    BY <2>2, <2>3 DEF AnchorsFollow, NoHook
  <2> QED
    BY <2>1, <2>2, <2>4, ChainEnds
<1> QED
  BY <1>2, <1>3, <1>4

(* The events, and what a process does between them.                       *)
LEMMA EventChain ==
    ASSUME HookInv, ChainInv, NEW d \in Delegation,
           \/ PreTool(d) \/ PostTool(d) \/ Deny(d) \/ Correlate(d) \/ BindThread(d)
    PROVE  ChainInv'
<1>1. d \in Hooks /\ Runs(d, hook[d]) /\ d # "stop"
  BY ProcessIs DEF Hooks
<1> crashes' \in Nat
  BY DEF ChainInv, PreTool, PostTool, Deny, Correlate, BindThread
<1>2. CASE PreTool(d)
  <2>1. hook[d].pc = "none"
    BY <1>2, NoHookNow DEF PreTool, NoHook
  <2>2. PICK role, thread : \/ hook' = [hook EXCEPT ![d] = Numbered("ledger", InvalidRecord(d), "deny")]
                            \/ hook' = [hook EXCEPT ![d] =
                                  Numbered("ledger", StartedRecord(d, role, thread), "allow")]
    BY <1>2, Zenon DEF PreTool
  <2>3. PICK p : /\ \/ p = Numbered("ledger", InvalidRecord(d), "deny")
                    \/ p = Numbered("ledger", StartedRecord(d, role, thread), "allow")
                 /\ hook' = [hook EXCEPT ![d] = p]
    BY <2>2
  <2>4. p.pc = "line" /\ p.record.seq = Len(Lines(p.store))
    BY <2>3 DEF Numbered, InvalidRecord, StartedRecord, Lines
  <2>5. store' = store
    BY <1>2 DEF PreTool
  <2> QED
    BY <1>1, <2>1, <2>3, <2>4, <2>5, ChainElsewhere
<1>3. CASE PostTool(d)
  <2>1. PICK p : /\ p = NoHook \/ p = [pc |-> "correlate", work |-> work]
                 /\ hook' = [hook EXCEPT ![d] = p] /\ store' = store
    BY <1>3 DEF PostTool
  <2>2. hook[d].pc # "head"
    <3>1. tool[d].state \in {"returned", "failed"} /\ tool[d].posted = NoFingerprint
      BY <1>3 DEF PostTool
    <3>2. ~PreRun(d, hook[d])
      BY <3>1 DEF PreRun
    <3>3. ASSUME PostRun(d, hook[d])
          PROVE  hook[d].pc # "head"
      <4>1. SUFFICES ASSUME hook[d].record \in Completions, hook[d].record.tool = d,
                            CompletionIsTrue(hook[d].record)
                     PROVE  FALSE
        BY <3>1, <3>3 DEF PostRun
      <4>2. tool[d].posted \in Fingerprint
        BY <4>1 DEF CompletionIsTrue, Completions
      <4> QED
        BY <3>1, <4>2, FingerprintsAreTaken
    <3> QED
      BY <1>1, <3>2, <3>3 DEF Runs, NoHook
  <2>3. p.pc \notin {"line", "head"}
    BY <2>1 DEF NoHook
  <2> QED
    BY <1>1, <2>1, <2>2, <2>3, ChainElsewhere
<1>4. CASE Deny(d)
  BY <1>1, <1>4, ChainEnds DEF Deny
<1>5. CASE Correlate(d)
  <2>1. CASE hook' = [hook EXCEPT ![d] = NoHook]
    BY <1>1, <1>5, <2>1, ChainEnds DEF Correlate
  <2>2. CASE hook' # [hook EXCEPT ![d] = NoHook]
    <3>1. PICK then, r, p :
            /\ r = [seq |-> 0,
                    status |-> IF tool[d].state = "returned" THEN "COMPLETED" ELSE "FAILED",
                    tool |-> d, role |-> tool[d].role, at |-> clock', work |-> hook[d].work]
            /\ p = Numbered("ledger", r, then)
            /\ hook' = [hook EXCEPT ![d] = p]
      BY <1>1, <1>5, <2>2, ProcessIs DEF Correlate
    <3>2. p.pc = "line" /\ p.record.seq = Len(Lines(p.store))
      BY <3>1 DEF Numbered, Lines
    <3> QED
      BY <1>1, <1>5, <3>1, <3>2, ChainElsewhere DEF Correlate
  <2> QED
    BY <2>1, <2>2
<1>6. CASE BindThread(d)
  <2>1. PICK r, p : /\ p = Appending("threads", r, "end") \/ p = NoHook
                    /\ hook' = [hook EXCEPT ![d] = p]
    BY <1>6 DEF BindThread
  <2>2. p.pc \notin {"line", "head"}
    BY <2>1 DEF Appending, NoHook
  <2> QED
    BY <1>1, <1>6, <2>1, <2>2, ChainElsewhere DEF BindThread
<1> QED
  BY <1>2, <1>3, <1>4, <1>5, <1>6

LEMMA StopChain ==
    ASSUME HookInv, ChainInv, Stop \/ Decide \/ Block
    PROVE  ChainInv'
<1>1. "stop" \in Hooks /\ crashes' \in Nat
  BY DEF Hooks, ChainInv, Stop, Decide, Block
<1>2. CASE Stop
  <2>1. PICK p : p = [pc |-> "decide", work |-> work]
    OBVIOUS
  <2>2. p.pc = "decide" /\ hook["stop"].pc = "none"
    BY <1>2, <2>1 DEF Stop, NoHook
  <2> QED
    BY <1>1, <1>2, <2>1, <2>2, ChainElsewhere DEF Stop
<1>3. CASE Decide
  <2>1. CASE hook' = [hook EXCEPT !["stop"] = NoHook]
    BY <1>1, <1>3, <2>1, ChainEnds DEF Decide
  <2>2. CASE hook' # [hook EXCEPT !["stop"] = NoHook]
    <3>1. PICK p : p = [pc |-> "verify", store |-> "ledger", then |-> "block",
                        work |-> hook["stop"].work,
                        record |-> [seq |-> 0, status |-> "STOP_BLOCKED", tool |-> "stop"]]
      OBVIOUS
    <3>2. hook = [x \in Hooks |-> hook[x]]
      BY <1>1, ProcessIs
    <3>3. hook' = [hook EXCEPT !["stop"] = p] /\ p.pc = "verify"
      BY <1>1, <1>3, <2>2, <3>1, <3>2 DEF Decide
    <3> QED
      BY <1>1, <1>3, <3>3, ChainElsewhere DEF Decide
  <2> QED
    BY <2>1, <2>2
<1>4. CASE Block
  BY <1>1, <1>4, ChainEnds DEF Block
<1> QED
  BY <1>2, <1>3, <1>4

(* A stop that is recorded finds the chain whole, and is answered.         *)
LEMMA StopIsAnswered ==
    ASSUME HookInv, ChainInv, OneRecords, [Next]_vars, StopNeverSelfReleases
    PROVE  StopNeverSelfReleases'
<1>1. stops \in Seq(Answer)
  BY DEF HookInv, StopsInv
<1>2. ASSUME NEW gate, NEW answer, StopEnds(gate, answer), gate = "block" => answer = "block"
      PROVE  StopNeverSelfReleases'
  <2>1. PICK n : n = [gate |-> gate, answer |-> answer, work |-> hook["stop"].work]
    OBVIOUS
  <2>2. stops \in Seq(Answer \cup {n}) /\ stops' = Append(stops, n)
    BY <1>1, <1>2, <2>1 DEF StopEnds
  <2>3. \A i \in DOMAIN stops' : stops'[i] = n \/ (i \in DOMAIN stops /\ stops'[i] = stops[i])
    BY <2>2
  <2> QED
    BY <1>2, <2>1, <2>3 DEF StopNeverSelfReleases
<1>3. ASSUME RefuseAppend("stop")
      PROVE  FALSE
  <2>1. hook["stop"].pc = "verify" /\ "stop" \in Hooks
    BY <1>3 DEF RefuseAppend, Hooks
  <2>2. hook["stop"].store = "ledger" /\ ~Verified("ledger") /\ "ledger" \in Stores
    BY <1>3, <2>1, RecorderIs DEF RefuseAppend
  <2>3. PICK h \in Hooks : hook[h].pc = "head" /\ hook[h].store = "ledger"
    BY <2>2 DEF Verified, ChainInv, Whole, Lines
  <2> QED
    BY <2>1, <2>2, <2>3, OnlyRecorder
<1>4. ASSUME NEW h \in Hooks, RefuseAppend(h) \/ HookCrash(h)
      PROVE  StopNeverSelfReleases'
  <2>1. CASE RefuseAppend(h)
    BY <1>3, <2>1 DEF RefuseAppend, StopNeverSelfReleases
  <2>2. CASE HookCrash(h)
    BY <1>2, <2>2 DEF HookCrash, StopNeverSelfReleases
  <2> QED
    BY <1>4, <2>1, <2>2
<1>5. CASE Decide
  BY <1>2, <1>5 DEF Decide, StopNeverSelfReleases
<1>6. CASE Block
  BY <1>2, <1>6 DEF Block
<1>7. CASE UNCHANGED stops
  BY <1>7 DEF StopNeverSelfReleases
<1> QED
  BY <1>4, <1>5, <1>6, <1>7
  DEF Next, HookStep, HookEvent, HookBegins, Unhooked, TakeNumber, AppendLine, WriteHead, Deny, Return,
      Correlate, BindThread, ChangeWorkspace, Stop, DenyTool, PreTool, PostTool, vars, hooksVars

LEMMA ChainNext ==
    ASSUME HookInv, ChainInv, OneRecords, [Next]_vars, [AnchorsFollow]_vars
    PROVE  ChainInv'
<1>1. CASE UNCHANGED <<hook, store, crashes>>
  BY <1>1, ChainSame
<1>2. ASSUME AnchorsFollow, HookStep \/ HookBegins, ~UNCHANGED <<hook, store, crashes>>
      PROVE  ChainInv'
  BY <1>2, AppendChain, AnchorChain, OtherHookChain, EventChain, StopChain
  DEF HookStep, HookBegins, Return, ChangeWorkspace, DenyTool
<1>3. \/ UNCHANGED <<hook, store, crashes>>
      \/ AnchorsFollow /\ (HookStep \/ HookBegins)
  BY DEF Next, HookEvent, Unhooked, vars, hooksVars
<1> QED
  BY <1>1, <1>2, <1>3

(* A stop hook that is not cut short, and whose gate says block, blocks,   *)
(* if the appends to a file come one at a time and no hook is cut short    *)
(* between its line and its anchor.  So "Stop never self-releases" fails   *)
(* by an overlap or by a chain that was broken, and by nothing else.       *)
THEOREM StopsHoldInTurn ==
    Spec /\ []OneRecords /\ [][AnchorsFollow]_vars => []StopNeverSelfReleases
<1>1. Init => ChainInv /\ StopNeverSelfReleases
  <2> SUFFICES ASSUME HooksInit
               PROVE  ChainInv /\ StopNeverSelfReleases
    BY DEF Init
  <2>1. \A s \in Stores : Lines(s) = <<>> /\ store[s].head = 0
    BY DEF HooksInit, Lines
  <2>2. \A h \in Hooks : hook[h].pc = "none"
    BY DEF HooksInit, NoHook
  <2> QED
    BY <2>1, <2>2 DEF HooksInit, ChainInv, Whole, Placed, StopNeverSelfReleases
<1>2. /\ HookInv /\ ChainInv /\ StopNeverSelfReleases /\ OneRecords
      /\ [Next]_vars /\ [AnchorsFollow]_vars
      => ChainInv' /\ StopNeverSelfReleases'
  BY ChainNext, StopIsAnswered
<1> QED
  BY <1>1, <1>2, HookInvariant, PTL DEF Spec
=============================================================================
