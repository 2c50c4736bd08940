--------------------------- MODULE FirewallInstall ---------------------------
(***************************************************************************)
(* The installer of the orchestrator firewall                              *)
(* (install/mihver-firewall-install.mjs) and the check the generated       *)
(* loader makes before it imports the engine (install/loader-template.mjs, *)
(* install/manifest.mjs).                                                  *)
(*                                                                         *)
(* The installer is one process of many file operations: the engine files  *)
(* are copied to a staging directory one by one while the sources may      *)
(* change, the staged bytes give the release its address, the engine, the  *)
(* loader and the manifest of that address are put in place one by one,    *)
(* and only then is the address registered in settings.json, by comparing  *)
(* its bytes with those read at the start and renaming over it.  It may    *)
(* end between any two of these.  Other programs edit settings.json at any *)
(* time.                                                                   *)
(*                                                                         *)
(* A file's bytes are a version number and a digest is the bytes.  The     *)
(* address stands for the 12 hex digits over staged files and rendered     *)
(* loader; the loader's only varying bytes are the source commit.          *)
(***************************************************************************)
EXTENDS Naturals

CONSTANTS EngineFiles,  \* the files of the engine
          MaxVersion,   \* bound: versions of the sources, the commit, the settings
          NoFile        \* what stands for a file that is not there

VARIABLES source,    \* the repository: the engine sources and the commit
          disk,      \* by address: the engine files, the loader, the manifest
          settings,  \* settings.json: the releases its hooks name, and the rest
          backups,   \* the releases registered by the saved settings
          run        \* the installer process: where it is and what it holds

installVars == <<source, disk, settings, backups, run>>

Versions == 1..MaxVersion
Address == [files : [EngineFiles -> Versions], commit : Versions]
Manifest == [engine : [EngineFiles -> Versions \cup {NoFile}],
             loader : Versions \cup {NoFile}, commit : Versions]

ASSUME InstallAssumption == /\ MaxVersion \in Nat \ {0}
                            /\ NoFile \notin Versions /\ NoFile \notin Manifest

Idle == [pc |-> "idle"]
Missing == [engine |-> [f \in EngineFiles |-> NoFile], loader |-> NoFile,
            manifest |-> NoFile]
FirstSource == [files |-> [f \in EngineFiles |-> 1], commit |-> 1]

InstallInit ==
    /\ source = FirstSource
    /\ disk = [a \in Address |-> Missing]
    /\ settings = [owned |-> {}, other |-> 1]
    /\ backups = {}
    /\ run = Idle

-----------------------------------------------------------------------------
(* buildManifest: the digests of the engine and of the executable where    *)
(* they now are, and the commit they were installed from.                  *)
ManifestOf(a) == [engine |-> disk[a].engine, loader |-> disk[a].loader,
                  commit |-> a.commit]

(* verifyManifest: what is recorded is exactly what is there.              *)
Recorded(here) == /\ here.manifest.loader = here.loader
                  /\ here.manifest.engine = here.engine

(* What the loader of release a finds when the host calls it: a manifest   *)
(* bound to its own source commit that records the release as it is.       *)
Verifies(a) ==
    LET here == disk[a]
    IN  /\ here.loader # NoFile
        /\ here.manifest # NoFile
        /\ here.manifest.commit = here.loader
        /\ Recorded(here)

(* The hooks of the result: the owned entries are replaced by one for the  *)
(* new release, in the settings as they were read; the rest is kept.       *)
Merged(base, a) == [base EXCEPT !.owned = {a}]
WithoutOwned(base) == [base EXCEPT !.owned = {}]

-----------------------------------------------------------------------------
(* prepare: the list of source files and the settings, read before any write. *)
Prepare ==
    /\ run.pc = "idle"
    /\ run' = [pc |-> "stage", base |-> settings,
               staged |-> [f \in EngineFiles |-> NoFile]]
    /\ UNCHANGED <<source, disk, settings, backups>>

StageFile(f) ==
    /\ run.pc = "stage"
    /\ run.staged[f] = NoFile
    /\ run' = [run EXCEPT !.staged[f] = source.files[f]]
    /\ UNCHANGED <<source, disk, settings, backups>>

(* Seeded fault: the address is computed from the repository, not from the *)
(* staged copies.                                                          *)
AddressSource ==
    /\ run.pc = "stage"
    /\ \A f \in EngineFiles : run.staged[f] # NoFile
    /\ run' = [pc |-> "backup", base |-> run.base, staged |-> run.staged,
               addr |-> source]
    /\ UNCHANGED <<source, disk, settings, backups>>

(* buildRelease over the staged digests and the commit as it is now: the   *)
(* layout of the release, the loader and the settings that register it.    *)
AddressRelease ==
    /\ run.pc = "stage"
    /\ \A f \in EngineFiles : run.staged[f] # NoFile
    /\ run' = [pc |-> "backup", base |-> run.base, staged |-> run.staged,
               addr |-> [files |-> run.staged, commit |-> source.commit]]
    /\ UNCHANGED <<source, disk, settings, backups>>

(* The settings as they were read, saved under backups/ and never pruned.  *)
BackupSettings ==
    /\ run.pc = "backup"
    /\ backups' = backups \cup {run.base.owned}
    /\ run' = [run EXCEPT !.pc = "engine"]
    /\ UNCHANGED <<source, disk, settings>>

(* Each staged file is renamed over what the release directory holds.      *)
PublishFile(f) ==
    /\ run.pc = "engine"
    /\ run.staged[f] # NoFile
    /\ disk' = [disk EXCEPT ![run.addr].engine[f] = run.staged[f]]
    /\ run' = [run EXCEPT !.staged[f] = NoFile]
    /\ UNCHANGED <<source, settings, backups>>

PublishLoader ==
    /\ run.pc = "engine"
    /\ \A f \in EngineFiles : run.staged[f] = NoFile
    /\ disk' = [disk EXCEPT ![run.addr].loader = run.addr.commit]
    /\ run' = [run EXCEPT !.pc = "manifest"]
    /\ UNCHANGED <<source, settings, backups>>

(* The manifest records the digests of the files where they now are, and   *)
(* replaces what was there in one rename, before any hook names it.        *)
PublishManifest ==
    /\ run.pc = "manifest"
    /\ disk' = [disk EXCEPT ![run.addr].manifest = ManifestOf(run.addr)]
    /\ run' = [run EXCEPT !.pc = "compare"]
    /\ UNCHANGED <<source, settings, backups>>

(* atomicWrite with the bytes it expects: another program's edit since     *)
(* prepare makes it throw.                                                 *)
CompareSettings ==
    /\ run.pc = "compare"
    /\ run' = IF settings = run.base THEN [run EXCEPT !.pc = "rename"] ELSE Idle
    /\ UNCHANGED <<source, disk, settings, backups>>

(* The rename, which nothing ties to the comparison before it.             *)
RenameSettings ==
    /\ run.pc = "rename"
    /\ settings' = Merged(run.base, run.addr)
    /\ run' = Idle
    /\ UNCHANGED <<source, disk, backups>>

Install ==
    \/ Prepare
    \/ \E f \in EngineFiles : StageFile(f) \/ PublishFile(f)
    \/ AddressRelease
    \/ BackupSettings
    \/ PublishLoader
    \/ PublishManifest
    \/ CompareSettings
    \/ RenameSettings

(* uninstall: nothing to do when no entry is owned; the releases stay.     *)
BeginUninstall ==
    /\ run.pc = "idle"
    /\ settings.owned # {}
    /\ run' = [pc |-> "save", base |-> settings]
    /\ UNCHANGED <<source, disk, settings, backups>>

BackupRemoved ==
    /\ run.pc = "save"
    /\ backups' = backups \cup {run.base.owned}
    /\ run' = [run EXCEPT !.pc = "remove"]
    /\ UNCHANGED <<source, disk, settings>>

(* atomicWrite without expected bytes: what was read is written back.      *)
RemoveHooks ==
    /\ run.pc = "remove"
    /\ settings' = WithoutOwned(run.base)
    /\ run' = Idle
    /\ UNCHANGED <<source, disk, backups>>

InstallerCrash ==
    /\ run.pc # "idle"
    /\ run' = Idle
    /\ UNCHANGED <<source, disk, settings, backups>>

EditSource ==
    /\ \/ \E f \in EngineFiles, v \in Versions :
             source' = [source EXCEPT !.files[f] = v]
       \/ \E c \in Versions : source' = [source EXCEPT !.commit = c]
    /\ UNCHANGED <<disk, settings, backups, run>>

(* Another program edits a setting that is not a hook of the firewall.     *)
EditSettings ==
    /\ settings.other < MaxVersion
    /\ settings' = [settings EXCEPT !.other = @ + 1]
    /\ UNCHANGED <<source, disk, backups, run>>

(* A person puts a saved settings.json back.                               *)
RollBack ==
    /\ \E owned \in backups : settings' = [settings EXCEPT !.owned = owned]
    /\ UNCHANGED <<source, disk, backups, run>>

InstallNext == Install \/ BeginUninstall \/ BackupRemoved \/ RemoveHooks
               \/ InstallerCrash \/ EditSource \/ EditSettings \/ RollBack

-----------------------------------------------------------------------------
(* Whatever settings.json registers, at any time and after any crash, is a *)
(* release whose loader verifies: no cutover window in which a hook names  *)
(* an executable without its manifest or with an engine half replaced.     *)
InstalledIsEnforceable == \A a \in settings.owned : Verifies(a)

=============================================================================
