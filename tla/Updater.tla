------------------------------ MODULE Updater -------------------------------
(***************************************************************************)
(* The silent updater (core/updater.rs).                                   *)
(*                                                                         *)
(* Once a day a newer release is downloaded and kept in two files, the     *)
(* installer and then a record of its version; the next start asks the     *)
(* user and installs it.  The program may end or crash between any two     *)
(* steps, a file may be left half written, and releases go on meanwhile.   *)
(*                                                                         *)
(* A version is a number, 0 for none.  The signature is checked by the     *)
(* download, and not by the installation.                                  *)
(***************************************************************************)
EXTENDS Naturals

CONSTANT MaxVersion   \* bound: releases

VARIABLES
  released,           \* the newest release on the server
  program,           \* the version installed
  current_version,   \* the one this process is
  bin, meta,         \* pending_update.bin and pending_update.json
  upPc,
  fetched,           \* the version that is being downloaded
  cached_version, bytes, \* what the start read of the two files
  update_ready,
  lateInstall,       \* an installation that took more than its 30 seconds
  rewritten          \* history: the bin is of a download begun while the record
                     \* of an earlier one of the same version was there

updaterVars == <<released, program, current_version, bin, meta, upPc, fetched,
                 cached_version, bytes, update_ready, lateInstall, rewritten>>
processVars == <<current_version, fetched, cached_version, bytes, update_ready>>
cacheVars == <<bin, meta, rewritten>>
worldVars == <<released, program, lateInstall>>

Bin(version, whole) == [version |-> version, whole |-> whole]
NoBin == Bin(0, FALSE)

UpdaterInit ==
  /\ released = 1 /\ program = 1 /\ current_version = 1
  /\ bin = NoBin /\ meta = 0
  /\ upPc = "off" /\ fetched = 0 /\ cached_version = 0 /\ bytes = NoBin
  /\ update_ready = FALSE /\ lateInstall = 0 /\ rewritten = FALSE

UpAt(label) == upPc = label
UpTo(label) == upPc' = label

-----------------------------------------------------------------------------
(* The rest of the world.                                                  *)

Release ==
  /\ released < MaxVersion /\ released' = released + 1
  /\ UNCHANGED <<program, lateInstall, processVars, cacheVars, upPc>>

\* The user installs a release by hand.
InstallByHand ==
  /\ UpAt("off") /\ program < released
  /\ program' \in (program + 1)..released
  /\ UNCHANGED <<released, lateInstall, processVars, cacheVars, upPc>>

\* The program ends, or crashes: files stay as they are.
Ends ==
  /\ ~UpAt("off") /\ UpTo("off")
  /\ update_ready' = FALSE /\ lateInstall' = 0
  /\ UNCHANGED <<released, program, current_version, fetched, cached_version,
                 bytes, cacheVars>>

Starts ==
  /\ UpAt("off") /\ UpTo("look")
  /\ current_version' = program
  /\ UNCHANGED <<worldVars, cacheVars, fetched, cached_version, bytes,
                 update_ready>>

-----------------------------------------------------------------------------
(* try_install_on_startup                                                  *)

\* remove_dir_all; where it fails one of the two files may be left.
DeleteCache ==
  /\ bin' \in {NoBin, bin} /\ meta' \in {0, meta}
  /\ UNCHANGED rewritten

\* There is no record, or one that cannot be read.
NoCache ==
  /\ UpAt("look") /\ meta = 0 /\ UpTo("background")
  /\ UNCHANGED <<worldVars, cacheVars, processVars>>

CacheIsOld ==
  /\ UpAt("look") /\ meta # 0 /\ meta <= current_version /\ UpTo("background")
  /\ DeleteCache
  /\ UNCHANGED <<worldVars, processVars>>

AskUserToInstall ==
  /\ UpAt("look") /\ meta > current_version
  /\ cached_version' = meta
  /\ \E install \in BOOLEAN : UpTo(IF install THEN "read" ELSE "background")
  /\ UNCHANGED <<worldVars, cacheVars, current_version, fetched, bytes,
                 update_ready>>

ReadCacheBytes ==
  /\ UpAt("read") /\ bin # NoBin /\ UpTo("check")
  /\ bytes' = bin
  /\ UNCHANGED <<worldVars, cacheVars, current_version, fetched, cached_version,
                 update_ready>>

BytesUnreadable ==
  /\ UpAt("read") /\ UpTo("background")
  /\ DeleteCache
  /\ UNCHANGED <<worldVars, processVars>>

\* Mutant of ServerAgrees: any release that is newer will do.
ServerHasNewer == released > current_version

\* "If server now has a newer version, our cached bytes are stale."
ServerAgrees == released = cached_version

CheckServer ==
  /\ UpAt("check")
  /\ IF ServerAgrees THEN UpTo("install") /\ UNCHANGED cacheVars
     ELSE UpTo("background") /\ DeleteCache
  /\ UNCHANGED <<worldVars, processVars>>

\* The server does not answer: the cache is kept for the next start.
CheckServerFails ==
  /\ UpAt("check") /\ UpTo("background")
  /\ UNCHANGED <<worldVars, cacheVars, processVars>>

\* An installer that is not whole fails.
InstallUpdate ==
  /\ UpAt("install") /\ bytes.whole /\ UpTo("off")
  /\ program' = bytes.version
  /\ DeleteCache
  /\ UNCHANGED <<released, lateInstall, processVars>>

\* It fails, or is still at work after 30 seconds; the cache is kept.
InstallFails ==
  /\ UpAt("install") /\ UpTo("background")
  /\ lateInstall' \in {0} \union (IF bytes.whole THEN {bytes.version} ELSE {})
  /\ UNCHANGED <<released, program, cacheVars, processVars>>

EndLateInstall ==
  /\ lateInstall # 0 /\ lateInstall' = 0
  /\ program' = lateInstall
  /\ UNCHANGED <<released, cacheVars, processVars, upPc>>

TryInstallOnStartup ==
  \/ NoCache \/ CacheIsOld \/ AskUserToInstall
  \/ ReadCacheBytes \/ BytesUnreadable
  \/ CheckServer \/ CheckServerFails \/ InstallUpdate \/ InstallFails

-----------------------------------------------------------------------------
(* check_and_download, as long as nothing was downloaded in this run.      *)

Check ==
  /\ UpAt("background") /\ ~update_ready /\ released > current_version
  /\ fetched' = released /\ UpTo("download")
  /\ UNCHANGED <<worldVars, cacheVars, current_version, cached_version, bytes,
                 update_ready>>

DownloadFails ==
  /\ UpAt("download") /\ UpTo("background")
  /\ UNCHANGED <<worldVars, cacheVars, processVars>>

\* write_cache: a file is emptied, and then written.
BeginBin ==
  /\ UpAt("download") /\ UpTo("bin")
  /\ bin' = Bin(fetched, FALSE)
  /\ rewritten' = (meta = fetched)
  /\ UNCHANGED <<worldVars, processVars, meta>>

EndBin ==
  /\ UpAt("bin") /\ UpTo("meta")
  /\ bin' = Bin(fetched, TRUE)
  /\ UNCHANGED <<worldVars, processVars, meta, rewritten>>

BeginMeta ==
  /\ UpAt("meta") /\ UpTo("record")
  /\ meta' = 0
  /\ UNCHANGED <<worldVars, processVars, bin, rewritten>>

EndMeta ==
  /\ UpAt("record") /\ UpTo("background")
  /\ meta' = fetched /\ update_ready' = TRUE
  /\ UNCHANGED <<worldVars, current_version, fetched, cached_version, bytes,
                 bin, rewritten>>

\* A write that fails ends write_cache; the update is ready all the same.
WriteFails ==
  /\ upPc \in {"download", "bin", "meta", "record"} /\ UpTo("background")
  /\ update_ready' = TRUE
  /\ UNCHANGED <<worldVars, cacheVars, current_version, fetched, cached_version,
                 bytes>>

CheckAndDownload ==
  \/ Check \/ DownloadFails \/ BeginBin \/ EndBin \/ BeginMeta \/ EndMeta
  \/ WriteFails

UpdaterNext ==
  \/ Release \/ InstallByHand \/ Ends \/ Starts \/ EndLateInstall
  \/ TryInstallOnStartup \/ CheckAndDownload

UpdaterSpec == UpdaterInit /\ [][UpdaterNext]_updaterVars

-----------------------------------------------------------------------------
(* Properties.                                                             *)

\* Whatever crashes and releases came between, what is installed is the version
\* the user was asked about, newer than the program, and all of it; except that
\* a second download of the same version which was cut short passes for the
\* first ("Verify the server's version matches the cached version").
InstallsWhatWasAsked ==
  UpAt("install") =>
    /\ bytes.version = cached_version /\ cached_version > current_version
    /\ bytes.whole \/ rewritten
=============================================================================
