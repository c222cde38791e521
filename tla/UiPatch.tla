------------------------------- MODULE UiPatch ------------------------------
(***************************************************************************)
(* src/src/protect_ui_patch.cpp and src/src/patch_watcher.cpp: the recorder*)
(* replaces predicates in a file of Protect, keeping the original in a .bak*)
(* next to it, and adds its two locations to nginx's site file; at startup *)
(* and, 5 s after the last change it saw, from the thread that watches the *)
(* two directories ("app" and "conf").                                     *)
(*                                                                         *)
(* A file of Protect is the release it is of and how many of the recorder's*)
(* replacements it holds.  Its expected checksum is that of a release.     *)
(***************************************************************************)
EXTENDS Integers, Sequences, SequencesExt

CONSTANTS MaxRelease, \* bound: releases of Protect
          MaxKnown,   \* bound: replacements a release of the recorder knows
          MaxRegen,   \* bound: times unifi-core writes its site file anew
          MaxStarts   \* bound: starts of the recorder

VARIABLES release,   \* Protect's installed release
          live, bak, \* the file and its .bak
          md5,       \* the release /var/lib/dpkg/info speaks of
          conf,      \* the recorder's blocks in the site file, in order
          pc,        \* where the recorder is in a pass of patches
          held, site, \* the file, and the site file, as it will write them
          known,     \* how many replacements it knows
          watched,   \* wd_to_spec_
          queue,     \* inotify's queue
          pending,   \* whether pending_at is set
          firstAdd,  \* first_add_done_
          regens, starts,
          unlucky    \* history: see BackupIsOriginal

fileVars == <<release, live, bak, md5>>
watchVars == <<watched, queue, pending, firstAdd>>
countVars == <<regens, starts>>
heldVars == <<held, site>>
vars == <<fileVars, conf, pc, heldVars, known, watchVars, countVars, unlucky>>

File(n, k) == [of |-> n, done |-> k]
NoFile == File(0, 0)
Torn == File(-1, 0)
Dirs == {"app", "conf"}
Blocks == {"log", "admin"}
Passes == {"picker", "backup", "write", "log", "logWrite", "admin", "adminWrite"}

Init == /\ release = 1 /\ live \in {NoFile, File(1, 0)} /\ bak = NoFile /\ md5 = 1
        /\ conf = <<>>
        /\ pc = "off" /\ held = NoFile /\ site = <<>> /\ known = 1
        /\ watched = {} /\ queue = {} /\ pending = FALSE /\ firstAdd = FALSE
        /\ regens = 0 /\ starts = 0
        /\ unlucky = FALSE

(* The kernel still watches a directory that is there. *)
Seen(d) == d \in watched /\ (d = "app" => "dropped" \notin queue)

Notify(d) == queue' = IF Seen(d) THEN queue \cup {d} ELSE queue

Quiet == UNCHANGED <<watched, pending, firstAdd, countVars, known>>

-----------------------------------------------------------------------------
(* A pass: patch_alarm_picker, then the two nginx blocks.                  *)
Start(upgraded) ==
  /\ pc = "off" /\ starts < MaxStarts
  /\ starts' = starts + 1
  /\ pc' = "picker"
  /\ known' = IF upgraded /\ known < MaxKnown THEN known + 1 ELSE known
  /\ UNCHANGED <<fileVars, conf, heldVars, watchVars, regens, unlucky>>

(* apply_patches reads the file.  What is torn or missing, or has all the  *)
(* replacements, is left alone.                                            *)
ReadLive == /\ pc = "picker"
            /\ held' = live
            /\ pc' = IF live \notin {NoFile, Torn} /\ live.done < known THEN "backup" ELSE "log"
            /\ Quiet /\ UNCHANGED <<fileVars, conf, site, queue, unlucky>>

Original == live = File(md5, 0)

BadBackup == /\ pc = "backup"
             /\ bak' = held
             /\ pc' = "write"
             /\ Quiet /\ UNCHANGED <<release, live, md5, conf, heldVars, queue, unlucky>>

Backup == /\ pc = "backup"
          /\ bak' = IF Original THEN held ELSE bak
          /\ pc' = "write"
          /\ Quiet /\ UNCHANGED <<release, live, md5, conf, heldVars, queue, unlucky>>

(* The file's new content; or nothing, if the directory is gone. *)
Write == /\ pc = "write"
         /\ live' = IF live = NoFile THEN NoFile ELSE File(held.of, known)
         /\ pc' = "log"
         /\ Notify("app")
         /\ Quiet /\ UNCHANGED <<release, bak, md5, conf, heldVars, unlucky>>

(* inject_nginx_block strips the block and puts it before the server's     *)
(* closing brace.  It writes, and reloads nginx, if that changed the file. *)
Without(blocks, b) == SelectSeq(blocks, LAMBDA c : c # b)

Inject(b, from, writing, next) ==
  \/ /\ pc = from
     /\ site' = Append(Without(conf, b), b)
     /\ pc' = IF site' = conf THEN next ELSE writing
     /\ Quiet /\ UNCHANGED <<fileVars, conf, held, queue, unlucky>>
  \/ /\ pc = writing
     /\ conf' = site
     /\ pc' = next
     /\ Notify("conf")
     /\ Quiet /\ UNCHANGED <<fileVars, heldVars, unlucky>>

LogProxy == Inject("log", "log", "logWrite", "admin")

AdminProxy == Inject("admin", "admin", "adminWrite", "idle")

Pass == ReadLive \/ Backup \/ Write \/ LogProxy \/ AdminProxy

-----------------------------------------------------------------------------
(* PatchWatcher::run.                                                      *)
ReadEvents == /\ pc = "idle" /\ queue # {}
              /\ pending' = (pending \/ queue \cap watched # {})
              /\ watched' = IF "dropped" \in queue THEN watched \ {"app"} ELSE watched
              /\ queue' = {}
              /\ UNCHANGED <<fileVars, conf, pc, heldVars, known, firstAdd, countVars, unlucky>>

Fire == /\ pc = "idle" /\ pending
        /\ pending' = FALSE
        /\ pc' = "picker"
        /\ UNCHANGED <<fileVars, conf, heldVars, known, watched, queue, firstAdd, countVars, unlucky>>

(* Directories that have no watch are tried every second.  One that comes  *)
(* back may have changed meanwhile.                                        *)
Present == IF live = NoFile THEN {"conf"} ELSE Dirs

BadAddWatches == /\ pc = "idle" /\ ~(watched = Dirs)
                 /\ watched' = watched \cup Present
                 /\ firstAdd' = TRUE
                 /\ UNCHANGED <<fileVars, conf, pc, heldVars, known, queue, pending, countVars, unlucky>>

AddWatches == /\ pc = "idle" /\ ~(watched = Dirs)
              /\ watched' = watched \cup Present
              /\ pending' = (pending \/ (firstAdd /\ watched' # watched))
              /\ firstAdd' = TRUE
              /\ UNCHANGED <<fileVars, conf, pc, heldVars, known, queue, countVars, unlucky>>

(* The recorder stops, at worst in the middle of a file. *)
Stop(torn) == /\ pc # "off"
              /\ torn => pc \in {"backup", "write"}
              /\ live' = IF torn /\ pc = "write" /\ live # NoFile THEN Torn ELSE live
              /\ bak' = IF torn /\ pc = "backup" /\ Original THEN Torn ELSE bak
              /\ unlucky' = (unlucky \/ torn)
              /\ pc' = "off" /\ held' = NoFile /\ site' = <<>>
              /\ watched' = {} /\ queue' = {} /\ pending' = FALSE /\ firstAdd' = FALSE
              /\ UNCHANGED <<release, md5, conf, known, countVars>>

(* --rollback, before the package is removed: what has a backup and is not *)
(* what dpkg installed is put back.                                        *)
Revert == /\ pc = "off"
          /\ live' = IF bak = NoFile \/ live = NoFile \/ Original THEN live ELSE bak
          /\ conf' = <<>>
          /\ UNCHANGED <<release, bak, md5, pc, heldVars, known, watchVars, countVars, unlucky>>

-----------------------------------------------------------------------------
(* The appliance.  A change that comes before the first watch is not       *)
(* noticed, and one between the read of a file and its backup is taken for *)
(* what was read.                                                          *)
Blind == pc = "backup" \/ (pc # "off" /\ ~firstAdd)

Unaware == UNCHANGED <<pc, heldVars, known, watched, pending, firstAdd, starts>>

(* An upgrade renames a new file over the old; its checksum follows. *)
Unpack == /\ live # NoFile /\ release < MaxRelease
          /\ release' = release + 1
          /\ live' = File(release', 0)
          /\ Notify("app")
          /\ unlucky' = (unlucky \/ Blind)
          /\ Unaware /\ UNCHANGED <<bak, md5, conf, regens>>

Checksums == /\ md5 # release
             /\ md5' = release
             /\ Unaware /\ UNCHANGED <<release, live, bak, conf, queue, regens, unlucky>>

(* A firmware overlay swaps the whole directory, .bak and all. *)
Unmount == /\ live # NoFile /\ release < MaxRelease
           /\ live' = NoFile /\ bak' = NoFile
           /\ queue' = IF "app" \in watched THEN queue \cup {"dropped"} ELSE queue
           /\ unlucky' = (unlucky \/ Blind)
           /\ Unaware /\ UNCHANGED <<release, md5, conf, regens>>

Mount == /\ live = NoFile
         /\ release' = IF release < MaxRelease THEN release + 1 ELSE release
         /\ live' = File(release', 0) /\ md5' = release'
         /\ unlucky' = (unlucky \/ Blind)
         /\ Unaware /\ UNCHANGED <<bak, conf, queue, regens>>

Regenerate == /\ regens < MaxRegen
              /\ regens' = regens + 1
              /\ conf' = <<>>
              /\ Notify("conf")
              /\ unlucky' = (unlucky \/ Blind)
              /\ Unaware /\ UNCHANGED fileVars

Appliance == Unpack \/ Checksums \/ Unmount \/ Mount \/ Regenerate

Recorder == Pass \/ ReadEvents \/ Fire \/ AddWatches

Next == \/ Recorder \/ Revert \/ Appliance
        \/ \E upgraded \in BOOLEAN : Start(upgraded)
        \/ \E torn \in BOOLEAN : Stop(torn)

(* The watcher's poll has a timeout while anything is scheduled. *)
Fairness == WF_vars(Pass) /\ WF_vars(ReadEvents) /\ WF_vars(Fire) /\ WF_vars(AddWatches)

Spec == Init /\ [][Next]_vars /\ Fairness

-----------------------------------------------------------------------------
Files == {NoFile, Torn} \cup {File(n, k) : n \in 1 .. MaxRelease, k \in 0 .. MaxKnown}

TypeOK == /\ release \in 1 .. MaxRelease /\ md5 \in 1 .. MaxRelease
          /\ live \in Files /\ bak \in Files
          /\ conf \in Seq(Blocks)
          /\ pc \in Passes \cup {"off", "idle"} /\ known \in 1 .. MaxKnown
          /\ watched \subseteq Dirs /\ queue \subseteq Dirs \cup {"dropped"}
          /\ pending \in BOOLEAN /\ firstAdd \in BOOLEAN /\ unlucky \in BOOLEAN

(* "If the live file does NOT match -> do not overwrite .bak (we would be  *)
(* backing up a modified file)" (protect_ui_patch.cpp:192-193): over       *)
(* upgrades of Protect and of the recorder, stops and reverts, the .bak is *)
(* an unmodified file; unless, once, an upgrade came between the read and  *)
(* the backup of a pass or the process died in the middle of a file.       *)
BackupIsOriginal == ~unlucky => bak.done = 0

(* "This is what makes us self-heal through e.g. a UniFi OS firmware-      *)
(* overlay rebase that swaps the entire directory atomically"              *)
(* (patch_watcher.cpp:226-228): whatever changes while the recorder        *)
(* watches ends up with all replacements and both blocks, even if a change *)
(* lands in the middle of a pass.                                          *)
Patched == live.done = known /\ Blocks \subseteq Range(conf)

Healed == <>[](pc = "off" \/ live = NoFile \/ unlucky \/ Patched)

(* "Re-runs are idempotent: each patch detects 'already patched' and       *)
(* no-ops" (main.cpp:688-689), "No-op if the block is already present"     *)
(* (protect_ui_patch.hpp:62): once nothing else writes the files, the      *)
(* recorder stops writing and reloading nginx.                             *)
Settles == <>[](pc \notin {"logWrite", "adminWrite"})
=============================================================================
