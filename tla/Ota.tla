-------------------------------- MODULE Ota --------------------------------
(***************************************************************************)
(* scripts/ota_upgrade.sh, with the service it restarts (systemd, unit     *)
(* edge-omni.service) and the success flag that main() of app/main.c       *)
(* writes to /tmp three seconds after it has started everything.           *)
(*                                                                         *)
(* A package is "good", or "bad" when its program dies before it writes    *)
(* the flag.  A directory whose files are being replaced, or whose archive *)
(* did not unpack, is "broken".  Any command of the script may fail.       *)
(*                                                                         *)
(* Power can fail at any step: the script is gone, /tmp is empty, and      *)
(* systemd starts whatever current points to.  The script never calls      *)
(* sync, so what reached the disk by then is up to the kernel, which       *)
(* writes the link and the files of v2 back whenever it likes.             *)
(***************************************************************************)
EXTENDS Naturals

CONSTANTS
  RollbackTimeout,  (* seconds until the script gives up: 10               *)
  MaxUpgrades       (* bound: runs of the script                           *)

ASSUME OtaAssumption ==
  /\ RollbackTimeout \in Nat \ {0}
  /\ MaxUpgrades \in Nat

VARIABLES
  step,        (* the script's next step; "idle" when it is not running    *)
  package,     (* what the downloaded archive holds                        *)
  elapsed,     (* seconds waited for the flag, by the clock                *)
  current,     (* the link /app/current                                    *)
  dirs,        (* what /app/v1 and /app/v2 hold                            *)
  links,       (* what a power failure may leave of the link               *)
  saved,       (* what a power failure may leave in v2                     *)
  enabled,     (* whether systemd keeps the service running                *)
  process,     (* the service's process                                    *)
  image,       (* the directory and contents the process was started from  *)
  flag,        (* /tmp/ota_success_flag                                    *)
  flag_from,   (* ghost: the upgrade during which the flag was written, or *)
               (* the last one before it                                   *)
  flag_image,  (* ghost: the image whose process wrote it                  *)
  verdict,     (* ghost: how the last run of the script ended              *)
  upgrades,    (* ghost: runs of the script                                *)
  old_flag,    (* ghost: the flag was there when v2 was started            *)
  source,      (* ghost: where current pointed when the script was         *)
               (* started, if that had reached the disk, else "none"       *)
  early_cut    (* ghost: in this run, power failed when v2 was linked, but *)
               (* its files were not written back                          *)

script  == <<step, package, elapsed>>
disk    == <<current, dirs, links, saved>>
service == <<enabled, process, image>>
flags   == <<flag, flag_from, flag_image>>
ghosts  == <<verdict, upgrades, old_flag, source, early_cut>>
vars    == <<script, disk, service, flags, ghosts>>

Versions == {"v1", "v2"}
Contents == {"good", "bad", "broken"}
NoImage  == [dir |-> "none", holds |-> "broken"]
Images   == [dir : Versions, holds : Contents] \cup {NoImage}
Steps    == {"idle", "download", "clear", "unpack", "stop", "unlink", "link",
             "start", "poll", "rollback_stop",
             "rollback_unlink", "rollback_link", "rollback_start",
             "rollback_check"}

(* The steps between a stop of the service and its next start.             *)
Stopped == {"unlink", "link", "start",
            "rollback_unlink", "rollback_link", "rollback_start"}

Running == process \in {"starting", "up"}

(* What systemd finds behind /app/current. *)
Linked == IF current = "none" THEN NoImage
          ELSE [dir |-> current, holds |-> dirs[current]]

-----------------------------------------------------------------------------
Init ==
  /\ step = "idle" /\ package = "good" /\ elapsed = 0
  /\ current = "v1"
  /\ dirs = [v \in Versions |-> IF v = "v1" THEN "good" ELSE "broken"]
  /\ links = {"v1"} /\ saved = {"broken"}
  /\ enabled = TRUE
  /\ process = "down" /\ image = NoImage
  /\ flag = FALSE /\ flag_from = 0 /\ flag_image = NoImage
  /\ verdict = "none" /\ upgrades = 0 /\ old_flag = FALSE /\ source = "v1"
  /\ early_cut = FALSE

-----------------------------------------------------------------------------
(* The service. *)

(* systemd starts the program; without an executable it fails and is tried *)
(* again (Restart=always).                                                 *)
ProcessStarts ==
  /\ enabled /\ process = "down"
  /\ Linked.holds # "broken"
  /\ process' = "starting"
  /\ image' = Linked
  /\ UNCHANGED <<script, disk, enabled, flags, ghosts>>

(* main() has initialised everything, slept, and writes the flag.          *)
ProcessWritesFlag ==
  /\ process = "starting" /\ image.holds = "good"
  /\ process' = "up"
  /\ flag' = TRUE
  /\ flag_from' = upgrades
  /\ flag_image' = image
  /\ UNCHANGED <<script, disk, enabled, image, ghosts>>

(* A bad program always dies before the flag; a good one may die too.      *)
ProcessDies ==
  /\ Running
  /\ process' = "down"
  /\ image' = NoImage
  /\ UNCHANGED <<script, disk, enabled, flags, ghosts>>

-----------------------------------------------------------------------------
(* The disk. *)

(* The kernel writes back what is in its caches. *)
LinkWrittenBack ==
  /\ links # {current}
  /\ links' = {current}
  /\ UNCHANGED <<current, dirs, saved, script, service, flags, ghosts>>

FilesWrittenBack ==
  /\ saved # {dirs["v2"]}
  /\ saved' = {dirs["v2"]}
  /\ UNCHANGED <<current, dirs, links, script, service, flags, ghosts>>

PowerFails ==
  /\ \E l \in links, c \in saved :
       /\ current' = l /\ links' = {l}
       /\ dirs' = [dirs EXCEPT !["v2"] = c] /\ saved' = {c}
  /\ step' = "idle" /\ elapsed' = 0
  /\ enabled' = TRUE
  /\ process' = "down" /\ image' = NoImage
  /\ flag' = FALSE
  /\ verdict' = IF step = "idle" /\ links = {current} THEN verdict
                ELSE "lost"
  /\ early_cut' = \/ early_cut
                  \/ "v2" \in links /\ saved # {dirs["v2"]}
  /\ UNCHANGED <<package, flag_from, flag_image, upgrades, old_flag, source>>

-----------------------------------------------------------------------------
(* The script.  set -e ends it at the first command that fails.  (The test *)
(* that the link it has just made is there is left out.)                   *)

Goto(s) == step' = s /\ UNCHANGED <<package, elapsed>>

Exit(v) ==
  /\ step' = "idle" /\ elapsed' = 0 /\ UNCHANGED package
  /\ verdict' = v
  /\ UNCHANGED <<upgrades, old_flag, source, early_cut>>

Begin ==
  /\ step = "idle" /\ upgrades < MaxUpgrades
  /\ step' = "download" /\ elapsed' = 0
  /\ package' \in {"good", "bad"}
  /\ verdict' = "none"
  /\ upgrades' = upgrades + 1
  /\ source' = IF links = {current} THEN current ELSE "none"
  /\ early_cut' = FALSE
  /\ UNCHANGED <<disk, service, flags, old_flag>>

(* wget fails, or the checksum does not match. *)
DownloadFails ==
  /\ step = "download"
  /\ Exit("not_installed")
  /\ UNCHANGED <<disk, service, flags>>

DownloadOk ==
  /\ step = "download"
  /\ Goto("clear")
  /\ UNCHANGED <<disk, service, flags, ghosts>>

(* Variant: clears the version a rollback needs. *)
ClearV1 ==
  /\ step = "clear"
  /\ dirs' = [dirs EXCEPT !["v1"] = "broken"]
  /\ Goto("unpack")
  /\ UNCHANGED <<current, links, saved, service, flags, ghosts>>

FilesOfV2(c) ==
  /\ dirs' = [dirs EXCEPT !["v2"] = c]
  /\ saved' = saved \cup {c}
  /\ UNCHANGED <<current, links>>

(* rm -rf of the files of v2, whether or not v2 is what is running, and    *)
(* whether or not all of them can be removed.                              *)
Clear ==
  /\ step = "clear"
  /\ FilesOfV2("broken")
  /\ \/ Goto("unpack") /\ UNCHANGED ghosts
     \/ Exit("not_installed")
  /\ UNCHANGED <<service, flags>>

UnpackFails ==
  /\ step = "unpack"
  /\ Exit("not_installed")
  /\ UNCHANGED <<disk, service, flags>>

Unpack ==
  /\ step = "unpack"
  /\ FilesOfV2(package)
  /\ Goto("stop")
  /\ UNCHANGED <<service, flags, ghosts>>

(* systemctl stop fails, before or after the process is gone. *)
StopFails ==
  /\ step \in {"stop", "rollback_stop"}
  /\ Exit("failed")
  /\ \/ UNCHANGED service
     \/ enabled' = FALSE /\ process' = "down" /\ image' = NoImage
  /\ UNCHANGED <<disk, flags>>

(* systemctl stop *)
StopService(next) ==
  /\ enabled' = FALSE
  /\ process' = "down" /\ image' = NoImage
  /\ Goto(next)
  /\ UNCHANGED <<disk, flags, ghosts>>

(* Variant: leaves the old process running. *)
StopNothing ==
  /\ step = "stop"
  /\ Goto("unlink")
  /\ UNCHANGED <<disk, service, flags, ghosts>>

Stop == step = "stop" /\ StopService("unlink")

(* ln -sfn removes the old link, then makes the new one. *)
RemoveLink(next) ==
  /\ current' = "none" /\ links' = links \cup {"none"}
  /\ Goto(next)
  /\ UNCHANGED <<dirs, saved, service, flags, ghosts>>

MakeLink(v, next) ==
  /\ current' = v /\ links' = links \cup {v}
  /\ Goto(next)
  /\ UNCHANGED <<dirs, saved, service, flags, ghosts>>

(* Either of them fails: the service stays stopped. *)
LnFails ==
  /\ step \in {"unlink", "link", "rollback_unlink", "rollback_link"}
  /\ Exit("failed")
  /\ UNCHANGED <<disk, service, flags>>

Unlink == step = "unlink" /\ RemoveLink("link")

Link == step = "link" /\ MakeLink("v2", "start")

(* systemctl start fails; systemd may or may not go on trying. *)
StartFails ==
  /\ step \in {"start", "rollback_start"}
  /\ Exit("failed")
  /\ enabled' \in BOOLEAN
  /\ UNCHANGED <<disk, process, image, flags>>

(* systemctl start.  The flag is neither read nor removed before. *)
Start ==
  /\ step = "start"
  /\ enabled' = TRUE
  /\ step' = "poll" /\ elapsed' = 0
  /\ old_flag' = flag
  /\ UNCHANGED <<package, disk, process, image, flags, verdict, upgrades,
                 source, early_cut>>

(* The flag is there.  The line after the message is a misspelt break, a   *)
(* command that does not exist: set -e ends the script here, with the flag *)
(* and the download left behind.                                           *)
FlagSeen ==
  /\ step = "poll" /\ elapsed < RollbackTimeout
  /\ flag
  /\ Exit("flag_seen")
  /\ UNCHANGED <<disk, service, flags>>

(* Variant: does not look at the clock. *)
FlagMissingForEver ==
  /\ step = "poll" /\ elapsed < RollbackTimeout
  /\ ~flag
  /\ UNCHANGED vars

(* It sleeps for a second; more may have passed, or the clock been set     *)
(* forward, when it looks again.                                           *)
FlagMissing ==
  /\ step = "poll" /\ elapsed < RollbackTimeout
  /\ ~flag
  /\ elapsed' \in elapsed + 1 .. RollbackTimeout
  /\ UNCHANGED <<step, package, disk, service, flags, ghosts>>

PollTimeout ==
  /\ step = "poll" /\ elapsed >= RollbackTimeout
  /\ Goto("rollback_stop")
  /\ UNCHANGED <<disk, service, flags, ghosts>>

(* Variant: leaves v2 running. *)
RollbackStopNothing ==
  /\ step = "rollback_stop"
  /\ Goto("rollback_unlink")
  /\ UNCHANGED <<disk, service, flags, ghosts>>

RollbackStop == step = "rollback_stop" /\ StopService("rollback_unlink")

RollbackUnlink == step = "rollback_unlink" /\ RemoveLink("rollback_link")

(* Variant: rolls back to the version it came from. *)
RollbackToSource ==
  step = "rollback_link" /\ MakeLink(source, "rollback_start")

RollbackLink == step = "rollback_link" /\ MakeLink("v1", "rollback_start")

RollbackStart ==
  /\ step = "rollback_start"
  /\ enabled' = TRUE
  /\ Goto("rollback_check")
  /\ UNCHANGED <<disk, process, image, flags, ghosts>>

(* systemctl is-active after five seconds. *)
RollbackDone ==
  /\ step = "rollback_check"
  /\ Running
  /\ Exit("rolled_back")
  /\ UNCHANGED <<disk, service, flags>>

(* v1 is not running at that moment either: the script crashes the kernel. *)
RollbackPanics ==
  /\ step = "rollback_check"
  /\ ~Running
  /\ PowerFails

-----------------------------------------------------------------------------
ScriptSteps ==
  \/ DownloadFails \/ DownloadOk \/ Clear \/ UnpackFails \/ Unpack
  \/ Stop \/ StopFails \/ Unlink \/ Link \/ LnFails \/ Start \/ StartFails
  \/ FlagSeen \/ FlagMissing \/ PollTimeout
  \/ RollbackStop \/ RollbackUnlink \/ RollbackLink \/ RollbackStart
  \/ RollbackDone \/ RollbackPanics

Service == ProcessStarts \/ ProcessWritesFlag \/ ProcessDies

Disk == LinkWrittenBack \/ FilesWrittenBack \/ PowerFails

Next == Begin \/ ScriptSteps \/ Service \/ Disk

(* A shell goes on with its next command, and none of them waits for ever. *)
Spec == Init /\ [][Next]_vars /\ WF_vars(ScriptSteps)

-----------------------------------------------------------------------------
(* The types of the variables; the link is replaced, there and back, only  *)
(* while no process runs.                                                  *)
TypeOK ==
  /\ step \in Steps /\ package \in Contents
  /\ elapsed \in 0 .. RollbackTimeout
  /\ current \in Versions \cup {"none"}
  /\ dirs \in [Versions -> Contents]
  /\ links \subseteq Versions \cup {"none"} /\ current \in links
  /\ saved \subseteq Contents /\ dirs["v2"] \in saved
  /\ enabled \in BOOLEAN
  /\ process \in {"down", "starting", "up"}
  /\ image \in Images
  /\ process # "down" => image # NoImage
  /\ step \in Stopped => process = "down"
  /\ flag \in BOOLEAN
  /\ flag_from \in 0 .. MaxUpgrades /\ flag_image \in Images
  /\ verdict \in {"none", "lost", "not_installed", "failed", "flag_seen",
                  "rolled_back"}
  /\ upgrades \in 0 .. MaxUpgrades
  /\ old_flag \in BOOLEAN
  /\ source \in Versions \cup {"none"}
  /\ early_cut \in BOOLEAN

(* When no flag was lying around as v2 was started, the script takes only  *)
(* a good v2 for a success: no earlier process can write the flag late.    *)
FreshFlagIsV2s ==
  verdict = "flag_seen" /\ ~old_flag =>
    /\ flag_from = upgrades
    /\ flag_image = [dir |-> "v2", holds |-> "good"]

(* An upgrade that starts from v1 leaves a complete program behind the     *)
(* link at every step, also one at which power fails or a command does,    *)
(* with two exceptions: while ln replaces the link, and from then on until *)
(* the kernel has written back the files of v2, which nobody syncs.        *)
PowerSafeFromV1 ==
  source = "v1" =>
    \/ Linked.holds # "broken"
    \/ /\ current = "none"
       /\ step \in {"link", "rollback_link"} \/ verdict \in {"lost", "failed"}
    \/ /\ current = "v2"
       /\ early_cut

(* Wherever the upgrade came from, and whatever has failed in it, a        *)
(* rollback ends with the link on an untouched v1, and it stays there      *)
(* unless power fails before the link has reached the disk.                *)
RollbackIsToV1 ==
  verdict = "rolled_back" => Linked = [dir |-> "v1", holds |-> "good"]

(* The script always ends, whatever the process it waits for does. *)
ScriptEnds == step # "idle" ~> step = "idle"

(* "Waiting for the flag of a successful start" (the script, of v2): a     *)
(* flag that is seen was written by the version that was started.          *)
FlagMeansV2Started ==
  verdict = "flag_seen" =>
    flag_from = upgrades /\ flag_image.dir = "v2"

=============================================================================
