----------------------------- MODULE OtaProofs ------------------------------
(***************************************************************************)
(* The safety properties of Ota, for every RollbackTimeout and any number  *)
(* of upgrades.                                                            *)
(***************************************************************************)
EXTENDS Ota, TLAPS

-----------------------------------------------------------------------------
(* What the script has made of the disk and the service by each step.      *)

(* v1 is never touched, and v2 is complete once it is unpacked; in an      *)
(* upgrade from v1 no link to v2 exists before, neither one that is seen   *)
(* nor one that a power failure may leave.                                 *)
DirsKept ==
  /\ package # "broken"
  /\ dirs["v1"] = "good"
  /\ step \in {"stop", "unlink", "link"} => dirs["v2"] # "broken"
  /\ source = "v1" /\ "v2" \in links /\ ~early_cut => dirs["v2"] # "broken"

(* Where the link points while the script runs. *)
LinkFollowsStep ==
  /\ source = "v1" /\ step \in {"download", "clear", "unpack", "stop",
                                "unlink"} => links = {"v1"}
  /\ step \in {"start", "poll", "rollback_stop", "rollback_unlink"} =>
       current = "v2"
  /\ step \in {"rollback_start", "rollback_check"} => current = "v1"
  /\ source = "v1" /\ current = "none" =>
       step \in {"link", "rollback_link"} \/ verdict \in {"lost", "failed"}

(* A run has no verdict before it has ended, and what the verdict says of  *)
(* the link stays true until the next run.                                 *)
VerdictIsLast ==
  /\ step # "idle" => verdict = "none"
  /\ verdict = "flag_seen" => current = "v2"
  /\ verdict = "rolled_back" => current = "v1"

(* Between a stop and the next start there is no process, so what runs     *)
(* while the script polls, or after it saw the flag, was started from v2.  *)
ProcessIsLinked ==
  /\ step \in Stopped => ~enabled /\ process = "down"
  /\ step = "poll" \/ verdict = "flag_seen" =>
       process = "down" \/ image.dir = "v2"

(* A flag that was not there before v2 was started is v2's. *)
FlagIsV2s ==
  /\ step = "poll" \/ verdict = "flag_seen"
  /\ ~old_flag
  /\ flag \/ verdict = "flag_seen"
  => /\ flag_from = upgrades
     /\ flag_image = [dir |-> "v2", holds |-> "good"]

IInv ==
  /\ TypeOK
  /\ DirsKept
  /\ LinkFollowsStep
  /\ VerdictIsLast
  /\ ProcessIsLinked
  /\ FlagIsV2s

-----------------------------------------------------------------------------
(* The invariant holds when the service is installed. *)
LEMMA InitInv == Init => IInv
<1> SUFFICES ASSUME Init PROVE IInv
  OBVIOUS
<1>1. TypeOK
  <2>1. /\ NoImage \in Images
        /\ [v \in Versions |-> IF v = "v1" THEN "good" ELSE "broken"]
             \in [Versions -> Contents]
    BY DEF Images, Versions, Contents
  <2>2. 0 \in 0 .. RollbackTimeout /\ 0 \in 0 .. MaxUpgrades
    BY OtaAssumption
  <2> QED BY <2>1, <2>2 DEF Init, TypeOK, Steps, Versions, Contents, Stopped
<1>2. DirsKept
  BY DEF Init, DirsKept, Versions
<1>3. LinkFollowsStep /\ VerdictIsLast /\ ProcessIsLinked /\ FlagIsV2s
  BY DEF Init, LinkFollowsStep, VerdictIsLast, ProcessIsLinked, FlagIsV2s,
         Stopped
<1> QED BY <1>1, <1>2, <1>3 DEF IInv

-----------------------------------------------------------------------------
(* The service. *)

LEMMA LinkedFacts ==
  ASSUME TypeOK
  PROVE  /\ Linked \in Images
         /\ Linked.holds # "broken" =>
              Linked # NoImage /\ Linked.dir = current
         /\ current = "v1" => Linked = [dir |-> "v1", holds |-> dirs["v1"]]
         /\ current = "v2" => Linked = [dir |-> "v2", holds |-> dirs["v2"]]
BY DEF TypeOK, Linked, Images, NoImage, Versions

LEMMA ProcessStartsKeepsInv == IInv /\ ProcessStarts => IInv'
<1> SUFFICES ASSUME IInv, ProcessStarts PROVE IInv'
  OBVIOUS
<1> USE DEF IInv
<1>1. /\ UNCHANGED <<step, package, elapsed, current, dirs, links, saved, enabled,
                     flag, flag_from, flag_image, verdict, upgrades,
                     old_flag, source, early_cut>>
      /\ enabled /\ process' = "starting" /\ image' = Linked
      /\ Linked.holds # "broken"
  BY DEF ProcessStarts, script, disk, flags, ghosts
<1>2. TypeOK'
  BY <1>1, LinkedFacts DEF TypeOK, ProcessIsLinked
<1>3. DirsKept' /\ LinkFollowsStep' /\ VerdictIsLast' /\ FlagIsV2s'
  BY <1>1 DEF DirsKept, LinkFollowsStep, VerdictIsLast, FlagIsV2s
<1>4. ProcessIsLinked'
  BY <1>1, LinkedFacts DEF ProcessIsLinked, LinkFollowsStep, VerdictIsLast
<1> QED BY <1>2, <1>3, <1>4

(* The heart of the invariant: a process that writes the flag while the    *)
(* script waits for it, or later, was started from v2.                     *)
LEMMA ProcessWritesFlagKeepsInv == IInv /\ ProcessWritesFlag => IInv'
<1> SUFFICES ASSUME IInv, ProcessWritesFlag PROVE IInv'
  OBVIOUS
<1> USE DEF IInv
<1>1. /\ UNCHANGED <<step, package, elapsed, current, dirs, links, saved, enabled,
                     image, verdict, upgrades, old_flag, source, early_cut>>
      /\ process = "starting" /\ process' = "up" /\ image.holds = "good"
      /\ flag' = TRUE /\ flag_from' = upgrades /\ flag_image' = image
  BY DEF ProcessWritesFlag, script, disk, ghosts
<1>2. TypeOK'
  BY <1>1 DEF TypeOK
<1>3. DirsKept' /\ LinkFollowsStep' /\ VerdictIsLast' /\ ProcessIsLinked'
  BY <1>1 DEF DirsKept, LinkFollowsStep, VerdictIsLast, ProcessIsLinked
<1>4. FlagIsV2s'
  <2>1. image \in [dir : Versions, holds : Contents]
    BY <1>1 DEF TypeOK, Images
  <2>2. image.dir = "v2" => image = [dir |-> "v2", holds |-> "good"]
    BY <1>1, <2>1
  <2> QED BY <1>1, <2>2 DEF ProcessIsLinked, FlagIsV2s
<1> QED BY <1>2, <1>3, <1>4

LEMMA ProcessDiesKeepsInv == IInv /\ ProcessDies => IInv'
<1> SUFFICES ASSUME IInv, ProcessDies PROVE IInv'
  OBVIOUS
<1> USE DEF IInv
<1>1. /\ UNCHANGED <<step, package, elapsed, current, dirs, links, saved, enabled,
                     flag, flag_from, flag_image, verdict, upgrades,
                     old_flag, source, early_cut>>
      /\ process' = "down" /\ image' = NoImage
  BY DEF ProcessDies, script, disk, flags, ghosts
<1>2. TypeOK'
  BY <1>1 DEF TypeOK, Images
<1>3. /\ DirsKept' /\ LinkFollowsStep' /\ VerdictIsLast'
      /\ ProcessIsLinked' /\ FlagIsV2s'
  BY <1>1 DEF DirsKept, LinkFollowsStep, VerdictIsLast, ProcessIsLinked,
              FlagIsV2s
<1> QED BY <1>2, <1>3

-----------------------------------------------------------------------------
(* The disk. *)

LEMMA WriteBackKeepsInv == IInv /\ (LinkWrittenBack \/ FilesWrittenBack) => IInv'
<1> SUFFICES ASSUME IInv, LinkWrittenBack \/ FilesWrittenBack PROVE IInv'
  OBVIOUS
<1> USE DEF IInv
<1>1. /\ UNCHANGED <<step, package, elapsed, current, dirs, enabled, process,
                     image, flag, flag_from, flag_image, verdict, upgrades,
                     old_flag, source, early_cut>>
      /\ \/ links' = {current} /\ UNCHANGED saved
         \/ saved' = {dirs["v2"]} /\ UNCHANGED links
  BY DEF LinkWrittenBack, FilesWrittenBack, script, service, flags, ghosts
<1>2. TypeOK'
  <2>1. dirs["v2"] \in Contents
    BY DEF TypeOK, Versions
  <2> QED BY <1>1, <2>1 DEF TypeOK
<1>3. DirsKept' /\ LinkFollowsStep'
  BY <1>1 DEF TypeOK, DirsKept, LinkFollowsStep
<1>4. VerdictIsLast' /\ ProcessIsLinked' /\ FlagIsV2s'
  BY <1>1 DEF VerdictIsLast, ProcessIsLinked, FlagIsV2s
<1> QED BY <1>2, <1>3, <1>4

(* Power can fail at every step of the script, and leave any link and any  *)
(* files of v2 that are still on their way to the disk.                    *)
LEMMA PowerFailsKeepsInv == IInv /\ PowerFails => IInv'
<1> SUFFICES ASSUME IInv, PowerFails PROVE IInv'
  OBVIOUS
<1> USE DEF IInv
<1>1. /\ UNCHANGED <<package, flag_from, flag_image, upgrades, old_flag,
                     source>>
      /\ step' = "idle" /\ enabled' = TRUE /\ process' = "down"
      /\ image' = NoImage /\ flag' = FALSE
      /\ verdict' = IF step = "idle" /\ links = {current} THEN verdict
                    ELSE "lost"
      /\ early_cut' = \/ early_cut
                      \/ "v2" \in links /\ saved # {dirs["v2"]}
  BY Zenon DEF PowerFails
<1>2. PICK l \in links, c \in saved :
        /\ current' = l /\ links' = {l}
        /\ dirs' = [dirs EXCEPT !["v2"] = c] /\ saved' = {c}
  BY Zenon DEF PowerFails
<1>3. /\ dirs' \in [Versions -> Contents]
      /\ dirs'["v1"] = dirs["v1"] /\ dirs'["v2"] = c
  BY <1>2 DEF TypeOK, Versions
<1>4. elapsed' \in 0 .. RollbackTimeout
  BY OtaAssumption DEF PowerFails
<1>5. TypeOK'
  <2>1. step' \in Steps /\ image' \in Images
    BY <1>1 DEF Steps, Images
  <2>2. enabled' \in BOOLEAN /\ flag' \in BOOLEAN /\ early_cut' \in BOOLEAN
    BY <1>1, Zenon DEF TypeOK
  <2>3. /\ links' \subseteq Versions \cup {"none"} /\ current' \in links'
        /\ saved' \subseteq Contents /\ dirs'["v2"] \in saved'
        /\ current' \in Versions \cup {"none"}
    BY <1>2, <1>3 DEF TypeOK
  <2> QED BY <1>1, <1>3, <1>4, <2>1, <2>2, <2>3 DEF TypeOK
<1>6. DirsKept'
  <2>1. source = "v1" /\ "v2" \in links' /\ ~early_cut' => c # "broken"
    <3> SUFFICES ASSUME source = "v1", "v2" \in links', ~early_cut'
                 PROVE  c # "broken"
      OBVIOUS
    <3>1. "v2" \in links /\ ~early_cut /\ saved = {dirs["v2"]}
      BY <1>1, <1>2
    <3> QED BY <1>2, <3>1 DEF DirsKept
  <2> QED BY <1>1, <1>3, <2>1 DEF DirsKept
<1>7. verdict' # "lost" =>
        step = "idle" /\ current' = current /\ verdict' = verdict
  BY <1>1, <1>2
<1>8. LinkFollowsStep' /\ VerdictIsLast'
  BY <1>1, <1>7 DEF LinkFollowsStep, VerdictIsLast
<1>9. ProcessIsLinked' /\ FlagIsV2s'
  BY <1>1, <1>7 DEF ProcessIsLinked, FlagIsV2s, Stopped
<1> QED BY <1>5, <1>6, <1>8, <1>9

-----------------------------------------------------------------------------
(* The script. *)

(* systemctl stop, of the upgrade and of the rollback. *)
LEMMA StopServiceKeepsTypes ==
  ASSUME TypeOK, NEW next \in Steps, StopService(next)
  PROVE  TypeOK'
<1>1. /\ step' = next /\ process' = "down" /\ image' = NoImage
      /\ enabled' = FALSE
      /\ UNCHANGED <<package, elapsed, current, dirs, links, saved, flag,
                     flag_from, flag_image, verdict, upgrades, old_flag,
                     source, early_cut>>
  BY Zenon DEF StopService, Goto, disk, flags, ghosts
<1>2. enabled' \in BOOLEAN
  BY <1>1, Zenon
<1>3. image' \in Images
  BY <1>1 DEF Images
<1> QED BY <1>1, <1>2, <1>3 DEF TypeOK

(* From the download to the new link. *)
LEMMA InstallKeepsTypes ==
  ASSUME IInv,
         \/ Begin \/ DownloadFails \/ DownloadOk \/ Clear \/ UnpackFails
         \/ Unpack \/ Stop \/ Unlink \/ Link
  PROVE  TypeOK'
<1> USE OtaAssumption DEF IInv, TypeOK, Steps, Versions, Contents, Images,
        Stopped, ProcessIsLinked
<1>1. CASE Begin
  <2>1. /\ source' \in Versions \cup {"none"}
        /\ upgrades' \in 0 .. MaxUpgrades
        /\ package' \in Contents
    BY <1>1 DEF Begin
  <2>2. /\ step' = "download" /\ elapsed' = 0 /\ verdict' = "none"
        /\ early_cut' = FALSE
        /\ UNCHANGED <<current, dirs, links, saved, enabled, process, image,
                       flag, flag_from, flag_image, old_flag>>
    BY <1>1, Zenon DEF Begin, disk, service, flags
  <2>3. early_cut' \in BOOLEAN
    BY <2>2, Zenon
  <2> QED BY <2>1, <2>2, <2>3
<1>2. CASE DownloadFails
  BY <1>2 DEF DownloadFails, Exit, disk, service, flags
<1>3. CASE DownloadOk
  BY <1>3 DEF DownloadOk, Goto, disk, service, flags, ghosts
<1>4. CASE Clear
  BY <1>4 DEF Clear, FilesOfV2, Goto, Exit, service, flags, ghosts
<1>5. CASE UnpackFails
  BY <1>5 DEF UnpackFails, Exit, disk, service, flags
<1>6. CASE Unpack
  BY <1>6 DEF Unpack, FilesOfV2, Goto, service, flags, ghosts
<1>7. CASE Stop
  <2>1. "unlink" \in Steps
    OBVIOUS
  <2> QED BY <1>7, <2>1, StopServiceKeepsTypes DEF Stop
<1>8. CASE Unlink
  BY <1>8 DEF Unlink, RemoveLink, Goto, service, flags, ghosts
<1>9. CASE Link
  BY <1>9 DEF Link, MakeLink, Goto, service, flags, ghosts
<1> QED BY <1>1, <1>2, <1>3, <1>4, <1>5, <1>6, <1>7, <1>8, <1>9

LEMMA InstallKeepsParts ==
  ASSUME IInv,
         \/ Begin \/ DownloadFails \/ DownloadOk \/ Clear \/ UnpackFails
         \/ Unpack \/ Stop \/ Unlink \/ Link
  PROVE  /\ DirsKept' /\ LinkFollowsStep' /\ VerdictIsLast'
         /\ ProcessIsLinked' /\ FlagIsV2s'
<1> USE OtaAssumption DEF IInv, TypeOK, Versions, Contents, Steps,
        DirsKept, LinkFollowsStep, VerdictIsLast, ProcessIsLinked, FlagIsV2s,
        Stopped
<1>1. CASE Begin
  BY <1>1 DEF Begin, disk, service, flags
<1>2. CASE DownloadFails
  BY <1>2 DEF DownloadFails, Exit, disk, service, flags
<1>3. CASE DownloadOk
  BY <1>3 DEF DownloadOk, Goto, disk, service, flags, ghosts
<1>4. CASE Clear
  BY <1>4 DEF Clear, FilesOfV2, Goto, Exit, service, flags, ghosts
<1>5. CASE UnpackFails
  BY <1>5 DEF UnpackFails, Exit, disk, service, flags
<1>6. CASE Unpack
  BY <1>6 DEF Unpack, FilesOfV2, Goto, service, flags, ghosts
<1>7. CASE Stop
  BY <1>7 DEF Stop, StopService, Goto, disk, flags, ghosts
<1>8. CASE Unlink
  BY <1>8 DEF Unlink, RemoveLink, Goto, service, flags, ghosts
<1>9. CASE Link
  BY <1>9 DEF Link, MakeLink, Goto, service, flags, ghosts
<1> QED BY <1>1, <1>2, <1>3, <1>4, <1>5, <1>6, <1>7, <1>8, <1>9

(* From the start of v2 to the end of a rollback. *)
LEMMA WaitKeepsTypes ==
  ASSUME IInv,
         \/ Start \/ FlagSeen \/ FlagMissing \/ PollTimeout
         \/ RollbackStop \/ RollbackUnlink \/ RollbackLink
         \/ RollbackStart \/ RollbackDone
  PROVE  TypeOK'
<1> USE OtaAssumption DEF IInv, TypeOK, Steps, Versions, Contents, Images,
        Stopped, ProcessIsLinked
<1>1. CASE Start
  BY <1>1 DEF Start, disk, flags
<1>2. CASE FlagSeen
  BY <1>2 DEF FlagSeen, Exit, disk, service, flags
<1>3. CASE FlagMissing
  BY <1>3 DEF FlagMissing, disk, service, flags, ghosts
<1>4. CASE PollTimeout
  BY <1>4 DEF PollTimeout, Goto, disk, service, flags, ghosts
<1>5. CASE RollbackStop
  <2>1. "rollback_unlink" \in Steps
    OBVIOUS
  <2> QED BY <1>5, <2>1, StopServiceKeepsTypes DEF RollbackStop
<1>6. CASE RollbackUnlink
  BY <1>6 DEF RollbackUnlink, RemoveLink, Goto, service, flags, ghosts
<1>7. CASE RollbackLink
  BY <1>7 DEF RollbackLink, MakeLink, Goto, service, flags, ghosts
<1>8. CASE RollbackStart
  BY <1>8 DEF RollbackStart, Goto, disk, flags, ghosts
<1>9. CASE RollbackDone
  BY <1>9 DEF RollbackDone, Exit, disk, service, flags
<1> QED BY <1>1, <1>2, <1>3, <1>4, <1>5, <1>6, <1>7, <1>8, <1>9

LEMMA WaitKeepsParts ==
  ASSUME IInv,
         \/ Start \/ FlagSeen \/ FlagMissing \/ PollTimeout
         \/ RollbackStop \/ RollbackUnlink \/ RollbackLink
         \/ RollbackStart \/ RollbackDone
  PROVE  /\ DirsKept' /\ LinkFollowsStep' /\ VerdictIsLast'
         /\ ProcessIsLinked' /\ FlagIsV2s'
<1> USE OtaAssumption DEF IInv, TypeOK, Versions, Contents, Steps,
        DirsKept, LinkFollowsStep, VerdictIsLast, ProcessIsLinked, FlagIsV2s,
        Stopped
<1>1. CASE Start
  BY <1>1 DEF Start, disk, flags
<1>2. CASE FlagSeen
  BY <1>2 DEF FlagSeen, Exit, disk, service, flags
<1>3. CASE FlagMissing
  BY <1>3 DEF FlagMissing, disk, service, flags, ghosts
<1>4. CASE PollTimeout
  BY <1>4 DEF PollTimeout, Goto, disk, service, flags, ghosts
<1>5. CASE RollbackStop
  BY <1>5 DEF RollbackStop, StopService, Goto, disk, flags, ghosts
<1>6. CASE RollbackUnlink
  BY <1>6 DEF RollbackUnlink, RemoveLink, Goto, service, flags, ghosts
<1>7. CASE RollbackLink
  BY <1>7 DEF RollbackLink, MakeLink, Goto, service, flags, ghosts
<1>8. CASE RollbackStart
  BY <1>8 DEF RollbackStart, Goto, disk, flags, ghosts
<1>9. CASE RollbackDone
  BY <1>9 DEF RollbackDone, Exit, disk, service, flags
<1> QED BY <1>1, <1>2, <1>3, <1>4, <1>5, <1>6, <1>7, <1>8, <1>9

(* A systemctl or an ln that fails ends the script. *)
LEMMA CommandFailsKeepsInv ==
  IInv /\ (StopFails \/ LnFails \/ StartFails) => IInv'
<1> SUFFICES ASSUME IInv, StopFails \/ LnFails \/ StartFails PROVE IInv'
  OBVIOUS
<1> USE OtaAssumption DEF IInv
<1>1. /\ UNCHANGED <<package, current, dirs, links, saved, flag, flag_from,
                     flag_image, upgrades, old_flag, source, early_cut>>
      /\ step' = "idle" /\ elapsed' = 0 /\ verdict' = "failed"
      /\ enabled' \in BOOLEAN
      /\ \/ UNCHANGED <<process, image>>
         \/ process' = "down" /\ image' = NoImage
  BY DEF StopFails, LnFails, StartFails, Exit, disk, service, flags, TypeOK
<1>2. TypeOK'
  <2>1. "idle" \in Steps /\ "idle" \notin Stopped /\ NoImage \in Images
    BY DEF Steps, Stopped, Images
  <2>2. 0 \in 0 .. RollbackTimeout
    OBVIOUS
  <2> QED BY <1>1, <2>1, <2>2 DEF TypeOK
<1>3. /\ DirsKept' /\ LinkFollowsStep' /\ VerdictIsLast'
      /\ ProcessIsLinked' /\ FlagIsV2s'
  BY <1>1 DEF DirsKept, LinkFollowsStep, VerdictIsLast, ProcessIsLinked,
              FlagIsV2s, Stopped
<1> QED BY <1>2, <1>3

-----------------------------------------------------------------------------
(* The theorems. *)

(* Every step keeps the invariant. *)
LEMMA NextKeepsInv == IInv /\ [Next]_vars => IInv'
<1> SUFFICES ASSUME IInv, [Next]_vars PROVE IInv'
  OBVIOUS
<1>1. CASE \/ Begin \/ DownloadFails \/ DownloadOk \/ Clear \/ UnpackFails
           \/ Unpack \/ Stop \/ Unlink \/ Link
  BY <1>1, InstallKeepsTypes, InstallKeepsParts, Zenon DEF IInv
<1>2. CASE \/ Start \/ FlagSeen \/ FlagMissing \/ PollTimeout
           \/ RollbackStop \/ RollbackUnlink \/ RollbackLink
           \/ RollbackStart \/ RollbackDone
  BY <1>2, WaitKeepsTypes, WaitKeepsParts, Zenon DEF IInv
<1>3. CASE RollbackPanics \/ Disk
  BY <1>3, PowerFailsKeepsInv, WriteBackKeepsInv, Zenon
     DEF RollbackPanics, Disk
<1>6. CASE StopFails \/ LnFails \/ StartFails
  BY <1>6, CommandFailsKeepsInv, Zenon
<1>4. CASE Service
  BY <1>4, ProcessStartsKeepsInv, ProcessWritesFlagKeepsInv,
     ProcessDiesKeepsInv, Zenon DEF Service
<1>5. CASE UNCHANGED vars
  BY <1>5 DEF vars, script, disk, service, flags, ghosts, IInv, TypeOK,
              DirsKept, LinkFollowsStep, VerdictIsLast, ProcessIsLinked,
              FlagIsV2s
<1> QED BY <1>1, <1>2, <1>3, <1>4, <1>5, <1>6, Zenon DEF Next, ScriptSteps

(* The types of the variables hold at every step. *)
THEOREM OtaTypeOK == Spec => []TypeOK
<1>1. IInv => TypeOK
  BY DEF IInv
<1> QED BY <1>1, InitInv, NextKeepsInv, PTL DEF Spec

(* Without a flag left over from before, the script takes nothing but a    *)
(* good v2 for a success, however processes die and restart under it.      *)
THEOREM OtaFreshFlagIsV2s == Spec => []FreshFlagIsV2s
<1>1. IInv => FreshFlagIsV2s
  BY DEF IInv, FlagIsV2s, FreshFlagIsV2s
<1> QED BY <1>1, InitInv, NextKeepsInv, PTL DEF Spec

(* An upgrade from v1 leaves a complete program behind the link at every   *)
(* step, whichever command or power fails, but while ln replaces the link  *)
(* and, once it has, until the files of v2 have reached the disk.          *)
THEOREM OtaPowerSafeFromV1 == Spec => []PowerSafeFromV1
<1>1. IInv => PowerSafeFromV1
  <2> SUFFICES ASSUME IInv, source = "v1", current # "none",
                      ~(current = "v2" /\ early_cut)
               PROVE  Linked.holds # "broken"
    BY DEF PowerSafeFromV1, IInv, LinkFollowsStep
  <2>1. current \in {"v1", "v2"} /\ current \in links
    BY DEF IInv, TypeOK, Versions
  <2>2. dirs[current] # "broken"
    BY <2>1 DEF IInv, DirsKept
  <2> QED BY <2>1, <2>2 DEF Linked
<1> QED BY <1>1, InitInv, NextKeepsInv, PTL DEF Spec

(* A rollback that was reported ended on the untouched v1, and only power  *)
(* that fails before the link has reached the disk moves it from there.    *)
THEOREM OtaRollbackIsToV1 == Spec => []RollbackIsToV1
<1>1. IInv => RollbackIsToV1
  BY LinkedFacts DEF IInv, DirsKept, VerdictIsLast, RollbackIsToV1
<1> QED BY <1>1, InitInv, NextKeepsInv, PTL DEF Spec

=============================================================================
