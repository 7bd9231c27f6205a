---------------------------- MODULE SmartDevices ----------------------------
(***************************************************************************)
(* The drives that the SmartManager knows and the SMART data it keeps.     *)
(*                                                                         *)
(* A refresh first scans, unless a scan succeeded less than 30 minutes     *)
(* ago: it asks smartctl and sysfs for the drives, merges them with the    *)
(* list it has and with SMART_DEVICES, drops the excluded ones, and drops  *)
(* the data of drives that are not listed.  It then reads each drive of    *)
(* the list.  A drive that sleeps is left asleep if its data is cached.    *)
(* What smartctl says of a type is a guess; once an answer was parsed the  *)
(* type and its parser are verified, and later scans keep them.            *)
(*                                                                         *)
(* Refreshes follow one another (refreshMutex); data is kept by serial     *)
(* number, here by drive.  A drive has the path a scan shows and the path  *)
(* it answers on, which differ for an NVMe controller whose namespace has  *)
(* to be asked; the type a scan shows and the one smartctl reports with    *)
(* the data; and the schema of its data.  Virtual drives, which answer     *)
(* and are ignored, are left out.                                          *)
(***************************************************************************)
EXTENDS Naturals

CONSTANTS
  Drives,           \* [path, answers, scan, type, schema, guessed, sysfs]
  DriveSets,        \* the drives a machine may have
  Settings,         \* [exclude, devices, smartctl]: EXCLUDE_SMART, SMART_DEVICES, its path
  Namespace,        \* the first namespace of each NVMe controller
  MaxDriveChanges,  \* bound on drives that are pulled out or put in
  NoData            \* no data, no SMART_DEVICES, no refresh under way

VARIABLES
  drives,        \* the drives this machine may have
  setting,       \* its settings
  attached,      \* the drives that are there
  asleep,        \* those in standby
  driveChanges,  \* how many were pulled out or put in
  smartDevices,  \* the list
  smartData,     \* smartData[d]: the path and type it was stored with
  excluded,      \* excludedDevices
  scanIsRecent,  \* lastScanTime is less than 30 minutes ago
  refresh        \* the refresh under way: the devices still to read, and the drives
                 \* whose data was cached when it began

hardware == <<drives, setting, attached, asleep, driveChanges>>
smartVars == <<hardware, smartDevices, smartData, excluded, scanIsRecent, refresh>>

Parsers == {"nvme", "sat", "scsi"}
Paths == {d.path : d \in Drives} \cup {d.answers : d \in Drives}
Types == {d.scan : d \in Drives} \cup {d.type : d \in Drives} \cup Parsers \cup {""}
Device == [name : Paths, type : Types, verified : BOOLEAN, parser : Types]
Row == [name : Paths, type : Types]

\* normalizeParserType.
Normal(type) == IF type = "ata" THEN "sat" ELSE type

\* A namespace is an NVMe device: one that answers there has that schema, and none of sysfs
\* does.  The devices and exclusions of the settings are among the paths.
ASSUME SmartAssumption ==
  /\ \A ds \in DriveSets : ds \subseteq Drives
  /\ \A d \in Drives :
       /\ d.schema \in Parsers /\ d.guessed \in BOOLEAN /\ d.sysfs \in BOOLEAN
       /\ d.sysfs => d.type # ""
  /\ \A n \in DOMAIN Namespace :
       /\ Namespace[n] \in Paths
       /\ \A d \in Drives : d.answers = Namespace[n] => d.schema = "nvme" /\ ~ d.sysfs
  /\ \A s \in Settings :
       /\ s.exclude \subseteq Paths
       /\ s.devices # NoData => \A c \in s.devices : c \in Row /\ Normal(c.type) \in Types
  /\ NoData \notin Row
ASSUME ChangesAssumption == MaxDriveChanges \in Nat

SmartTypeOK ==
  /\ drives \in DriveSets
  /\ setting \in Settings
  /\ attached \subseteq drives /\ asleep \subseteq attached
  /\ driveChanges \in 0 .. MaxDriveChanges
  /\ smartDevices \subseteq Device
  /\ \A e \in smartDevices : e.verified => e.parser \in Parsers /\ e.type # ""
  /\ smartData \in [Drives -> Row \cup {NoData}]
  /\ excluded \subseteq Paths
  /\ scanIsRecent \in BOOLEAN
  /\ refresh \in [stage : {"scan", "collect"}, left : SUBSET Device, cached : SUBSET Drives]
                 \cup {NoData}
  /\ refresh # NoData => refresh.left \subseteq smartDevices

SmartInit ==
  /\ drives \in DriveSets
  /\ setting \in Settings
  /\ attached \in {a \in SUBSET drives : \A d, e \in a : d.path = e.path => d = e \/ ~ d.guessed}
  /\ asleep = {}
  /\ driveChanges = 0
  /\ smartDevices = {}
  /\ smartData = [d \in Drives |-> NoData]
  /\ excluded = setting.exclude
  /\ scanIsRecent = FALSE
  /\ refresh = NoData

-----------------------------------------------------------------------------
(* The drives.                                                              *)

\* Two drives share a path only behind a RAID controller.
AttachDrive ==
  /\ driveChanges < MaxDriveChanges
  /\ driveChanges' = driveChanges + 1
  /\ \E d \in drives \ attached :
       /\ \A e \in attached : e.path = d.path => ~ d.guessed
       /\ attached' = attached \cup {d}
  /\ UNCHANGED <<drives, setting, asleep, smartDevices, smartData, excluded, scanIsRecent, refresh>>

DetachDrive ==
  /\ driveChanges < MaxDriveChanges
  /\ driveChanges' = driveChanges + 1
  /\ \E d \in attached : attached' = attached \ {d} /\ asleep' = asleep \ {d}
  /\ UNCHANGED <<drives, setting, smartDevices, smartData, excluded, scanIsRecent, refresh>>

FallAsleep ==
  /\ refresh = NoData
  /\ \E d \in attached : d.schema # "nvme" /\ ~ d.sysfs /\ asleep' = asleep \cup {d}
  /\ UNCHANGED <<drives, setting, attached, driveChanges>>
  /\ UNCHANGED <<smartDevices, smartData, excluded, scanIsRecent, refresh>>

HalfAnHourPasses ==
  /\ refresh = NoData
  /\ scanIsRecent' = FALSE
  /\ UNCHANGED <<hardware, smartDevices, smartData, excluded, refresh>>

-----------------------------------------------------------------------------
(* The list.                                                                *)

Named(list, name) == {e \in list : e.name = name}
Sole(list, name) == \E e \in list : Named(list, name) = {e}
Keyed(list, name, type) == {e \in Named(list, name) : e.type = type}

Unverified(name, type) == [name |-> name, type |-> type, verified |-> FALSE, parser |-> ""]

\* A faulty variant: a device that is known is found by its path and type only.
PreviousByKey(list, dev) == Keyed(list, dev.name, dev.type)

\* The entry that dev had before: by path and type, else by a path that occurs once.
Previous(list, dev) ==
  IF Keyed(list, dev.name, dev.type) # {} THEN Keyed(list, dev.name, dev.type)
  ELSE IF Sole(list, dev.name) THEN Named(list, dev.name)
  ELSE {}

\* preserveVerifiedType.
Preserved(list, dev) ==
  IF \E e \in Previous(list, dev) : e.verified
    THEN CHOOSE e \in Previous(list, dev) : e.verified
    ELSE dev

\* The entry of the scanned list that the configured device c is about.
About(list, c) ==
  IF Keyed(list, c.name, c.type) # {} THEN Keyed(list, c.name, c.type)
  ELSE IF Sole(list, c.name) THEN Named(list, c.name)
  ELSE {}

\* applyConfiguredMetadata; SMART_DEVICES names a device once.
Configured(list, conf, e) ==
  IF \E c \in conf : e \in About(list, c) /\ c.type # "" /\ ~ e.verified
    THEN LET c == CHOOSE c \in conf : e \in About(list, c)
         IN [e EXCEPT !.type = c.type, !.parser = Normal(c.type)]
    ELSE e

\* A configured device that no scan has shown.
Added(list, c) ==
  IF Previous(list, Unverified(c.name, c.type)) # {}
    THEN Preserved(list, Unverified(c.name, c.type))
    ELSE [Unverified(c.name, c.type) EXCEPT !.parser = Normal(c.type)]

MergeDeviceLists(existing, scanned, conf) ==
  IF scanned = {} /\ conf = {}
    THEN existing
    ELSE LET found == {Preserved(existing, s) : s \in scanned}
         IN {Configured(found, conf, e) : e \in found}
              \cup {Added(existing, c) : c \in {x \in conf : About(found, x) = {}}}

FilterExcluded(list) == {e \in list : e.name \notin excluded}

\* A faulty variant: data is kept when its path occurs once in the list.
KeptBySole(list, row) == Sole(list, row.name)

\* updateSmartDevices: data is kept when its path and type are listed.
Kept(list, row) ==
  IF row.type = "" THEN Sole(list, row.name) ELSE Keyed(list, row.name, row.type) # {}

Scanned(sources) == {Unverified(d.path, d.scan) : d \in sources}

Cached == {d \in Drives : smartData[d] # NoData}

\* A refresh begins; one that is forced always scans.
BeginRefresh ==
  /\ refresh = NoData
  /\ \E force \in BOOLEAN :
       refresh' = IF scanIsRecent /\ ~ force
                    THEN [stage |-> "collect", left |-> smartDevices, cached |-> Cached]
                    ELSE [stage |-> "scan", left |-> {}, cached |-> Cached]
  /\ UNCHANGED <<hardware, smartDevices, smartData, excluded, scanIsRecent>>

\* ScanDevices: smartctl answers or fails, sysfs is read in any case.  SMART_DEVICES set to
\* nothing ends the scan before the list is touched; drives are read all the same.
ScanDevices ==
  /\ refresh # NoData /\ refresh.stage = "scan"
  /\ IF setting.devices = {}
       THEN /\ refresh' = [refresh EXCEPT !.stage = "collect", !.left = smartDevices]
            /\ UNCHANGED <<smartDevices, smartData, scanIsRecent>>
       ELSE \E answered \in {TRUE, FALSE} \cap {setting.smartctl, FALSE} :
              LET sources == {d \in attached : d.sysfs \/ answered}
                  conf == IF setting.devices = NoData THEN {} ELSE setting.devices
                  list == FilterExcluded(MergeDeviceLists(smartDevices, Scanned(sources), conf))
              IN /\ smartDevices' = list
                 /\ smartData' = [d \in Drives |->
                      IF smartData[d] # NoData /\ ~ Kept(list, smartData[d])
                        THEN NoData ELSE smartData[d]]
                 /\ scanIsRecent' = IF list = {} THEN scanIsRecent ELSE TRUE
                 /\ refresh' = [refresh EXCEPT !.stage = "collect", !.left = list]
  /\ UNCHANGED <<hardware, excluded>>

\* The context is done, or one command takes longer than its timeout, which ends the
\* refresh as well; or all devices are read.
EndRefresh ==
  /\ refresh # NoData
  /\ refresh' = NoData
  /\ UNCHANGED <<hardware, smartDevices, smartData, excluded, scanIsRecent>>

-----------------------------------------------------------------------------
(* Reading a drive.                                                         *)

\* smartctlArgs: types that a scan gets wrong are not passed on.
Answering(name, type) ==
  {d \in attached : /\ ~ d.sysfs
                    /\ d.answers = name
                    /\ type = d.type \/ (type \in {"", "scsi", "ata"} /\ d.guessed)}

HasDataForDevice(name) == \E d \in Drives : smartData[d] # NoData /\ smartData[d].name = name

\* A faulty variant: the type of a device names its parser.
KindOfType(e, schema) == Normal(e.type)

\* parseSmartOutput: the schema of an answer is looked at until a parser has succeeded.
Detects(e) == ~ e.verified \/ e.parser = ""
Kind(e, schema) == IF Detects(e) THEN schema ELSE e.parser
Typed(e, schema) == IF Detects(e) /\ e.type \in {"", schema} THEN schema ELSE e.type

Parsed(e, schema) ==
  [e EXCEPT !.type = Typed(e, schema), !.verified = TRUE, !.parser = Kind(e, schema)]
NotParsed(e, schema) ==
  [e EXCEPT !.type = Typed(e, schema), !.verified = FALSE, !.parser = Kind(e, schema)]

\* The entry e has become f, and is done with.
Replace(e, f) ==
  /\ smartDevices' = (smartDevices \ {e}) \cup {f}
  /\ refresh' = [refresh EXCEPT !.left = @ \ {e}]
  /\ UNCHANGED <<drives, setting, attached, driveChanges, scanIsRecent>>

\* The drive d has answered as f.
Store(d, f) ==
  /\ smartData' = [smartData EXCEPT ![d] = [name |-> f.name, type |-> d.type]]
  /\ asleep' = asleep \ {d}

Reading(e) ==
  /\ refresh # NoData /\ refresh.stage = "collect"
  /\ e \in refresh.left
  /\ e.name \notin excluded

\* Excluded devices, and those that only a missing smartctl can read, are passed over.
FromSysfs(e) == {d \in attached : d.sysfs /\ d.answers = e.name}
SkipDevice(e) ==
  /\ refresh # NoData /\ refresh.stage = "collect"
  /\ e \in refresh.left
  /\ e.name \in excluded \/ (~ setting.smartctl /\ FromSysfs(e) = {})
  /\ Replace(e, e)
  /\ UNCHANGED <<asleep, smartData, excluded>>

\* collectMdraidHealth, collectEmmcHealth.
ReadSysfs(e) ==
  /\ Reading(e)
  /\ \E d \in FromSysfs(e) :
       LET f == [e EXCEPT !.type = d.type] IN Replace(e, f) /\ Store(d, f)
  /\ UNCHANGED excluded

Asking(e) == Reading(e) /\ setting.smartctl /\ FromSysfs(e) = {}

WithStandby(e) == HasDataForDevice(e.name)

\* Exit status 2: the drive sleeps, or cannot be opened, and its data is cached.
LeaveAsleep(e) ==
  /\ Asking(e)
  /\ WithStandby(e)
  /\ Answering(e.name, e.type) \subseteq asleep
  /\ Replace(e, e)
  /\ UNCHANGED <<asleep, smartData, excluded>>

\* The drive answers, awake, or woken because nothing is cached.
ReadDrive(e) ==
  /\ Asking(e)
  /\ \E d \in Answering(e.name, e.type) :
       /\ d \in asleep => ~ WithStandby(e)
       /\ Replace(e, Parsed(e, d.schema))
       /\ Store(d, e)
  /\ UNCHANGED excluded

\* A faulty variant: the namespace is asked without a look at the exclusions.
FallbackAlways(e) == e.name \in DOMAIN Namespace

\* The namespace may be asked in place of its controller.
Fallback(e) == e.name \in DOMAIN Namespace /\ Namespace[e.name] \notin excluded

\* The output has no data; it may have no section to tell the schema by, or be no JSON.  If
\* smartctl said that it failed, which it may not, a controller's namespace is asked: the
\* controller is renamed for good, and excluded if its namespace answers.
ReadFails(e) ==
  /\ Asking(e)
  /\ \E schema \in {"sat", ""} :
       LET failed == NotParsed(e, schema)
           renamed == [failed EXCEPT !.name = Namespace[e.name]]
       IN \/ /\ Replace(e, failed)
             /\ UNCHANGED <<asleep, smartData, excluded>>
          \/ /\ Fallback(e)
             /\ \E d \in Answering(renamed.name, renamed.type) :
                  /\ Replace(e, Parsed(renamed, d.schema))
                  /\ Store(d, renamed)
             /\ excluded' = excluded \cup {e.name}
          \/ /\ Fallback(e)
             /\ \E again \in {"sat", ""} : Replace(e, NotParsed(renamed, again))
             /\ UNCHANGED <<asleep, smartData, excluded>>

\* The fallback runs into its timeout, or the context is done: the controller is renamed.
FallbackCutOff(e) ==
  /\ Asking(e)
  /\ Fallback(e)
  /\ \E schema \in {"sat", ""} :
       smartDevices' = (smartDevices \ {e})
                         \cup {[NotParsed(e, schema) EXCEPT !.name = Namespace[e.name]]}
  /\ refresh' = NoData
  /\ UNCHANGED <<hardware, smartData, excluded, scanIsRecent>>

-----------------------------------------------------------------------------
SmartNext ==
  \/ AttachDrive
  \/ DetachDrive
  \/ FallAsleep
  \/ HalfAnHourPasses
  \/ BeginRefresh
  \/ ScanDevices
  \/ EndRefresh
  \/ \E e \in smartDevices :
       SkipDevice(e) \/ ReadSysfs(e) \/ LeaveAsleep(e) \/ ReadDrive(e)
         \/ ReadFails(e) \/ FallbackCutOff(e)

SmartSpec == SmartInit /\ [][SmartNext]_smartVars

-----------------------------------------------------------------------------
(* Properties.                                                              *)

(***************************************************************************)
(* Nothing is ever read from a device that EXCLUDE_SMART names, although   *)
(* devices are renamed while they are read and probed under names that no  *)
(* scan has shown (smart.go, CollectSmart).                                *)
(***************************************************************************)
ExcludedNeverRead ==
  \A d \in Drives : smartData[d] # NoData => smartData[d].name \notin setting.exclude

(***************************************************************************)
(* "Subsequent scans/config updates never downgrade a previously verified  *)
(* device" (smart.go, preserveVerifiedType), as long as its path is the    *)
(* only one of that name in the lists before and after the scan, nor drop  *)
(* the data that was stored under its path and its type.  (A drive whose   *)
(* data came with another type than its entry has, such as one scanned as  *)
(* scsi that answers as sat, is not covered: updateSmartDevices drops its  *)
(* data at every scan.)                                                    *)
(***************************************************************************)
VerifiedDevicesStay ==
  [][refresh # NoData /\ refresh.stage = "scan" =>
       \A e \in smartDevices, f \in smartDevices' :
         e.verified /\ e.name = f.name /\ Sole(smartDevices, e.name) /\ Sole(smartDevices', e.name)
           => /\ f = e
              /\ \A d \in Drives :
                   smartData[d] = [name |-> e.name, type |-> e.type] => smartData'[d] # NoData]_smartVars

(***************************************************************************)
(* A refresh wakes no drive whose data was cached when it began ("-n       *)
(* standby" of CollectSmart), whether it scans or not and whatever else it *)
(* renames, drops or reads first, as long as the drive is still to be read *)
(* by the path and the type its data came with.  (One that the list knows  *)
(* by another type has lost its data to the refresh's own scan, and may be *)
(* woken.)                                                                 *)
(***************************************************************************)
SleepersAreLeftAlone ==
  [][refresh # NoData =>
       \A d \in asleep \cap refresh.cached, e \in refresh.left :
         e.name = d.answers /\ e.type = d.type /\ e.type # "" /\ d \in attached'
           => d \in asleep']_smartVars

=============================================================================
