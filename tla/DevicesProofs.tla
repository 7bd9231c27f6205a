--------------------------- MODULE DevicesProofs ---------------------------
(***************************************************************************)
(* Proofs about SmartDevices and GpuSamples, for all drives, settings and  *)
(* GPUs: what the SmartManager may read, wake and forget, and which        *)
(* samples an entry of the GPUManager sums and a report covers.            *)
(***************************************************************************)
EXTENDS SmartDevices, GpuSamples, FiniteSetTheorems, SequenceTheorems, TLAPS

-----------------------------------------------------------------------------
(* The list of devices.                                                     *)

\* What the proofs need of the members of the list beside their types.
VerifiedHasParser(e) == e.verified => e.parser \in Parsers /\ e.type # ""
WellFormed(list) == list \subseteq Device /\ \A e \in list : VerifiedHasParser(e)

LEMMA ParsersAreTypes == Parsers \subseteq Types /\ "" \in Types
  BY DEF Types, Parsers

\* A device that was just listed.
LEMMA UnverifiedIsDevice ==
  ASSUME NEW name \in Paths, NEW type \in Types
  PROVE  /\ Unverified(name, type) \in Device
         /\ ~ Unverified(name, type).verified
         /\ Unverified(name, type).name = name
  BY ParsersAreTypes DEF Unverified, Device

\* preserveVerifiedType returns the device or one of that path that is in the list.
LEMMA PreservedIsListed ==
  ASSUME NEW list, NEW dev
  PROVE  /\ Preserved(list, dev) \in list \cup {dev}
         /\ Preserved(list, dev).name = dev.name
  <1>1. \A e \in Previous(list, dev) : e \in list /\ e.name = dev.name
    BY DEF Previous, Keyed, Named
  <1>2. CASE \E e \in Previous(list, dev) : e.verified
    <2>1. Preserved(list, dev) \in Previous(list, dev)
      BY <1>2 DEF Preserved
    <2> QED
      BY <1>1, <2>1
  <1>3. CASE ~ \E e \in Previous(list, dev) : e.verified
    BY <1>3 DEF Preserved
  <1> QED
    BY <1>2, <1>3

\* A device that SMART_DEVICES may name.
Configurable(conf) == \A c \in conf : c \in Row /\ Normal(c.type) \in Types

\* applyConfiguredMetadata keeps the path, and every verified device as it is.
LEMMA ConfiguredIsDevice ==
  ASSUME NEW list, NEW conf, Configurable(conf), NEW e \in Device
  PROVE  /\ Configured(list, conf, e) \in Device
         /\ Configured(list, conf, e).name = e.name
         /\ e.verified => Configured(list, conf, e) = e
         /\ Configured(list, conf, e).verified = e.verified
  <1>1. CASE \E c \in conf : e \in About(list, c) /\ c.type # "" /\ ~ e.verified
    <2> DEFINE c == CHOOSE c \in conf : e \in About(list, c)
    <2>1. c \in conf
      BY <1>1
    <2>2. Configured(list, conf, e) = [e EXCEPT !.type = c.type, !.parser = Normal(c.type)]
      BY <1>1 DEF Configured
    <2>3. c.type \in Types /\ Normal(c.type) \in Types
      BY <2>1 DEF Configurable, Row
    <2> HIDE DEF c
    <2> QED
      BY <1>1, <2>2, <2>3 DEF Device
  <1>2. CASE ~ \E c \in conf : e \in About(list, c) /\ c.type # "" /\ ~ e.verified
    BY <1>2 DEF Configured
  <1> QED
    BY <1>1, <1>2

\* A configured device is added as it was, or unverified.
LEMMA AddedIsDevice ==
  ASSUME NEW list, WellFormed(list), NEW c \in Row, Normal(c.type) \in Types
  PROVE  Added(list, c) \in Device /\ VerifiedHasParser(Added(list, c)) /\ Added(list, c).name = c.name
  <1> DEFINE dev == Unverified(c.name, c.type)
  <1>1. dev \in Device /\ ~ dev.verified /\ dev.name = c.name
    BY UnverifiedIsDevice DEF Row
  <1> HIDE DEF dev
  <1>2. CASE Previous(list, dev) # {}
    BY <1>1, <1>2, PreservedIsListed DEF Added, WellFormed, VerifiedHasParser, dev
  <1>3. CASE Previous(list, dev) = {}
    <2>1. Added(list, c) = [dev EXCEPT !.parser = Normal(c.type)]
      BY <1>3 DEF Added, dev
    <2> QED
      BY <1>1, <2>1 DEF Device, VerifiedHasParser
  <1> QED
    BY <1>2, <1>3

\* Merging well-formed lists gives one.
LEMMA MergeIsWellFormed ==
  ASSUME NEW list, WellFormed(list), NEW scanned, WellFormed(scanned),
         NEW conf, Configurable(conf)
  PROVE  WellFormed(MergeDeviceLists(list, scanned, conf))
  <1>1. CASE scanned = {} /\ conf = {}
    BY <1>1 DEF MergeDeviceLists
  <1>2. CASE ~ (scanned = {} /\ conf = {})
    <2> DEFINE found == {Preserved(list, s) : s \in scanned}
               kept == {Configured(found, conf, e) : e \in found}
               added == {Added(list, c) : c \in {x \in conf : About(found, x) = {}}}
    <2>1. MergeDeviceLists(list, scanned, conf) = kept \cup added
      BY <1>2 DEF MergeDeviceLists
    <2>2. \A e \in found : e \in Device /\ VerifiedHasParser(e)
      BY PreservedIsListed DEF WellFormed
    <2>3. \A e \in kept : e \in Device /\ VerifiedHasParser(e)
      <3> SUFFICES ASSUME NEW e \in found
                   PROVE  /\ Configured(found, conf, e) \in Device
                          /\ VerifiedHasParser(Configured(found, conf, e))
        OBVIOUS
      <3> DEFINE f == Configured(found, conf, e)
      <3>1. e \in Device /\ VerifiedHasParser(e)
        BY <2>2
      <3>2. /\ f \in Device
            /\ e.verified => f = e
            /\ f.verified = e.verified
        BY <3>1, ConfiguredIsDevice
      <3> QED
        BY <3>1, <3>2 DEF VerifiedHasParser
    <2>4. \A e \in added : e \in Device /\ VerifiedHasParser(e)
      BY AddedIsDevice DEF Configurable
    <2> HIDE DEF kept, added
    <2> QED
      BY <2>1, <2>3, <2>4 DEF WellFormed
  <1> QED
    BY <1>1, <1>2

-----------------------------------------------------------------------------
(* Reading devices.                                                         *)

\* What parseSmartOutput makes of a device, and what it leaves when it fails.
LEMMA ParsedIsDevice ==
  ASSUME NEW e \in Device, VerifiedHasParser(e), NEW schema \in Parsers
  PROVE  /\ Parsed(e, schema) \in Device
         /\ VerifiedHasParser(Parsed(e, schema))
         /\ Parsed(e, schema).name = e.name
  <1>1. Typed(e, schema) \in Types /\ Typed(e, schema) # ""
    BY ParsersAreTypes DEF Typed, Detects, Device, Parsers, VerifiedHasParser
  <1>2. Kind(e, schema) \in Parsers
    BY ParsersAreTypes DEF Kind, Detects, Device, VerifiedHasParser
  <1> QED
    BY <1>1, <1>2, ParsersAreTypes DEF Parsed, Device, VerifiedHasParser

LEMMA NotParsedIsDevice ==
  ASSUME NEW e \in Device, NEW schema \in Parsers \cup {""}
  PROVE  /\ NotParsed(e, schema) \in Device
         /\ ~ NotParsed(e, schema).verified
         /\ NotParsed(e, schema).name = e.name
  <1>1. Typed(e, schema) \in Types /\ Kind(e, schema) \in Types
    BY ParsersAreTypes DEF Typed, Kind, Device
  <1> QED
    BY <1>1 DEF NotParsed, Device

\* A controller that was not parsed and is called by its namespace.
LEMMA RenamedIsDevice ==
  ASSUME NEW e \in Device, NEW schema \in Parsers \cup {""}, e.name \in DOMAIN Namespace
  PROVE  LET f == [NotParsed(e, schema) EXCEPT !.name = Namespace[e.name]]
         IN f \in Device /\ VerifiedHasParser(f) /\ f.name = Namespace[e.name]
  <1>1. Namespace[e.name] \in Paths
    BY SmartAssumption
  <1> QED
    BY <1>1, NotParsedIsDevice DEF Device, VerifiedHasParser

\* The types of the list and of the refresh under way.
ListOK ==
  /\ WellFormed(smartDevices)
  /\ refresh \in [stage : {"scan", "collect"}, left : SUBSET Device, cached : SUBSET Drives]
                 \cup {NoData}
  /\ refresh # NoData => refresh.left \subseteq smartDevices

\* A device of the list that was read, or passed over, is replaced by a well-formed one.
LEMMA ReplaceKeepsList ==
  ASSUME ListOK, refresh # NoData, NEW e, NEW f \in Device, VerifiedHasParser(f), Replace(e, f)
  PROVE  ListOK'
  <1>1. refresh' = [refresh EXCEPT !.left = @ \ {e}] /\ smartDevices' = (smartDevices \ {e}) \cup {f}
    BY DEF Replace
  <1>2. refresh' \in [stage : {"scan", "collect"}, left : SUBSET Device, cached : SUBSET Drives]
        /\ refresh'.left = refresh.left \ {e}
    BY <1>1 DEF ListOK
  <1> QED
    BY <1>1, <1>2 DEF ListOK, WellFormed

(***************************************************************************)
(* The inductive invariant.  EXCLUDE_SMART stays excluded; data is stored  *)
(* under the path the drive answers on, so that WithStandby, which looks   *)
(* for data of a path, finds that of the drive that would answer; and what *)
(* sleeps is no NVMe drive, so the fallback, which does not pass           *)
(* "-n standby", wakes nothing.                                            *)
(***************************************************************************)
SmartInv ==
  /\ SmartTypeOK
  /\ setting.exclude \subseteq excluded
  /\ ExcludedNeverRead
  /\ \A d \in Drives : smartData[d] # NoData => smartData[d].name = d.answers
  /\ \A d \in asleep : d.schema # "nvme" /\ ~ d.sysfs

\* A drive that answered as f has data of that name, and is awake.
LEMMA StoreKeepsInv ==
  ASSUME SmartInv, NEW d \in attached, NEW f \in Device, f.name = d.answers,
         f.name \notin setting.exclude, Store(d, f), UNCHANGED <<setting, attached>>
  PROVE  /\ smartData' \in [Drives -> Row \cup {NoData}]
         /\ ExcludedNeverRead'
         /\ \A x \in Drives : smartData'[x] # NoData => smartData'[x].name = x.answers
         /\ asleep' \subseteq asleep
  <1> USE DEF SmartInv, SmartTypeOK, Store, Device, Row
  <1>1. d \in Drives /\ d.type \in Types
    BY SmartAssumption DEF Types
  <1>2. [name |-> f.name, type |-> d.type] \in Row
    BY <1>1
  <1> QED
    BY <1>1, <1>2 DEF ExcludedNeverRead

-----------------------------------------------------------------------------
(* The steps.                                                               *)

LEMMA SmartInitInv == SmartInit => SmartInv
  <1> SUFFICES ASSUME SmartInit PROVE SmartInv
    OBVIOUS
  <1>1. driveChanges \in 0 .. MaxDriveChanges
    BY ChangesAssumption DEF SmartInit
  <1>2. excluded \subseteq Paths
    BY SmartAssumption DEF SmartInit
  <1>3. attached \subseteq drives
    BY DEF SmartInit
  <1> QED
    BY <1>1, <1>2, <1>3 DEF SmartInit, SmartInv, SmartTypeOK, ExcludedNeverRead

\* What the sources of a scan show.
LEMMA ScannedIsWellFormed ==
  ASSUME SmartInv, NEW sources, sources \subseteq attached
  PROVE  WellFormed(Scanned(sources))
  <1> SUFFICES ASSUME NEW d \in sources
               PROVE  /\ Unverified(d.path, d.scan) \in Device
                      /\ VerifiedHasParser(Unverified(d.path, d.scan))
    BY DEF Scanned, WellFormed
  <1>1. d.path \in Paths /\ d.scan \in Types
    BY SmartAssumption DEF SmartInv, SmartTypeOK, Paths, Types
  <1> QED
    BY <1>1, UnverifiedIsDevice DEF VerifiedHasParser

\* The list that a scan leaves.
LEMMA ScanIsWellFormed ==
  ASSUME SmartInv, NEW sources, sources \subseteq attached,
         NEW conf, conf = (IF setting.devices = NoData THEN {} ELSE setting.devices)
  PROVE  WellFormed(FilterExcluded(MergeDeviceLists(smartDevices, Scanned(sources), conf)))
  <1>1. WellFormed(smartDevices)
    BY DEF SmartInv, SmartTypeOK, WellFormed, VerifiedHasParser
  <1>2. WellFormed(Scanned(sources))
    BY ScannedIsWellFormed
  <1>3. Configurable(conf)
    BY SmartAssumption DEF SmartInv, SmartTypeOK, Configurable
  <1>4. WellFormed(MergeDeviceLists(smartDevices, Scanned(sources), conf))
    BY <1>1, <1>2, <1>3, MergeIsWellFormed
  <1> QED
    BY <1>4 DEF FilterExcluded, WellFormed

\* Every step keeps the invariant.
LEMMA SmartStep == SmartInv /\ [SmartNext]_smartVars => SmartInv'
  <1> SUFFICES ASSUME SmartInv, [SmartNext]_smartVars PROVE SmartInv'
    OBVIOUS
  <1>0. ListOK
    BY DEF SmartInv, SmartTypeOK, ListOK, WellFormed, VerifiedHasParser
  <1>a. ASSUME ListOK', UNCHANGED <<drives, setting, attached, driveChanges, scanIsRecent>>,
               asleep' \subseteq asleep, excluded' = excluded,
               \/ UNCHANGED smartData
               \/ /\ smartData' \in [Drives -> Row \cup {NoData}]
                  /\ ExcludedNeverRead'
                  /\ \A d \in Drives : smartData'[d] # NoData => smartData'[d].name = d.answers
        PROVE  SmartInv'
    BY <1>a DEF SmartInv, SmartTypeOK, ListOK, WellFormed, VerifiedHasParser, ExcludedNeverRead
  <1>1. CASE AttachDrive
    <2>0. driveChanges \in 0 .. MaxDriveChanges /\ driveChanges < MaxDriveChanges
          /\ driveChanges' = driveChanges + 1
      BY <1>1 DEF AttachDrive, SmartInv, SmartTypeOK
    <2>1. driveChanges' \in 0 .. MaxDriveChanges
      BY <2>0, ChangesAssumption
    <2> QED
      BY <1>1, <2>1 DEF AttachDrive, SmartInv, SmartTypeOK, ExcludedNeverRead
  <1>2. CASE DetachDrive
    <2>0. driveChanges \in 0 .. MaxDriveChanges /\ driveChanges < MaxDriveChanges
          /\ driveChanges' = driveChanges + 1
      BY <1>2 DEF DetachDrive, SmartInv, SmartTypeOK
    <2>1. driveChanges' \in 0 .. MaxDriveChanges
      BY <2>0, ChangesAssumption
    <2> QED
      BY <1>2, <2>1 DEF DetachDrive, SmartInv, SmartTypeOK, ExcludedNeverRead
  <1>3. CASE FallAsleep
    BY <1>3 DEF FallAsleep, SmartInv, SmartTypeOK, ExcludedNeverRead
  <1>4. CASE HalfAnHourPasses
    BY <1>4 DEF HalfAnHourPasses, hardware, SmartInv, SmartTypeOK, ExcludedNeverRead
  <1>5. CASE BeginRefresh
    <2>1. ListOK'
      BY <1>0, <1>5 DEF BeginRefresh, Cached, ListOK, WellFormed
    <2> QED
      BY <1>5, <1>a, <2>1 DEF BeginRefresh, hardware
  <1>6. CASE ScanDevices
    <2>1. CASE setting.devices = {}
      <3>1. ListOK' /\ UNCHANGED <<smartDevices, smartData, scanIsRecent>>
        BY <1>0, <1>6, <2>1 DEF ScanDevices, ListOK, WellFormed
      <3> QED
        BY <1>6, <1>a, <3>1 DEF ScanDevices, hardware
    <2>2. CASE setting.devices # {}
      <3> DEFINE conf == IF setting.devices = NoData THEN {} ELSE setting.devices
      <3>1. PICK answered \in {TRUE, FALSE} \cap {setting.smartctl, FALSE} :
              LET sources == {d \in attached : d.sysfs \/ answered}
                  list == FilterExcluded(MergeDeviceLists(smartDevices, Scanned(sources), conf))
              IN /\ smartDevices' = list
                 /\ smartData' = [d \in Drives |->
                      IF smartData[d] # NoData /\ ~ Kept(list, smartData[d])
                        THEN NoData ELSE smartData[d]]
                 /\ scanIsRecent' = IF list = {} THEN scanIsRecent ELSE TRUE
                 /\ refresh' = [refresh EXCEPT !.stage = "collect", !.left = list]
        BY <1>6, <2>2 DEF ScanDevices
      <3> DEFINE sources == {d \in attached : d.sysfs \/ answered}
                 list == FilterExcluded(MergeDeviceLists(smartDevices, Scanned(sources), conf))
      <3>2. WellFormed(list)
        BY ScanIsWellFormed
      <3> HIDE DEF list
      <3>3. ListOK'
        <4>1. refresh # NoData
          BY <1>6 DEF ScanDevices
        <4>2. smartDevices' = list
          BY <3>1 DEF list
        <4>3. refresh' = [refresh EXCEPT !.stage = "collect", !.left = list]
          BY <3>1 DEF list
        <4>4. /\ refresh' \in [stage : {"scan", "collect"}, left : SUBSET Device,
                                cached : SUBSET Drives]
              /\ refresh'.left = list
          BY <1>0, <3>2, <4>1, <4>3 DEF ListOK, WellFormed
        <4> QED
          BY <3>2, <4>2, <4>4 DEF ListOK, WellFormed
      <3>4. \A d \in Drives : smartData'[d] \in {NoData, smartData[d]}
        BY <3>1
      <3>5. smartData' \in [Drives -> Row \cup {NoData}]
        BY <3>1 DEF SmartInv, SmartTypeOK
      <3>6. scanIsRecent' \in BOOLEAN
        BY <3>1 DEF SmartInv, SmartTypeOK
      <3> QED
        BY <1>6, <3>3, <3>4, <3>5, <3>6
        DEF ScanDevices, hardware, SmartInv, SmartTypeOK, ListOK, WellFormed, VerifiedHasParser, ExcludedNeverRead
    <2> QED
      BY <2>1, <2>2
  <1>7. CASE EndRefresh
    BY <1>7 DEF EndRefresh, hardware, SmartInv, SmartTypeOK, ExcludedNeverRead
  <1>8. ASSUME NEW e \in smartDevices,
               \/ SkipDevice(e) \/ ReadSysfs(e) \/ LeaveAsleep(e) \/ ReadDrive(e)
               \/ ReadFails(e) \/ FallbackCutOff(e)
        PROVE  SmartInv'
    <2>0. e \in Device /\ VerifiedHasParser(e)
      BY <1>0 DEF ListOK, WellFormed
    <2>1. CASE SkipDevice(e)
      <3>1. ListOK'
        BY <1>0, <2>0, <2>1, ReplaceKeepsList DEF SkipDevice
      <3> QED
        BY <1>a, <2>1, <3>1 DEF SkipDevice, Replace
    <2>2. CASE ReadSysfs(e)
      <3>1. PICK d \in FromSysfs(e) :
              LET f == [e EXCEPT !.type = d.type] IN Replace(e, f) /\ Store(d, f)
        BY <2>2 DEF ReadSysfs
      <3> DEFINE f == [e EXCEPT !.type = d.type]
      <3>2. d \in attached /\ d \in Drives /\ d.sysfs /\ d.answers = e.name
        BY SmartAssumption DEF FromSysfs, SmartInv, SmartTypeOK
      <3>3. d.type \in Types /\ d.type # ""
        BY <3>2, SmartAssumption DEF Types
      <3>4. f \in Device /\ VerifiedHasParser(f) /\ f.name = e.name
        BY <2>0, <3>3 DEF Device, VerifiedHasParser
      <3> HIDE DEF f
      <3>5. f.name \notin setting.exclude /\ refresh # NoData
        BY <2>2, <3>4 DEF ReadSysfs, Reading, SmartInv
      <3>6. ListOK'
        BY <1>0, <3>1, <3>4, <3>5, ReplaceKeepsList DEF f
      <3> QED
        BY <1>a, <2>2, <3>1, <3>2, <3>4, <3>5, <3>6, StoreKeepsInv DEF ReadSysfs, Replace, f
    <2>3. CASE LeaveAsleep(e)
      <3>1. ListOK'
        BY <1>0, <2>0, <2>3, ReplaceKeepsList DEF LeaveAsleep, Asking, Reading
      <3> QED
        BY <1>a, <2>3, <3>1 DEF LeaveAsleep, Replace
    <2>4. CASE ReadDrive(e)
      <3>1. PICK d \in Answering(e.name, e.type) : Replace(e, Parsed(e, d.schema)) /\ Store(d, e)
        BY <2>4 DEF ReadDrive
      <3>2. d \in attached /\ d \in Drives /\ d.answers = e.name
        BY SmartAssumption DEF Answering, SmartInv, SmartTypeOK
      <3>3. Parsed(e, d.schema) \in Device /\ VerifiedHasParser(Parsed(e, d.schema))
        BY <2>0, <3>2, SmartAssumption, ParsedIsDevice
      <3>4. e.name \notin setting.exclude /\ refresh # NoData
        BY <2>4 DEF ReadDrive, Asking, Reading, SmartInv
      <3>5. ListOK'
        BY <1>0, <3>1, <3>3, <3>4, ReplaceKeepsList
      <3> QED
        BY <1>a, <2>0, <2>4, <3>1, <3>2, <3>4, <3>5, StoreKeepsInv DEF ReadDrive, Replace
    <2>5. CASE ReadFails(e)
      <3>0. refresh # NoData
        BY <2>5 DEF ReadFails, Asking, Reading
      <3>1. PICK schema \in {"sat", ""} :
             LET failed == NotParsed(e, schema)
                 renamed == [failed EXCEPT !.name = Namespace[e.name]]
             IN \/ /\ Replace(e, failed)
                   /\ UNCHANGED <<asleep, smartData, excluded>>
                \/ /\ Fallback(e)
                   /\ \E d \in Answering(renamed.name, renamed.type) :
                        /\ Replace(e, Parsed(renamed, d.schema))
                        /\ Store(d, renamed)
                   /\ excluded' = excluded \cup {e.name}
                \/ /\ Fallback(e)
                   /\ \E again \in {"sat", ""} : Replace(e, NotParsed(renamed, again))
                   /\ UNCHANGED <<asleep, smartData, excluded>>
        BY <2>5 DEF ReadFails
      <3> DEFINE failed == NotParsed(e, schema)
                 renamed == [failed EXCEPT !.name = Namespace[e.name]]
      <3>2. schema \in Parsers \cup {""}
        BY DEF Parsers
      <3>3. failed \in Device /\ VerifiedHasParser(failed)
        BY <2>0, <3>2, NotParsedIsDevice DEF VerifiedHasParser
      <3>4. Fallback(e) => renamed \in Device /\ VerifiedHasParser(renamed)
                           /\ renamed.name = Namespace[e.name]
        BY <2>0, <3>2, RenamedIsDevice DEF Fallback
      <3> HIDE DEF failed, renamed
      <3>5. CASE Replace(e, failed) /\ UNCHANGED <<asleep, smartData, excluded>>
        <4>1. ListOK'
          BY <1>0, <3>0, <3>3, <3>5, ReplaceKeepsList
        <4> QED
          BY <1>a, <3>5, <4>1 DEF Replace
      <3>6. ASSUME Fallback(e), NEW d \in Answering(renamed.name, renamed.type),
                   Replace(e, Parsed(renamed, d.schema)), Store(d, renamed),
                   excluded' = excluded \cup {e.name}
            PROVE  SmartInv'
        <4>1. d \in attached /\ d \in Drives /\ d.answers = renamed.name
          BY SmartAssumption DEF Answering, SmartInv, SmartTypeOK
        <4>2. Parsed(renamed, d.schema) \in Device /\ VerifiedHasParser(Parsed(renamed, d.schema))
          BY <3>4, <3>6, <4>1, SmartAssumption, ParsedIsDevice
        <4>3. ListOK'
          BY <1>0, <3>0, <3>6, <4>2, ReplaceKeepsList
        <4>4. renamed.name \notin setting.exclude
          BY <3>4, <3>6 DEF Fallback, SmartInv
        <4>5. /\ smartData' \in [Drives -> Row \cup {NoData}]
              /\ ExcludedNeverRead'
              /\ \A x \in Drives : smartData'[x] # NoData => smartData'[x].name = x.answers
              /\ asleep' \subseteq asleep
          BY <3>4, <3>6, <4>1, <4>4, StoreKeepsInv DEF Replace
        <4>6. excluded' \subseteq Paths
          BY <2>0, <3>6 DEF SmartInv, SmartTypeOK, Device
        <4> QED
          BY <3>6, <4>3, <4>5, <4>6
          DEF Replace, SmartInv, SmartTypeOK, ListOK, WellFormed, VerifiedHasParser
      <3>7. ASSUME Fallback(e), NEW again \in {"sat", ""}, Replace(e, NotParsed(renamed, again)),
                   UNCHANGED <<asleep, smartData, excluded>>
            PROVE  SmartInv'
        <4>1. again \in Parsers \cup {""}
          BY DEF Parsers
        <4>2. NotParsed(renamed, again) \in Device /\ VerifiedHasParser(NotParsed(renamed, again))
          BY <3>4, <3>7, <4>1, NotParsedIsDevice DEF VerifiedHasParser
        <4>3. ListOK'
          BY <1>0, <3>0, <3>7, <4>2, ReplaceKeepsList
        <4> QED
          BY <1>a, <3>7, <4>3 DEF Replace
      <3> QED
        BY <3>1, <3>5, <3>6, <3>7 DEF failed, renamed
    <2>6. CASE FallbackCutOff(e)
      <3>1. PICK schema \in {"sat", ""} :
             smartDevices' = (smartDevices \ {e})
                               \cup {[NotParsed(e, schema) EXCEPT !.name = Namespace[e.name]]}
        BY <2>6 DEF FallbackCutOff
      <3> DEFINE renamed == [NotParsed(e, schema) EXCEPT !.name = Namespace[e.name]]
      <3>2. schema \in Parsers \cup {""}
        BY DEF Parsers
      <3>3. renamed \in Device /\ VerifiedHasParser(renamed)
        BY <2>0, <2>6, <3>2, RenamedIsDevice DEF FallbackCutOff, Fallback
      <3> HIDE DEF renamed
      <3>4. ListOK'
        BY <1>0, <2>6, <3>1, <3>3 DEF ListOK, WellFormed, FallbackCutOff, renamed
      <3> QED
        BY <1>a, <2>6, <3>4 DEF FallbackCutOff, hardware
    <2> QED
      BY <1>8, <2>1, <2>2, <2>3, <2>4, <2>5, <2>6
  <1>9. CASE UNCHANGED smartVars
    BY <1>9 DEF smartVars, hardware, SmartInv, SmartTypeOK, ExcludedNeverRead
  <1> QED
    BY <1>1, <1>2, <1>3, <1>4, <1>5, <1>6, <1>7, <1>8, <1>9 DEF SmartNext

LEMMA SmartInvariant == SmartSpec => []SmartInv
  BY SmartInitInv, SmartStep, PTL DEF SmartSpec

\* The state of the SmartManager is well typed: a verified device has a parser and a type.
THEOREM SmartTypeCorrect == SmartSpec => []SmartTypeOK
<1>1. SmartInv => SmartTypeOK
  BY DEF SmartInv
<1> QED
  BY <1>1, SmartInvariant, PTL

\* No data of an excluded device is ever stored: see ExcludedNeverRead.
THEOREM ExcludedStaysUnread == SmartSpec => []ExcludedNeverRead
<1>1. SmartInv => ExcludedNeverRead
  BY DEF SmartInv
<1> QED
  BY <1>1, SmartInvariant, PTL

\* No step wakes a drive whose data is cached.
LEMMA SleepersStep ==
  ASSUME SmartInv, [SmartNext]_smartVars, NEW d \in asleep, smartData[d] # NoData, d \in attached'
  PROVE  d \in asleep'
  <1>0. d \in Drives /\ d.schema # "nvme" /\ ~ d.sysfs /\ smartData[d].name = d.answers
    BY SmartAssumption DEF SmartInv, SmartTypeOK
  <1>1. ASSUME NEW e \in smartDevices, ReadSysfs(e) PROVE d \in asleep'
    BY <1>0, <1>1 DEF ReadSysfs, FromSysfs, Store
  <1>2. ASSUME NEW e \in smartDevices, ReadDrive(e) PROVE d \in asleep'
    <2>1. PICK x \in Answering(e.name, e.type) :
            (x \in asleep => ~ WithStandby(e)) /\ Store(x, e)
      BY <1>2 DEF ReadDrive
    <2>2. x = d => WithStandby(e)
      BY <1>0 DEF Answering, WithStandby, HasDataForDevice
    <2> QED
      BY <2>1, <2>2 DEF Store
  <1>3. ASSUME NEW e \in smartDevices, ReadFails(e) PROVE d \in asleep'
    <2>1. CASE UNCHANGED asleep
      BY <2>1
    <2>2. CASE ~ UNCHANGED asleep
      <3>1. PICK schema \in {"sat", ""} :
              LET renamed == [NotParsed(e, schema) EXCEPT !.name = Namespace[e.name]]
              IN /\ Fallback(e)
                 /\ \E x \in Answering(renamed.name, renamed.type) : Store(x, renamed)
        BY <1>3, <2>2 DEF ReadFails
      <3>2. schema \in Parsers \cup {""} /\ e \in Device
        BY DEF Parsers, SmartInv, SmartTypeOK
      <3> DEFINE renamed == [NotParsed(e, schema) EXCEPT !.name = Namespace[e.name]]
      <3>3. renamed.name = Namespace[e.name]
        BY <3>1, <3>2, RenamedIsDevice DEF Fallback
      <3>4. PICK x \in Answering(renamed.name, renamed.type) : Store(x, renamed)
        BY <3>1
      <3> HIDE DEF renamed
      <3>5. x # d
        BY <1>0, <3>1, <3>3, SmartAssumption DEF Answering, Fallback
      <3> QED
        BY <3>4, <3>5 DEF Store
    <2> QED
      BY <2>1, <2>2
  <1>4. CASE \/ AttachDrive \/ DetachDrive \/ FallAsleep \/ HalfAnHourPasses
             \/ BeginRefresh \/ ScanDevices \/ EndRefresh
             \/ \E e \in smartDevices : SkipDevice(e) \/ LeaveAsleep(e) \/ FallbackCutOff(e)
             \/ UNCHANGED smartVars
    BY <1>4 DEF AttachDrive, DetachDrive, FallAsleep, HalfAnHourPasses, BeginRefresh, ScanDevices,
                EndRefresh, SkipDevice, LeaveAsleep, FallbackCutOff, smartVars, hardware
  <1> QED
    BY <1>1, <1>2, <1>3, <1>4 DEF SmartNext

(***************************************************************************)
(* What a refresh knows of the data that was cached when it began.  Data   *)
(* is stored with the path and the type of its drive.  Until the scan it   *)
(* is there; after it, as long as the drive is listed by that path and     *)
(* type and is still to be read.                                           *)
(***************************************************************************)
ListedBy(d, e) == e.name = d.answers /\ e.type = d.type /\ e.type # ""

CachedInv ==
  /\ \A d \in Drives : smartData[d] # NoData => smartData[d] = [name |-> d.answers, type |-> d.type]
  /\ refresh # NoData =>
       \A d \in refresh.cached :
         /\ refresh.stage = "scan" => smartData[d] # NoData
         /\ \A e \in refresh.left : ListedBy(d, e) => smartData[d] # NoData

\* A device is done with: fewer are left to read, and data is added at most.
LEMMA ReplaceKeepsCached ==
  ASSUME SmartInv, CachedInv, refresh # NoData, NEW e, NEW f, Replace(e, f),
         \/ UNCHANGED smartData
         \/ \E d \in Drives, g \in Device : d.answers = g.name /\ Store(d, g)
  PROVE  CachedInv'
  <1>1. /\ refresh \in [stage : {"scan", "collect"}, left : SUBSET Device, cached : SUBSET Drives]
        /\ smartData \in [Drives -> Row \cup {NoData}]
    BY DEF SmartInv, SmartTypeOK
  <1>2. /\ refresh'.left \subseteq refresh.left
        /\ refresh'.cached = refresh.cached /\ refresh'.stage = refresh.stage
    BY <1>1 DEF Replace
  <1>3. /\ \A d \in Drives : smartData[d] # NoData => smartData'[d] # NoData
        /\ \A d \in Drives : smartData'[d] # NoData =>
             smartData'[d] = [name |-> d.answers, type |-> d.type]
    <2>1. CASE UNCHANGED smartData
      BY <2>1 DEF CachedInv
    <2>2. ASSUME NEW d \in Drives, NEW g \in Device, d.answers = g.name, Store(d, g)
          PROVE  /\ \A x \in Drives : smartData[x] # NoData => smartData'[x] # NoData
                 /\ \A x \in Drives : smartData'[x] # NoData =>
                      smartData'[x] = [name |-> x.answers, type |-> x.type]
      <3>1. [name |-> g.name, type |-> d.type] # NoData
        <4>1. [name |-> g.name, type |-> d.type] \in Row
          BY SmartAssumption DEF Device, Row, Types
        <4> QED
          BY <4>1, SmartAssumption
      <3> QED
        BY <1>1, <2>2, <3>1 DEF Store, CachedInv
    <2> QED
      BY <2>1, <2>2
  <1>4. \A d \in refresh.cached : d \in Drives
    BY <1>1
  <1> QED
    BY <1>2, <1>3, <1>4 DEF CachedInv

\* Every step keeps that knowledge.
LEMMA CachedStep == SmartInv /\ CachedInv /\ [SmartNext]_smartVars => CachedInv'
  <1> SUFFICES ASSUME SmartInv, CachedInv, [SmartNext]_smartVars PROVE CachedInv'
    OBVIOUS
  <1>0. /\ smartData \in [Drives -> Row \cup {NoData}] /\ smartDevices \subseteq Device
        /\ refresh \in [stage : {"scan", "collect"}, left : SUBSET Device, cached : SUBSET Drives]
                         \cup {NoData}
        /\ attached \subseteq Drives
    BY SmartAssumption DEF SmartInv, SmartTypeOK
  <1>1. CASE UNCHANGED <<smartData, refresh>>
    BY <1>1 DEF CachedInv
  <1>2. CASE EndRefresh \/ \E e \in smartDevices : FallbackCutOff(e)
    BY <1>2 DEF EndRefresh, FallbackCutOff, CachedInv
  <1>3. CASE BeginRefresh
    <2>1. /\ UNCHANGED smartData
          /\ refresh'.cached = Cached
      BY <1>3 DEF BeginRefresh
    <2> QED
      BY <2>1 DEF CachedInv, Cached
  <1>4. CASE ScanDevices
    <2>0. refresh # NoData /\ refresh.stage = "scan"
      BY <1>4 DEF ScanDevices
    <2>1. CASE UNCHANGED smartData
      <3>1. refresh'.cached = refresh.cached
        BY <1>0, <1>4, <2>0 DEF ScanDevices
      <3> QED
        BY <2>0, <2>1, <3>1 DEF CachedInv
    <2>2. CASE ~ UNCHANGED smartData
      <3>1. PICK list :
              /\ smartData' = [d \in Drives |->
                   IF smartData[d] # NoData /\ ~ Kept(list, smartData[d])
                     THEN NoData ELSE smartData[d]]
              /\ refresh' = [refresh EXCEPT !.stage = "collect", !.left = list]
        BY <1>4, <2>2 DEF ScanDevices
      <3>2. refresh'.left = list /\ refresh'.cached = refresh.cached /\ refresh'.stage = "collect"
        BY <1>0, <2>0, <3>1
      <3>3. ASSUME NEW d \in refresh.cached, NEW e \in list, ListedBy(d, e)
            PROVE  smartData'[d] # NoData
        <4>1. d \in Drives /\ smartData[d] = [name |-> d.answers, type |-> d.type]
          BY <1>0, <2>0 DEF CachedInv
        <4>2. d.type # "" /\ e \in Keyed(list, d.answers, d.type)
          BY <3>3 DEF ListedBy, Keyed, Named
        <4>3. Kept(list, smartData[d])
          <5>1. smartData[d].name = d.answers /\ smartData[d].type = d.type
            BY <4>1
          <5>2. Keyed(list, smartData[d].name, smartData[d].type) # {}
            BY <4>2, <5>1, Zenon
          <5> QED
            BY <4>2, <5>1, <5>2 DEF Kept
        <4>4. smartData[d] # NoData
          BY <2>0, <3>3 DEF CachedInv
        <4> QED
          BY <3>1, <4>1, <4>3, <4>4
      <3>4. \A d \in Drives : smartData'[d] \in {NoData, smartData[d]}
        BY <3>1
      <3> QED
        BY <3>2, <3>3, <3>4 DEF CachedInv
    <2> QED
      BY <2>1, <2>2
  <1>5. ASSUME NEW e \in smartDevices, SkipDevice(e) \/ LeaveAsleep(e)
        PROVE  CachedInv'
    <2>1. refresh # NoData /\ Replace(e, e) /\ UNCHANGED smartData
      BY <1>5 DEF SkipDevice, LeaveAsleep, Asking, Reading
    <2> QED
      BY <2>1, ReplaceKeepsCached
  <1>6. ASSUME NEW e \in smartDevices, ReadSysfs(e)
        PROVE  CachedInv'
    <2>1. PICK d \in FromSysfs(e) :
            LET f == [e EXCEPT !.type = d.type] IN Replace(e, f) /\ Store(d, f)
      BY <1>6 DEF ReadSysfs
    <2> DEFINE f == [e EXCEPT !.type = d.type]
    <2>2. d \in Drives /\ f \in Device /\ d.answers = f.name
      BY <1>0 DEF FromSysfs, Device, Types
    <2>3. Replace(e, f) /\ Store(d, f) /\ refresh # NoData
      BY <1>6, <2>1 DEF ReadSysfs, Reading
    <2> HIDE DEF f
    <2> QED
      BY <2>2, <2>3, ReplaceKeepsCached
  <1>7. ASSUME NEW e \in smartDevices, ReadDrive(e)
        PROVE  CachedInv'
    <2>1. PICK d \in Answering(e.name, e.type) : Replace(e, Parsed(e, d.schema)) /\ Store(d, e)
      BY <1>7 DEF ReadDrive
    <2>2. d \in Drives /\ e \in Device /\ d.answers = e.name /\ refresh # NoData
      BY <1>0, <1>7 DEF Answering, ReadDrive, Asking, Reading
    <2> QED
      BY <2>1, <2>2, ReplaceKeepsCached
  <1>8. ASSUME NEW e \in smartDevices, ReadFails(e)
        PROVE  CachedInv'
    <2>0. refresh # NoData
      BY <1>8 DEF ReadFails, Asking, Reading
    <2>1. CASE UNCHANGED smartData
      <3>1. PICK f : Replace(e, f)
        BY <1>8 DEF ReadFails
      <3> QED
        BY <2>0, <2>1, <3>1, ReplaceKeepsCached
    <2>2. CASE ~ UNCHANGED smartData
      <3>1. PICK schema \in {"sat", ""} :
              LET renamed == [NotParsed(e, schema) EXCEPT !.name = Namespace[e.name]]
              IN /\ Fallback(e)
                 /\ \E d \in Answering(renamed.name, renamed.type) :
                      Replace(e, Parsed(renamed, d.schema)) /\ Store(d, renamed)
        BY <1>8, <2>2 DEF ReadFails
      <3> DEFINE renamed == [NotParsed(e, schema) EXCEPT !.name = Namespace[e.name]]
      <3>2. schema \in Parsers \cup {""} /\ e \in Device
        BY <1>0 DEF Parsers
      <3>3. renamed \in Device
        BY <3>1, <3>2, RenamedIsDevice DEF Fallback
      <3>4. PICK d \in Answering(renamed.name, renamed.type) :
              Replace(e, Parsed(renamed, d.schema)) /\ Store(d, renamed)
        BY <3>1
      <3> HIDE DEF renamed
      <3>5. d \in Drives /\ d.answers = renamed.name
        BY <1>0 DEF Answering
      <3> QED
        BY <2>0, <3>3, <3>4, <3>5, ReplaceKeepsCached
    <2> QED
      BY <2>1, <2>2
  <1>9. CASE AttachDrive \/ DetachDrive \/ FallAsleep \/ HalfAnHourPasses \/ UNCHANGED smartVars
    BY <1>1, <1>9 DEF AttachDrive, DetachDrive, FallAsleep, HalfAnHourPasses, smartVars
  <1> QED
    BY <1>2, <1>3, <1>4, <1>5, <1>6, <1>7, <1>8, <1>9 DEF SmartNext

(***************************************************************************)
(* A refresh wakes no drive whose data was cached when it began and that   *)
(* the list still to be read has by the path and the type of that data:    *)
(* see SleepersAreLeftAlone.                                               *)
(***************************************************************************)
THEOREM SleepersSleepOn == SmartSpec => SleepersAreLeftAlone
<1> DEFINE SleepOn ==
      refresh # NoData =>
        \A d \in asleep \cap refresh.cached, e \in refresh.left :
          e.name = d.answers /\ e.type = d.type /\ e.type # "" /\ d \in attached' => d \in asleep'
<1>1. SmartInit => CachedInv
  BY DEF SmartInit, CachedInv
<1>2. SmartInv /\ CachedInv /\ [SmartNext]_smartVars => [SleepOn]_smartVars
  BY SleepersStep DEF CachedInv, ListedBy
<1> QED
  BY <1>1, <1>2, CachedStep, SmartInvariant, PTL DEF SmartSpec, SleepersAreLeftAlone

-----------------------------------------------------------------------------
(* Verified devices.                                                        *)

\* The one device of its path is the one that a scan finds again.
LEMMA SoleIsPreserved ==
  ASSUME NEW list, NEW e \in list, Sole(list, e.name), e.verified,
         NEW dev, dev.name = e.name
  PROVE  Previous(list, dev) = {e} /\ Preserved(list, dev) = e
  <1>1. Named(list, dev.name) = {e}
    BY DEF Sole, Named
  <1>2. Previous(list, dev) = {e}
    BY <1>1 DEF Previous, Keyed, Sole
  <1>3. (CHOOSE x \in Previous(list, dev) : x.verified) = e
    BY <1>2
  <1> QED
    BY <1>2, <1>3 DEF Preserved

\* The device that is configured under its name takes its place.
LEMMA SoleIsAdded ==
  ASSUME NEW list, NEW e \in list, Sole(list, e.name), e.verified,
         NEW c, c.name = e.name
  PROVE  Added(list, c) = e
  <1>1. Unverified(c.name, c.type).name = e.name
    BY DEF Unverified
  <1>2. \A dev : dev.name = e.name => Previous(list, dev) = {e} /\ Preserved(list, dev) = e
    BY SoleIsPreserved
  <1>3. Previous(list, Unverified(c.name, c.type)) = {e}
        /\ Preserved(list, Unverified(c.name, c.type)) = e
    BY <1>1, <1>2
  <1> QED
    BY <1>3 DEF Added

\* A merge leaves it as it was, or out.
LEMMA MergeKeepsVerified ==
  ASSUME NEW list, WellFormed(list), NEW scanned, WellFormed(scanned),
         NEW conf, Configurable(conf),
         NEW e \in list, Sole(list, e.name), e.verified,
         NEW f \in MergeDeviceLists(list, scanned, conf), f.name = e.name
  PROVE  f = e
  <1>1. CASE scanned = {} /\ conf = {}
    <2>1. f \in Named(list, e.name)
      BY <1>1 DEF MergeDeviceLists, Named
    <2> QED
      BY <2>1 DEF Sole, Named
  <1>2. CASE ~ (scanned = {} /\ conf = {})
    <2> DEFINE found == {Preserved(list, s) : s \in scanned}
    <2>1. \/ \E p \in found : f = Configured(found, conf, p)
          \/ \E c \in conf : f = Added(list, c)
      BY <1>2 DEF MergeDeviceLists
    <2>2. ASSUME NEW p \in found, f = Configured(found, conf, p) PROVE f = e
      <3>1. PICK s \in scanned : p = Preserved(list, s)
        OBVIOUS
      <3>2. p \in Device /\ p.name = s.name
        BY <3>1, PreservedIsListed DEF WellFormed
      <3>3. p.name = e.name
        BY <2>2, <3>2, ConfiguredIsDevice
      <3>4. p = e
        <4>1. s.name = e.name
          BY <3>2, <3>3
        <4>2. Preserved(list, s) = e
          BY <4>1, SoleIsPreserved, Zenon
        <4> QED
          BY <3>1, <4>2
      <3> HIDE DEF found
      <3> QED
        BY <2>2, <3>2, <3>4, ConfiguredIsDevice
    <2>3. ASSUME NEW c \in conf, f = Added(list, c) PROVE f = e
      <3>1. c \in Row /\ Normal(c.type) \in Types
        BY DEF Configurable
      <3>2. c.name = e.name
        BY <2>3, <3>1, AddedIsDevice
      <3> QED
        BY <2>3, <3>2, SoleIsAdded
    <2> QED
      BY <2>1, <2>2, <2>3
  <1> QED
    BY <1>1, <1>2

\* What VerifiedDevicesStay says of a step.
VerifiedStay ==
  refresh # NoData /\ refresh.stage = "scan" =>
    \A e \in smartDevices, f \in smartDevices' :
      e.verified /\ e.name = f.name /\ Sole(smartDevices, e.name) /\ Sole(smartDevices', e.name)
        => /\ f = e
           /\ \A d \in Drives :
                smartData[d] = [name |-> e.name, type |-> e.type] => smartData'[d] # NoData

LEMMA VerifiedStep == SmartInv /\ [SmartNext]_smartVars => VerifiedStay
  <1> SUFFICES ASSUME SmartInv, [SmartNext]_smartVars, refresh # NoData, refresh.stage = "scan",
                      NEW e \in smartDevices, NEW f \in smartDevices', e.verified, e.name = f.name,
                      Sole(smartDevices, e.name), Sole(smartDevices', e.name)
               PROVE  /\ f = e
                      /\ \A d \in Drives : smartData[d] = [name |-> e.name, type |-> e.type]
                           => smartData'[d] # NoData
    BY DEF VerifiedStay
  <1>0. NoData # [name |-> e.name, type |-> e.type]
    <2>1. [name |-> e.name, type |-> e.type] \in Row
      BY DEF SmartInv, SmartTypeOK, Device, Row
    <2> QED
      BY <2>1, SmartAssumption
  <1>1. ASSUME UNCHANGED <<smartDevices, smartData>>
        PROVE  /\ f = e
               /\ \A d \in Drives : smartData[d] = [name |-> e.name, type |-> e.type]
                    => smartData'[d] # NoData
    <2>1. f = e
      BY <1>1 DEF Sole, Named
    <2> QED
      BY <1>0, <1>1, <2>1
  <1>2. CASE ScanDevices /\ setting.devices # {}
    <2> DEFINE conf == IF setting.devices = NoData THEN {} ELSE setting.devices
    <2>1. PICK answered \in {TRUE, FALSE} \cap {setting.smartctl, FALSE} :
            LET sources == {d \in attached : d.sysfs \/ answered}
                list == FilterExcluded(MergeDeviceLists(smartDevices, Scanned(sources), conf))
            IN /\ smartDevices' = list
               /\ smartData' = [d \in Drives |->
                    IF smartData[d] # NoData /\ ~ Kept(list, smartData[d])
                      THEN NoData ELSE smartData[d]]
      BY <1>2 DEF ScanDevices
    <2> DEFINE sources == {d \in attached : d.sysfs \/ answered}
               merged == MergeDeviceLists(smartDevices, Scanned(sources), conf)
    <2>2. WellFormed(smartDevices) /\ WellFormed(Scanned(sources)) /\ Configurable(conf)
      <3>1. WellFormed(smartDevices)
        BY DEF SmartInv, SmartTypeOK, WellFormed, VerifiedHasParser
      <3>2. Configurable(conf)
        BY SmartAssumption DEF SmartInv, SmartTypeOK, Configurable
      <3> QED
        BY <3>1, <3>2, ScannedIsWellFormed
    <2>3. f \in merged
      BY <2>1 DEF FilterExcluded
    <2>4. f = e
      <3> HIDE DEF conf, sources
      <3> QED
        BY <2>2, <2>3, MergeKeepsVerified
    <2>5. Kept(smartDevices', [name |-> e.name, type |-> e.type])
      BY <2>4 DEF Kept, Keyed, Named
    <2>6. \A d \in Drives : smartData[d] # NoData /\ Kept(smartDevices', smartData[d])
            => smartData'[d] = smartData[d]
      BY <2>1
    <2> QED
      BY <1>0, <2>4, <2>5, <2>6
  <1>3. CASE ~ (ScanDevices /\ setting.devices # {})
    <2>1. \A x \in smartDevices : ~ SkipDevice(x) /\ ~ Reading(x)
      BY DEF SkipDevice, Reading
    <2>2. UNCHANGED <<smartDevices, smartData>>
      BY <1>3, <2>1
      DEF SmartNext, AttachDrive, DetachDrive, FallAsleep, HalfAnHourPasses, BeginRefresh, ScanDevices,
          EndRefresh, ReadSysfs, LeaveAsleep, ReadDrive, ReadFails, FallbackCutOff, Asking, smartVars
    <2> QED
      BY <1>1, <2>2
  <1> QED
    BY <1>2, <1>3

\* A scan neither changes a verified device nor drops the data that is stored under its path
\* and type: see VerifiedDevicesStay.
THEOREM VerifiedDevicesAreKept == SmartSpec => VerifiedDevicesStay
<1>1. SmartInv /\ [SmartNext]_smartVars => [VerifiedStay]_smartVars
  BY VerifiedStep
<1> QED
  BY <1>1, SmartInvariant, PTL DEF SmartSpec, VerifiedDevicesStay, VerifiedStay

-----------------------------------------------------------------------------
(* The sums of the GPUs: types.                                             *)

\* What a sample may be of.
Gpu == GpuNames \cup Others

LEMMA GpusOfMachine ==
  ASSUME gpus \in GpuMachines
  PROVE  /\ gpus.nvtop \in Seq(GpuNames) /\ Len(gpus.nvtop) \in Nat /\ Len(gpus.nvtop) <= MaxSlots
         /\ \A i \in 1 .. Len(gpus.nvtop) : gpus.nvtop[i] \in GpuNames
         /\ gpus.others \subseteq Others /\ gpus.keys \subseteq Keys
  <1>1. gpus.nvtop \in Seq(GpuNames) /\ Len(gpus.nvtop) <= MaxSlots
    BY MachineAssumption
  <1> QED
    BY <1>1, MachineAssumption, LenProperties, ElementOfSeq

\* A sample lengthens one entry by one.
LEMMA SampleIsAdded ==
  ASSUME SampleTypeOK, NEW e \in Entries, NEW gpu \in Gpu, AddSample(e, gpu)
  PROVE  /\ samples' \in [Entries -> Seq(Gpu)]
         /\ shown' \in [Entries -> BOOLEAN]
         /\ Count(e) \in Nat /\ Count(e)' = Count(e) + 1 /\ Count(e)' <= MaxSamples
         /\ samples'[e][Count(e) + 1] = gpu
         /\ \A i \in 1 .. Count(e) : samples'[e][i] = samples[e][i]
         /\ \A x \in Entries \ {e} : samples'[x] = samples[x]
  <1>1. samples \in [Entries -> Seq(Gpu)] /\ samples[e] \in Seq(Gpu) /\ shown \in [Entries -> BOOLEAN]
    BY DEF SampleTypeOK, Gpu
  <1>2. samples' = [samples EXCEPT ![e] = Append(samples[e], gpu)]
    BY DEF AddSample
  <1>3. samples'[e] = Append(samples[e], gpu) /\ samples' \in [Entries -> Seq(Gpu)]
    BY <1>1, <1>2, AppendProperties
  <1>4. /\ Len(samples'[e]) = Len(samples[e]) + 1 /\ Len(samples[e]) \in Nat
        /\ samples'[e][Len(samples[e]) + 1] = gpu
        /\ \A i \in 1 .. Len(samples[e]) : samples'[e][i] = samples[e][i]
    BY <1>1, <1>3, AppendProperties, LenProperties
  <1>5. Count(e) < MaxSamples /\ MaxSamples \in Nat
    BY SamplesAssumption DEF AddSample
  <1>6. shown' \in [Entries -> BOOLEAN]
    BY <1>1 DEF AddSample
  <1> QED
    BY <1>1, <1>2, <1>3, <1>4, <1>5, <1>6 DEF Count

\* After a sample, what was counted before is still counted.
LEMMA SampleKeepsCounts ==
  ASSUME SampleTypeOK, NEW e \in Entries, NEW gpu \in Gpu, AddSample(e, gpu),
         e \in Others => gpu = e
  PROVE  /\ \A x \in Entries : Count(x) \in Nat /\ Count(x) <= Count(x)' /\ Count(x)' <= MaxSamples
         /\ \A x \in Entries : Exists(x) => Exists(x)'
         /\ Exists(e)'
         /\ \A o \in Others, i \in 1 .. MaxSamples : i <= Count(o)' => samples'[o][i] = o
  <1>0. \A x \in Entries : Count(x) \in Nat /\ Count(x) <= MaxSamples /\ (Exists(x) <=> Count(x) # 0)
    BY LenProperties, EmptySeq DEF SampleTypeOK, Count, Exists, Gpu
  <1>1. /\ samples' \in [Entries -> Seq(Gpu)]
        /\ Count(e)' = Count(e) + 1 /\ Count(e)' <= MaxSamples
        /\ samples'[e][Count(e) + 1] = gpu
        /\ \A i \in 1 .. Count(e) : samples'[e][i] = samples[e][i]
        /\ \A x \in Entries \ {e} : samples'[x] = samples[x]
    BY SampleIsAdded
  <1>2. \A x \in Entries \ {e} : Count(x)' = Count(x) /\ Exists(x)' = Exists(x)
    BY <1>1 DEF Count, Exists
  <1>3. Exists(e)'
    BY <1>0, <1>1, EmptySeq DEF Exists, Count
  <1>4. ASSUME NEW o \in Others, NEW i \in 1 .. MaxSamples, i <= Count(o)'
        PROVE  samples'[o][i] = o
    <2>0. o \in Entries /\ i \in Nat /\ i >= 1
      BY SamplesAssumption DEF Entries
    <2>1. CASE o # e
      BY <1>1, <1>2, <1>4, <2>0, <2>1 DEF SampleTypeOK
    <2>2. CASE o = e /\ i <= Count(e)
      BY <1>0, <1>1, <2>0, <2>2 DEF SampleTypeOK
    <2>3. CASE o = e /\ i = Count(e) + 1
      BY <1>1, <2>3
    <2> QED
      BY <1>0, <1>1, <1>4, <2>0, <2>1, <2>2, <2>3
  <1>5. \A x \in Entries : Count(x) <= Count(x)' /\ Count(x)' <= MaxSamples
    BY <1>0, <1>1, <1>2
  <1> QED
    BY <1>0, <1>2, <1>3, <1>4, <1>5

\* The name that is matched next, and where.
LEMMA NextToMatch ==
  ASSUME SampleTypeOK, ~ Unlocked
  PROVE  /\ Head(answer.left) \in GpuNames
         /\ Head(answer.left) = answer.left[1]
         /\ answer.at \in Nat /\ Len(answer.left) \in Nat \ {0}
         /\ answer.at < Len(gpus.nvtop) /\ answer.at \in Slots
         /\ Tail(answer.left) \in Seq(GpuNames)
         /\ Len(Tail(answer.left)) = Len(answer.left) - 1
         /\ \A i \in 1 .. Len(Tail(answer.left)) : Tail(answer.left)[i] = answer.left[i + 1]
  <1>1. answer.left \in Seq(GpuNames) /\ answer.left # <<>> /\ answer.at \in Nat
        /\ answer.at + Len(answer.left) <= Len(gpus.nvtop)
    BY DEF SampleTypeOK, Unlocked
  <1>2. Len(answer.left) \in Nat \ {0} /\ Head(answer.left) = answer.left[1]
    BY <1>1, EmptySeq
  <1>3. Len(gpus.nvtop) \in Nat /\ Len(gpus.nvtop) <= MaxSlots
    BY GpusOfMachine DEF SampleTypeOK
  <1> QED
    BY <1>1, <1>2, <1>3, HeadTailProperties, SamplesAssumption DEF Slots

\* What a new answer of nvtop has to match.
LEMMA AnswerIsTyped ==
  ASSUME SampleTypeOK, NEW n \in 1 .. Len(gpus.nvtop), NEW p \in [1 .. n -> 1 .. Len(gpus.nvtop)]
  PROVE  LET left == [i \in 1 .. n |-> gpus.nvtop[p[i]]]
         IN left \in Seq(GpuNames) /\ Len(left) = n
  <1> DEFINE left == [i \in 1 .. n |-> gpus.nvtop[p[i]]]
  <1>1. n \in Nat
    BY GpusOfMachine DEF SampleTypeOK
  <1>2. left \in [1 .. n -> GpuNames]
    BY GpusOfMachine DEF SampleTypeOK
  <1> QED
    BY <1>1, <1>2, SeqDef, LenProperties

(***************************************************************************)
(* What was counted when a key was last asked for is its snapshot, and     *)
(* the last average, whichever key it was calculated for, is not of fewer. *)
(***************************************************************************)
SampleInv ==
  /\ SampleTypeOK
  /\ \A k \in Keys, e \in Entries :
       /\ reported[k][e].seen = snapshot[k][e]
       /\ snapshot[k][e] <= average[e].upto

LEMMA SampleInitInv == SampleInit => SampleInv
  <1> SUFFICES ASSUME SampleInit PROVE SampleInv
    OBVIOUS
  <1>1. samples \in [Entries -> Seq(GpuNames \cup Others)] /\ \A e \in Entries : Count(e) = 0
    BY EmptySeq DEF SampleInit, Count
  <1>2. answer \in [left : Seq(GpuNames), used : SUBSET {e \in Slots : Exists(e)}, at : Nat]
        /\ answer.at = 0 /\ Len(answer.left) = 0
    BY EmptySeq DEF SampleInit, Matched
  <1>3. Nothing \in Span /\ Nothing.upto = 0
    BY DEF Nothing, Span
  <1>4. 0 \in 0 .. MaxSamples /\ 0 <= MaxSamples
    BY SamplesAssumption
  <1>5. Len(gpus.nvtop) \in Nat
    BY GpusOfMachine DEF SampleInit
  <1>6. \A o \in Others, i \in 1 .. MaxSamples : i <= Count(o) => samples[o][i] = o
    BY <1>1, SamplesAssumption DEF Entries
  <1> HIDE DEF Nothing
  <1>7. average \in [Entries -> Span] /\ \A e \in Entries : average[e].upto = 0
    BY <1>3 DEF SampleInit
  <1>8. /\ snapshot \in [Keys -> [Entries -> 0 .. MaxSamples]]
        /\ reported \in [Keys -> [Entries -> [of : Span, seen : 0 .. MaxSamples]]]
        /\ \A k \in Keys, e \in Entries : snapshot[k][e] = 0 /\ reported[k][e].seen = 0
    BY <1>3, <1>4 DEF SampleInit
  <1>9. gpus \in GpuMachines /\ complete \in BOOLEAN /\ shown \in [Entries -> BOOLEAN]
    BY DEF SampleInit
  <1> QED
    BY <1>1, <1>2, <1>4, <1>5, <1>6, <1>7, <1>8, <1>9 DEF SampleInv, SampleTypeOK

\* Steps other than reports keep it when they keep the types.
LEMMA SampleStep == SampleInv /\ [SampleNext]_sampleVars => SampleInv'
  <1> SUFFICES ASSUME SampleInv, [SampleNext]_sampleVars PROVE SampleInv'
    OBVIOUS
  <1> USE DEF SampleInv
  <1>0. \A x \in Entries : Count(x) \in Nat /\ Count(x) <= MaxSamples
    BY LenProperties DEF SampleTypeOK, Count
  <1>a. ASSUME NEW e \in Entries, NEW gpu \in Gpu, AddSample(e, gpu), e \in Others => gpu = e,
               UNCHANGED <<gpus, complete, snapshot, average, reported>>,
               answer' \in [left : Seq(GpuNames), used : SUBSET {x \in Slots : Exists(x)'}, at : Nat],
               answer'.at + Len(answer'.left) <= Len(gpus.nvtop)
        PROVE  SampleInv'
    <2>1. samples' \in [Entries -> Seq(GpuNames \cup Others)] /\ shown' \in [Entries -> BOOLEAN]
      BY <1>a, SampleIsAdded DEF Gpu
    <2>2. /\ \A x \in Entries : Count(x) \in Nat /\ Count(x) <= Count(x)' /\ Count(x)' <= MaxSamples
          /\ \A o \in Others, i \in 1 .. MaxSamples : i <= Count(o)' => samples'[o][i] = o
      BY <1>a, SampleKeepsCounts
    <2>3. \A x \in Entries : Count(x)' \in Nat
      BY <2>1, LenProperties DEF Count
    <2>4. \A x \in Entries : average[x].upto <= Count(x)'
      BY <2>2, <2>3 DEF SampleTypeOK, Span
    <2>5. \A k \in Keys, x \in Entries : snapshot[k][x] <= Count(x)'
      BY <2>2, <2>3, SamplesAssumption DEF SampleTypeOK
    <2> QED
      BY <1>a, <2>1, <2>2, <2>4, <2>5 DEF SampleTypeOK
  <1>1. ASSUME NEW o \in gpus.others, UpdateGpu(o) PROVE SampleInv'
    <2>1. o \in Others /\ o \in Entries /\ o \in Gpu
      BY GpusOfMachine DEF SampleTypeOK, Entries, Gpu
    <2>2. AddSample(o, o) /\ UNCHANGED <<gpus, complete, answer, snapshot, average, reported>>
      BY <1>1 DEF UpdateGpu
    <2>3. \A x \in Entries : Exists(x) => Exists(x)'
      BY <2>1, <2>2, SampleKeepsCounts
    <2>4. answer' \in [left : Seq(GpuNames), used : SUBSET {x \in Slots : Exists(x)'}, at : Nat]
      BY <2>2, <2>3 DEF SampleTypeOK, Entries
    <2> QED
      BY <1>a, <2>1, <2>2, <2>4 DEF SampleTypeOK
  <1>2. ASSUME NEW o \in gpus.others, SuspendGpu(o) PROVE SampleInv'
    BY <1>2 DEF SuspendGpu, SampleTypeOK, Count, Exists
  <1>3. CASE NvtopAnswers
    <2>1. PICK n \in 1 .. Len(gpus.nvtop) : \E p \in [1 .. n -> 1 .. Len(gpus.nvtop)] :
            answer' = [left |-> [i \in 1 .. n |-> gpus.nvtop[p[i]]], used |-> {}, at |-> 0]
      BY <1>3 DEF NvtopAnswers
    <2>2. PICK p \in [1 .. n -> 1 .. Len(gpus.nvtop)] :
            answer' = [left |-> [i \in 1 .. n |-> gpus.nvtop[p[i]]], used |-> {}, at |-> 0]
      BY <2>1
    <2> DEFINE left == [i \in 1 .. n |-> gpus.nvtop[p[i]]]
    <2>3. left \in Seq(GpuNames) /\ Len(left) = n
      BY AnswerIsTyped
    <2>4. answer' = [left |-> left, used |-> {}, at |-> 0]
      BY <2>2
    <2> HIDE DEF left
    <2>5. answer' \in [left : Seq(GpuNames), used : SUBSET {x \in Slots : Exists(x)}, at : Nat]
      BY <2>3, <2>4
    <2>6. Len(gpus.nvtop) \in Nat
      BY GpusOfMachine DEF SampleTypeOK
    <2>7. answer'.at + Len(answer'.left) <= Len(gpus.nvtop)
      BY <2>3, <2>4, <2>6
    <2>8. complete' \in BOOLEAN /\ UNCHANGED <<gpus, samples, shown, snapshot, average, reported>>
      BY <1>3 DEF NvtopAnswers, SampleTypeOK
    <2> QED
      BY <2>5, <2>7, <2>8 DEF SampleTypeOK, Count, Exists
  <1>4. CASE MatchSample
    <2> DEFINE name == Head(answer.left)
    <2>1. PICK e \in Match(name) :
            /\ AddSample(e, name)
            /\ answer' = [left |-> Tail(answer.left), used |-> answer.used \cup {e}, at |-> answer.at + 1]
      BY <1>4 DEF MatchSample
    <2>2. ~ Unlocked /\ UNCHANGED <<gpus, complete, snapshot, average, reported>>
      BY <1>4 DEF MatchSample
    <2>3. e \in Slots /\ e \in Entries /\ e \notin Others /\ name \in Gpu
      BY <2>2, NextToMatch, MachineAssumption DEF Match, Entries, Gpu
    <2> HIDE DEF name
    <2>4. (\A x \in Entries : Exists(x) => Exists(x)') /\ Exists(e)'
      BY <2>1, <2>3, SampleKeepsCounts
    <2>5. answer' \in [left : Seq(GpuNames), used : SUBSET {x \in Slots : Exists(x)'}, at : Nat]
      <3>1. Tail(answer.left) \in Seq(GpuNames) /\ answer.at + 1 \in Nat
        BY <2>2, NextToMatch
      <3>2. answer.used \cup {e} \subseteq {x \in Slots : Exists(x)'}
        BY <2>3, <2>4 DEF SampleTypeOK, Entries
      <3> QED
        BY <2>1, <3>1, <3>2
    <2>6. answer'.at + Len(answer'.left) <= Len(gpus.nvtop)
      BY <2>1, <2>2, NextToMatch DEF SampleTypeOK
    <2> QED
      BY <1>a, <2>1, <2>2, <2>3, <2>5, <2>6
  <1>5. ASSUME NEW k \in gpus.keys, GetCurrentData(k) PROVE SampleInv'
    <2>1. k \in Keys
      BY GpusOfMachine DEF SampleTypeOK
    <2>2. \A e \in Entries : Count(e) \in 0 .. MaxSamples
      BY <1>0, SamplesAssumption
    <2>3. \A e \in Entries : Average(k, e) \in Span
      BY <1>0, <2>1, SamplesAssumption DEF Average, Span, Nothing, SampleTypeOK
    <2>4. \A e \in Entries : Remember(k, e) \in Span /\ Remember(k, e).upto <= Count(e)
                             /\ Count(e) <= Remember(k, e).upto
                             /\ average[e].upto <= Remember(k, e).upto
      <3> SUFFICES ASSUME NEW e \in Entries
                   PROVE  /\ Remember(k, e) \in Span /\ Remember(k, e).upto = Count(e)
                          /\ average[e].upto <= Count(e)
        BY <1>0
      <3>1. snapshot[k][e] \in Nat /\ snapshot[k][e] <= average[e].upto
            /\ average[e].upto <= Count(e) /\ average[e].upto \in Nat /\ average[e] \in Span
        BY <2>1, SamplesAssumption DEF SampleTypeOK, Span
      <3>2. CASE Count(e) > snapshot[k][e]
        BY <1>0, <3>1, <3>2 DEF Remember, Average, Span
      <3>3. CASE ~ Count(e) > snapshot[k][e]
        BY <1>0, <3>1, <3>3 DEF Remember
      <3> QED
        BY <3>2, <3>3
    <2>5. average' = [e \in Entries |-> Remember(k, e)]
          /\ snapshot' = [snapshot EXCEPT ![k] = [e \in Entries |-> Count(e)]]
          /\ reported' = [reported EXCEPT ![k] =
               [e \in Entries |-> [of |-> Average(k, e), seen |-> Count(e)]]]
          /\ UNCHANGED <<gpus, complete, samples, shown, answer>>
      BY <1>5 DEF GetCurrentData, StoreSnapshot
    <2>6. average' \in [Entries -> Span]
      BY <2>4, <2>5
    <2>7. snapshot' \in [Keys -> [Entries -> 0 .. MaxSamples]]
      BY <2>2, <2>5 DEF SampleTypeOK
    <2>8. reported' \in [Keys -> [Entries -> [of : Span, seen : 0 .. MaxSamples]]]
      BY <2>2, <2>3, <2>5 DEF SampleTypeOK
    <2>9. \A h \in Keys, e \in Entries :
            /\ reported'[h][e].seen = snapshot'[h][e]
            /\ snapshot'[h][e] <= average'[e].upto
            /\ snapshot'[h][e] <= Count(e)
      <3> SUFFICES ASSUME NEW h \in Keys, NEW e \in Entries
                   PROVE  /\ reported'[h][e].seen = snapshot'[h][e]
                          /\ snapshot'[h][e] <= average'[e].upto
                          /\ snapshot'[h][e] <= Count(e)
        OBVIOUS
      <3>1. average'[e].upto = Remember(k, e).upto
        BY <2>5
      <3>2. CASE h = k
        <4>1. snapshot'[h][e] = Count(e) /\ reported'[h][e].seen = Count(e)
          BY <2>1, <2>5, <3>2 DEF SampleTypeOK
        <4> QED
          BY <1>0, <2>4, <3>1, <4>1
      <3>3. CASE h # k
        <4>1. snapshot'[h][e] = snapshot[h][e] /\ reported'[h][e] = reported[h][e]
          BY <2>1, <2>5, <3>3 DEF SampleTypeOK
        <4>2. snapshot[h][e] \in Nat /\ average[e].upto \in Nat /\ Remember(k, e).upto \in Nat
          BY <2>4, SamplesAssumption DEF SampleTypeOK, Span
        <4> QED
          BY <2>4, <3>1, <4>1, <4>2 DEF SampleTypeOK
      <3> QED
        BY <3>2, <3>3
    <2>10. \A e \in Entries : average'[e].upto <= Count(e)
      BY <2>4, <2>5
    <2> QED
      BY <2>5, <2>6, <2>7, <2>8, <2>9, <2>10 DEF SampleTypeOK, Count, Exists
  <1>6. CASE UNCHANGED sampleVars
    BY <1>6 DEF sampleVars, SampleTypeOK, Count, Exists
  <1> QED
    BY <1>1, <1>2, <1>3, <1>4, <1>5, <1>6 DEF SampleNext

LEMMA SampleInvariant == SampleSpec => []SampleInv
  BY SampleInitInv, SampleStep, PTL DEF SampleSpec

\* The sums and reports of the GPUs are well typed, and no report counts what was not sampled.
THEOREM SamplesTypeCorrect == SampleSpec => []SampleTypeOK
<1>1. SampleInv => SampleTypeOK
  BY DEF SampleInv
<1> QED
  BY <1>1, SampleInvariant, PTL

\* What ReportsCoverNewSamples says of a step.
ReportIsNew ==
  \A k \in gpus.keys, e \in Entries :
    LET old == reported[k][e].seen
        new == reported'[k][e].of
    IN reported'[k] # reported[k] =>
         IF Count(e) > old THEN new = [after |-> old, upto |-> Count(e)]
                           ELSE new = Nothing \/ new.upto = old

LEMMA ReportStep == SampleInv /\ [SampleNext]_sampleVars => ReportIsNew
  <1> SUFFICES ASSUME SampleInv, [SampleNext]_sampleVars, NEW k \in gpus.keys, NEW e \in Entries,
                      reported'[k] # reported[k]
               PROVE  LET old == reported[k][e].seen
                          new == reported'[k][e].of
                      IN IF Count(e) > old THEN new = [after |-> old, upto |-> Count(e)]
                                           ELSE new = Nothing \/ new.upto = old
    BY DEF ReportIsNew
  <1>1. PICK h \in gpus.keys : GetCurrentData(h)
    BY DEF SampleNext, sampleVars, NvtopAnswers, MatchSample, UpdateGpu, SuspendGpu
  <1>2. k \in Keys /\ h \in Keys
    BY GpusOfMachine DEF SampleInv, SampleTypeOK
  <1>3. h = k
    BY <1>1, <1>2 DEF GetCurrentData, SampleInv, SampleTypeOK
  <1>4. reported'[k][e].of = Average(k, e)
    BY <1>1, <1>2, <1>3 DEF GetCurrentData, SampleInv, SampleTypeOK
  <1>5. reported[k][e].seen = snapshot[k][e] /\ snapshot[k][e] <= average[e].upto
        /\ average[e].upto <= Count(e) /\ snapshot[k][e] \in Nat /\ average[e].upto \in Nat
        /\ Count(e) \in Nat
    BY <1>2, SamplesAssumption, LenProperties DEF SampleInv, SampleTypeOK, Span, Count
  <1> QED
    BY <1>4, <1>5 DEF Average

\* Reports neither lose nor repeat samples: see ReportsCoverNewSamples.
THEOREM ReportsAreExact == SampleSpec => ReportsCoverNewSamples
<1>1. SampleInv /\ [SampleNext]_sampleVars => [ReportIsNew]_reported
  BY ReportStep
<1> QED
  BY <1>1, SampleInvariant, PTL DEF SampleSpec, ReportsCoverNewSamples, ReportIsNew

-----------------------------------------------------------------------------
(* The names of the entries.                                                *)

Gpus == 1 .. Len(gpus.nvtop)
Injective(q, n) == \A i, j \in 1 .. n : q[i] = q[j] => i = j

\* The order in which the GPUs were shown first: slot e is the one of GPU p[e + 1].
FirstOrder(p) == p \in [Gpus -> Gpus] /\ Injective(p, Len(gpus.nvtop))
SlotName(p, e) == gpus.nvtop[p[e + 1]]

\* The first n slots hold samples of one name each, the others none.
Filled(p, n) ==
  \A e \in Slots :
    IF e < n THEN Exists(e) /\ \A i \in 1 .. Count(e) : samples[e][i] = SlotName(p, e)
             ELSE ~ Exists(e)

(***************************************************************************)
(* The GPUs of the answer are q[1], q[2], ...; those before answer.at were *)
(* matched to the slots w[1], w[2], ..., which have their names.           *)
(***************************************************************************)
Answers(p, q, w) ==
  LET n == answer.at + Len(answer.left)
  IN /\ q \in [1 .. n -> Gpus] /\ Injective(q, n)
     /\ \A i \in 1 .. Len(answer.left) : answer.left[i] = gpus.nvtop[q[answer.at + i]]
     /\ w \in [1 .. answer.at -> {e \in Slots : e < Len(gpus.nvtop)}]
     /\ answer.used = {w[j] : j \in 1 .. answer.at}
     /\ \A j \in 1 .. answer.at : SlotName(p, w[j]) = gpus.nvtop[q[j]]

(***************************************************************************)
(* While the first answer is matched, the slots up to its place are        *)
(* filled in its order; later all are.                                     *)
(***************************************************************************)
NamesInv ==
  complete =>
    \E p, q, w :
      /\ FirstOrder(p)
      /\ Answers(p, q, w)
      /\ \/ Filled(p, Len(gpus.nvtop))
         \/ /\ answer.at + Len(answer.left) = Len(gpus.nvtop)
            /\ q = p
            /\ Filled(p, answer.at)

\* The first order shows every GPU.
LEMMA FirstOrderIsOnto ==
  ASSUME gpus \in GpuMachines, NEW p, FirstOrder(p)
  PROVE  \A g \in Gpus : \E i \in Gpus : p[i] = g
  <1>1. Len(gpus.nvtop) \in Nat
    BY GpusOfMachine
  <1>2. IsFiniteSet(Gpus)
    BY <1>1, FS_Interval DEF Gpus
  <1>3. p \in Injection(Gpus, Gpus)
    BY DEF FirstOrder, Injective, Injection, IsInjective, Gpus
  <1>4. p \in Surjection(Gpus, Gpus)
    BY <1>2, <1>3, FS_Injection
  <1> QED
    BY <1>4 DEF Surjection

(***************************************************************************)
(* A slot of the name that is matched next is free: each used one answers  *)
(* for another GPU of that name, and there are as many slots of a name as  *)
(* GPUs.                                                                   *)
(***************************************************************************)
LEMMA SlotOfNameIsFree ==
  ASSUME SampleTypeOK, ~ Unlocked, NEW p, NEW q, NEW w, FirstOrder(p), Answers(p, q, w)
  PROVE  \E e \in Slots \ answer.used :
           e < Len(gpus.nvtop) /\ SlotName(p, e) = Head(answer.left)
  <1> DEFINE name == Head(answer.left)
             next == q[answer.at + 1]
             same == {g \in Gpus : gpus.nvtop[g] = name}
  <1>0. /\ answer.at \in Nat /\ Len(answer.left) \in Nat \ {0} /\ name = answer.left[1]
        /\ Len(gpus.nvtop) \in Nat /\ Len(gpus.nvtop) <= MaxSlots
    BY NextToMatch, GpusOfMachine DEF SampleTypeOK
  <1>1. next \in same
    <2>1. answer.at + 1 \in 1 .. answer.at + Len(answer.left) /\ 1 \in 1 .. Len(answer.left)
      BY <1>0
    <2> QED
      BY <1>0, <2>1 DEF Answers
  <1>2. SUFFICES ASSUME \A e \in Slots :
                          e < Len(gpus.nvtop) /\ SlotName(p, e) = name => e \in answer.used
                 PROVE  FALSE
    OBVIOUS
  <1>3. \A g \in same : \E j \in 1 .. answer.at : p[w[j] + 1] = g
    <2> SUFFICES ASSUME NEW g \in same PROVE \E j \in 1 .. answer.at : p[w[j] + 1] = g
      OBVIOUS
    <2>1. PICK i \in Gpus : p[i] = g
      BY FirstOrderIsOnto DEF SampleTypeOK
    <2>2. i - 1 \in Slots /\ i - 1 < Len(gpus.nvtop) /\ (i - 1) + 1 = i
      BY <1>0, SamplesAssumption DEF Gpus, Slots
    <2>3. SlotName(p, i - 1) = name
      BY <2>1, <2>2 DEF SlotName
    <2>4. i - 1 \in answer.used
      BY <1>2, <2>2, <2>3
    <2>5. PICK j \in 1 .. answer.at : w[j] = i - 1
      BY <2>4 DEF Answers
    <2> QED
      BY <2>1, <2>2, <2>5
  <1> DEFINE place == [g \in same |-> CHOOSE j \in 1 .. answer.at : p[w[j] + 1] = g]
             other == [g \in same |-> q[place[g]]]
  <1>4. \A g \in same : place[g] \in 1 .. answer.at /\ p[w[place[g]] + 1] = g
    BY <1>3
  <1> HIDE DEF place
  <1>5. \A g \in same : other[g] \in same \ {next}
    <2> SUFFICES ASSUME NEW g \in same PROVE q[place[g]] \in same \ {next}
      OBVIOUS
    <2>1. place[g] \in 1 .. answer.at + Len(answer.left) /\ place[g] # answer.at + 1
          /\ answer.at + 1 \in 1 .. answer.at + Len(answer.left)
      BY <1>0, <1>4
    <2>2. q[place[g]] \in Gpus /\ q[place[g]] # next
      BY <2>1 DEF Answers, Injective
    <2>3. gpus.nvtop[q[place[g]]] = name
      <3>1. gpus.nvtop[g] = name
        OBVIOUS
      <3> QED
        BY <1>4, <3>1 DEF Answers, SlotName
    <2> QED
      BY <2>2, <2>3
  <1>6. \A g, h \in same : other[g] = other[h] => g = h
    <2> SUFFICES ASSUME NEW g \in same, NEW h \in same, q[place[g]] = q[place[h]] PROVE g = h
      OBVIOUS
    <2>1. /\ place[g] \in 1 .. answer.at + Len(answer.left)
          /\ place[h] \in 1 .. answer.at + Len(answer.left)
      BY <1>0, <1>4
    <2>2. place[g] = place[h]
      BY <2>1 DEF Answers, Injective
    <2> QED
      BY <1>4, <2>2
  <1>7. IsFiniteSet(same) /\ IsFiniteSet(same \ {next})
        /\ Cardinality(same \ {next}) < Cardinality(same)
    <2>1. IsFiniteSet(Gpus)
      BY <1>0, FS_Interval DEF Gpus
    <2>2. IsFiniteSet(same)
      BY <2>1, FS_Subset
    <2> HIDE DEF same, next
    <2>3. Cardinality(same) \in Nat
      BY <2>2, FS_CardinalityType
    <2>4. IsFiniteSet(same \ {next}) /\ Cardinality(same \ {next}) = Cardinality(same) - 1
      BY <1>1, <2>2, FS_RemoveElement
    <2> QED
      BY <2>2, <2>3, <2>4
  <1> HIDE DEF same, next
  <1>8. other \in [same -> same \ {next}]
    BY <1>5
  <1> HIDE DEF other
  <1> QED
    BY <1>6, <1>7, <1>8, FS_PigeonHole

LEMMA NamesInitInv == SampleInit => NamesInv
  BY DEF SampleInit, NamesInv

\* A sample that is matched to a slot of its name, or to the next one of the first answer.
LEMMA MatchKeepsNames ==
  ASSUME SampleTypeOK, NamesInv, complete, MatchSample
  PROVE  NamesInv'
  <1> DEFINE name == Head(answer.left)
             N == Len(gpus.nvtop)
  <1>1. PICK p, q, w :
          /\ FirstOrder(p)
          /\ Answers(p, q, w)
          /\ \/ Filled(p, N)
             \/ answer.at + Len(answer.left) = N /\ q = p /\ Filled(p, answer.at)
    BY DEF NamesInv
  <1>2. PICK e \in Match(name) :
          /\ AddSample(e, name)
          /\ answer' = [left |-> Tail(answer.left), used |-> answer.used \cup {e}, at |-> answer.at + 1]
    BY DEF MatchSample
  <1>3. /\ ~ Unlocked /\ UNCHANGED <<gpus, complete>>
    BY DEF MatchSample
  <1>4. /\ answer.at \in Nat /\ Len(answer.left) \in Nat \ {0} /\ name = answer.left[1]
        /\ N \in Nat /\ N <= MaxSlots /\ answer.at < N /\ answer.at \in Slots /\ name \in Gpu
        /\ Len(Tail(answer.left)) = Len(answer.left) - 1
        /\ \A i \in 1 .. Len(Tail(answer.left)) : Tail(answer.left)[i] = answer.left[i + 1]
    BY <1>3, NextToMatch, GpusOfMachine DEF SampleTypeOK, Gpu
  <1>5. name = gpus.nvtop[q[answer.at + 1]]
    <2>1. 1 \in 1 .. Len(answer.left)
      BY <1>4
    <2> QED
      BY <1>1, <1>4, <2>1 DEF Answers
  <1>6. \A x \in Slots : Count(x) \in Nat /\ (Exists(x) <=> Count(x) # 0)
    <2>1. \A x \in Slots : samples[x] \in Seq(Gpu)
      BY DEF SampleTypeOK, Entries, Gpu
    <2> QED
      BY <2>1, LenProperties, EmptySeq DEF Count, Exists
  \* The slot that takes the sample has its name, as the first order says, or will have.
  <1>7. /\ e \in Slots /\ e < N /\ SlotName(p, e) = name
        /\ \/ Filled(p, N)
           \/ answer.at + Len(answer.left) = N /\ q = p /\ Filled(p, answer.at) /\ e = answer.at
    <2>1. CASE Filled(p, N)
      <3>1. \A x \in Slots : EntryNamed(x, name) => x < N /\ SlotName(p, x) = name
        BY <1>6, <2>1 DEF Filled, EntryNamed
      <3>2. Exists(answer.at)
        BY <1>4, <2>1 DEF Filled
      <3>3. CASE EntryNamed(answer.at, name)
        <4>1. e = answer.at
          BY <1>2, <3>3 DEF Match
        <4> QED
          BY <1>4, <2>1, <3>1, <3>3, <4>1
      <3>4. CASE ~ EntryNamed(answer.at, name)
        <4>1. PICK x \in Slots \ answer.used : x < N /\ SlotName(p, x) = name
          BY <1>1, <1>3, SlotOfNameIsFree
        <4>2. EntryNamed(x, name)
          <5>1. Exists(x) /\ Count(x) \in 1 .. Count(x)
            BY <1>6, <2>1, <4>1 DEF Filled
          <5> QED
            BY <2>1, <4>1, <5>1 DEF Filled, EntryNamed
        <4>3. e \in Slots /\ EntryNamed(e, name)
          BY <1>2, <3>2, <3>4, <4>1, <4>2 DEF Match
        <4> QED
          BY <2>1, <3>1, <4>3
      <3> QED
        BY <3>3, <3>4
    <2>2. CASE answer.at + Len(answer.left) = N /\ q = p /\ Filled(p, answer.at)
      <3>1. ~ Exists(answer.at)
        BY <1>4, <2>2 DEF Filled
      <3>2. e = answer.at
        BY <1>2, <3>1 DEF Match
      <3> QED
        BY <1>4, <1>5, <2>2, <3>2 DEF SlotName
    <2> QED
      BY <1>1, <2>1, <2>2
  <1>8. /\ Count(e)' = Count(e) + 1 /\ Count(e) \in Nat /\ samples'[e][Count(e) + 1] = name
        /\ \A i \in 1 .. Count(e) : samples'[e][i] = samples[e][i]
        /\ \A x \in Slots \ {e} : samples'[x] = samples[x]
        /\ Exists(e)'
    BY <1>2, <1>4, <1>7, SampleIsAdded, SampleKeepsCounts, MachineAssumption DEF Entries
  <1>9. \A x \in Slots \ {e} : Count(x)' = Count(x) /\ (Exists(x)' <=> Exists(x))
    BY <1>8 DEF Count, Exists
  <1>10. \A x \in Slots : SlotName(p, x)' = SlotName(p, x)
    BY <1>3 DEF SlotName
  <1> DEFINE FilledNow(m) ==
        \A x \in Slots :
          IF x < m THEN Exists(x)' /\ \A i \in 1 .. Count(x)' : samples'[x][i] = SlotName(p, x)
                   ELSE ~ Exists(x)'
  <1>11. ASSUME NEW n \in Nat, Filled(p, n), NEW m \in Nat, n <= m,
                \A x \in Slots : x < m <=> x < n \/ x = e
         PROVE  FilledNow(m)
    <2> SUFFICES ASSUME NEW x \in Slots
                 PROVE  IF x < m
                          THEN Exists(x)' /\ \A i \in 1 .. Count(x)' : samples'[x][i] = SlotName(p, x)
                          ELSE ~ Exists(x)'
      OBVIOUS
    <2>1. CASE x # e
      BY <1>8, <1>9, <1>11, <2>1 DEF Filled
    <2>2. CASE x = e
      <3> SUFFICES ASSUME NEW i \in 1 .. Count(e) + 1 PROVE samples'[e][i] = name
        BY <1>7, <1>8, <1>11, <2>2
      <3>1. CASE i = Count(e) + 1
        BY <1>8, <3>1
      <3>2. CASE i # Count(e) + 1
        <4>1. i \in 1 .. Count(e)
          BY <1>8, <3>2
        <4>2. e < n
          BY <1>6, <1>7, <1>11, <4>1 DEF Filled
        <4> QED
          BY <1>7, <1>8, <1>11, <4>1, <4>2 DEF Filled
      <3> QED
        BY <3>1, <3>2
    <2> QED
      BY <2>1, <2>2
  <1>v. PICK v : v = [j \in 1 .. answer.at + 1 |-> IF j = answer.at + 1 THEN e ELSE w[j]]
    OBVIOUS
  <1>w. /\ v[answer.at + 1] = e /\ answer.at + 1 \in 1 .. answer.at + 1
        /\ \A j \in 1 .. answer.at : v[j] = w[j] /\ j \in 1 .. answer.at + 1
        /\ \A j \in 1 .. answer.at + 1 : j \in 1 .. answer.at \/ j = answer.at + 1
    BY <1>4, <1>v
  <1>12. Answers(p, q, v)'
    <2>1. /\ answer'.at = answer.at + 1 /\ answer'.left = Tail(answer.left)
          /\ answer'.used = answer.used \cup {e} /\ gpus' = gpus
          /\ answer'.at + Len(answer'.left) = answer.at + Len(answer.left)
      BY <1>2, <1>3, <1>4
    <2>2. q \in [1 .. answer'.at + Len(answer'.left) -> Gpus]
          /\ Injective(q, answer'.at + Len(answer'.left))
      BY <1>1, <2>1 DEF Answers
    <2>3. \A i \in 1 .. Len(answer'.left) : answer'.left[i] = gpus.nvtop[q[answer'.at + i]]
      <3> SUFFICES ASSUME NEW i \in 1 .. Len(Tail(answer.left))
                   PROVE  Tail(answer.left)[i] = gpus.nvtop[q[answer.at + 1 + i]]
        BY <2>1
      <3>0. i \in 1 .. Len(answer.left) - 1
        BY <1>4
      <3>1. i + 1 \in 1 .. Len(answer.left) /\ answer.at + (i + 1) = answer.at + 1 + i
        <4>1. answer.at \in Nat /\ Len(answer.left) \in Nat
          BY <1>4
        <4> QED
          BY <3>0, <4>1
      <3> QED
        BY <1>1, <1>4, <3>1 DEF Answers
    <2>4. v \in [1 .. answer'.at -> {x \in Slots : x < N}]
      <3>1. w \in [1 .. answer.at -> {x \in Slots : x < N}] /\ e \in {x \in Slots : x < N}
        BY <1>1, <1>7 DEF Answers
      <3> QED
        BY <1>v, <1>w, <2>1, <3>1
    <2>5. answer'.used = {v[j] : j \in 1 .. answer'.at}
      <3>1. answer.used = {w[j] : j \in 1 .. answer.at}
        BY <1>1 DEF Answers
      <3>2. ASSUME NEW x PROVE x \in answer.used \cup {e} <=> \E j \in 1 .. answer.at + 1 : x = v[j]
        BY <1>w, <3>1
      <3> QED
        BY <2>1, <3>2
    <2>6. \A j \in 1 .. answer'.at : SlotName(p, v[j]) = gpus.nvtop[q[j]]
      <3> SUFFICES ASSUME NEW j \in 1 .. answer.at + 1
                   PROVE  SlotName(p, v[j]) = gpus.nvtop[q[j]]
        BY <2>1
      <3>1. CASE j = answer.at + 1
        BY <1>5, <1>7, <1>w, <3>1
      <3>2. CASE j # answer.at + 1
        BY <1>1, <1>w, <3>2 DEF Answers
      <3> QED
        BY <3>1, <3>2
    <2> QED
      BY <2>1, <2>2, <2>3, <2>4, <2>5, <2>6 DEF Answers, Gpus, Injective, SlotName
  <1>13. FirstOrder(p)'
    BY <1>1, <1>3 DEF FirstOrder, Gpus, Injective
  <1>14. \/ Filled(p, N)'
         \/ (answer.at + Len(answer.left) = N)' /\ q = p /\ Filled(p, answer.at)'
    <2>1. CASE Filled(p, N)
      <3>1. FilledNow(N)
        BY <1>4, <1>7, <1>11, <2>1
      <3> QED
        BY <1>3, <1>10, <3>1 DEF Filled
    <2>2. CASE answer.at + Len(answer.left) = N /\ q = p /\ Filled(p, answer.at) /\ e = answer.at
      <3>1. answer'.at = answer.at + 1 /\ answer'.at + Len(answer'.left) = N
        <4>1. answer'.at = answer.at + 1 /\ Len(answer'.left) = Len(answer.left) - 1
          BY <1>2, <1>4
        <4>2. \A a, b \in Nat : (a + 1) + (b - 1) = a + b
          OBVIOUS
        <4>3. (answer.at + 1) + (Len(answer.left) - 1) = answer.at + Len(answer.left)
          BY <1>4, <4>2, Zenon
        <4> QED
          BY <2>2, <4>1, <4>3, Zenon
      <3>2. \A x \in Slots : x < answer.at + 1 <=> x < answer.at \/ x = e
        <4>1. Slots \subseteq Nat /\ answer.at \in Nat /\ e = answer.at
          BY <1>4, <2>2 DEF Slots
        <4>2. \A a, x \in Nat : x < a + 1 <=> x < a \/ x = a
          OBVIOUS
        <4> QED
          BY <4>1, <4>2, Zenon
      <3>3. FilledNow(answer.at + 1)
        <4>1. answer.at + 1 \in Nat /\ answer.at <= answer.at + 1
          BY <1>4
        <4> HIDE DEF FilledNow
        <4> QED
          BY <1>4, <1>11, <2>2, <3>2, <4>1, Zenon
      <3>4. Filled(p, answer.at)'
        BY <1>10, <3>1, <3>3 DEF Filled
      <3> QED
        BY <1>3, <2>2, <3>1, <3>4
    <2> QED
      BY <1>7, <2>1, <2>2
  <1> QED
    BY <1>3, <1>12, <1>13, <1>14 DEF NamesInv

\* A new answer is in some order, and the first is the first order.
LEMMA NewAnswerKeepsNames ==
  ASSUME SampleTypeOK, NamesInv, NvtopAnswers, complete'
  PROVE  NamesInv'
  <1> DEFINE N == Len(gpus.nvtop)
  <1>1. PICK n \in 1 .. N : \E p \in [1 .. n -> 1 .. N] :
          /\ \A i, j \in 1 .. n : p[i] = p[j] => i = j
          /\ answer' = [left |-> [i \in 1 .. n |-> gpus.nvtop[p[i]]], used |-> {}, at |-> 0]
          /\ complete' = IF \A e \in Slots : ~ Exists(e) THEN n = N ELSE complete
    BY DEF NvtopAnswers
  <1>2. PICK q \in [1 .. n -> 1 .. N] :
          /\ \A i, j \in 1 .. n : q[i] = q[j] => i = j
          /\ answer' = [left |-> [i \in 1 .. n |-> gpus.nvtop[q[i]]], used |-> {}, at |-> 0]
          /\ complete' = IF \A e \in Slots : ~ Exists(e) THEN n = N ELSE complete
    BY <1>1
  <1>3. Unlocked /\ UNCHANGED <<gpus, samples>>
    BY DEF NvtopAnswers
  <1>4. n \in Nat /\ N \in Nat /\ N <= MaxSlots
    BY GpusOfMachine DEF SampleTypeOK
  <1>5. /\ answer'.at = 0 /\ answer'.used = {} /\ Len(answer'.left) = n
        /\ answer'.left = [i \in 1 .. n |-> gpus.nvtop[q[i]]]
    BY <1>2, AnswerIsTyped
  <1>w. PICK w : w = [j \in 1 .. 0 |-> 0]
    OBVIOUS
  <1>6. ASSUME NEW p PROVE Answers(p, q, w)'
    <2>1. answer'.at + Len(answer'.left) = n
      BY <1>4, <1>5
    <2>2. \A i \in 1 .. n : answer'.left[i] = gpus.nvtop[q[answer'.at + i]]
      BY <1>4, <1>5
    <2>3. w \in [1 .. answer'.at -> {e \in Slots : e < N}]
      BY <1>w, <1>5
    <2>4. \A j : j \notin 1 .. answer'.at
      BY <1>5
    <2>5. answer'.used = {w[j] : j \in 1 .. answer'.at}
      BY <1>5, <2>4
    <2> QED
      BY <1>2, <1>3, <1>5, <2>1, <2>2, <2>3, <2>4, <2>5 DEF Answers, Gpus, Injective
  <1>7. CASE \A e \in Slots : ~ Exists(e)
    <2>1. n = N
      BY <1>2, <1>7
    <2>2. FirstOrder(q)'
      BY <1>2, <1>3, <2>1 DEF FirstOrder, Gpus, Injective
    <2>3. \A e \in Slots : ~ (e < 0)
      BY SamplesAssumption DEF Slots
    <2>4. Filled(q, answer.at)'
      BY <1>3, <1>5, <1>7, <2>3 DEF Filled, Exists
    <2>5. (answer.at + Len(answer.left) = Len(gpus.nvtop))'
      BY <1>3, <1>4, <1>5, <2>1
    <2> QED
      BY <1>6, <2>2, <2>4, <2>5 DEF NamesInv
  <1>8. CASE ~ \A e \in Slots : ~ Exists(e)
    <2>1. complete
      BY <1>2, <1>8
    <2>2. PICK p, r, v :
            /\ FirstOrder(p)
            /\ Answers(p, r, v)
            /\ \/ Filled(p, N)
               \/ answer.at + Len(answer.left) = N /\ r = p /\ Filled(p, answer.at)
      BY <2>1 DEF NamesInv
    <2>3. Len(answer.left) = 0 /\ answer.at \in Nat
      BY <1>3, EmptySeq DEF Unlocked, SampleTypeOK
    <2>4. Filled(p, N)
      BY <1>4, <2>2, <2>3
    <2>5. Filled(p, Len(gpus.nvtop))'
      BY <1>3, <2>4 DEF Filled, SlotName, Exists, Count
    <2>6. FirstOrder(p)'
      BY <1>3, <2>2 DEF FirstOrder, Gpus, Injective
    <2> QED
      BY <1>6, <2>5, <2>6 DEF NamesInv
  <1> QED
    BY <1>7, <1>8

\* Steps that touch neither the slots nor the answer.
LEMMA SlotsUntouched ==
  ASSUME NamesInv, UNCHANGED <<gpus, complete, answer>>, \A e \in Slots : samples'[e] = samples[e]
  PROVE  NamesInv'
  <1> SUFFICES ASSUME complete PROVE NamesInv'
    BY DEF NamesInv
  <1>1. PICK p, q, w :
          /\ FirstOrder(p)
          /\ Answers(p, q, w)
          /\ \/ Filled(p, Len(gpus.nvtop))
             \/ answer.at + Len(answer.left) = Len(gpus.nvtop) /\ q = p /\ Filled(p, answer.at)
    BY DEF NamesInv
  <1>2. FirstOrder(p)' /\ Answers(p, q, w)'
    BY <1>1 DEF FirstOrder, Answers, Gpus, Injective, SlotName
  <1>3. Filled(p, Len(gpus.nvtop)) => Filled(p, Len(gpus.nvtop))'
    BY DEF Filled, SlotName, Exists, Count
  <1>4. Filled(p, answer.at) => Filled(p, answer.at)'
    BY DEF Filled, SlotName, Exists, Count
  <1> QED
    BY <1>1, <1>2, <1>3, <1>4 DEF NamesInv

LEMMA NamesStep == SampleTypeOK /\ NamesInv /\ [SampleNext]_sampleVars => NamesInv'
  <1> SUFFICES ASSUME SampleTypeOK, NamesInv, [SampleNext]_sampleVars PROVE NamesInv'
    OBVIOUS
  <1>1. ASSUME NEW o \in gpus.others, UpdateGpu(o) PROVE NamesInv'
    <2>1. o \in Others /\ o \in Entries /\ o \in Gpu /\ o \notin Slots
      BY GpusOfMachine, MachineAssumption DEF SampleTypeOK, Entries, Gpu
    <2>2. \A e \in Slots : samples'[e] = samples[e]
      BY <1>1, <2>1, SampleIsAdded DEF UpdateGpu, Entries
    <2> QED
      BY <1>1, <2>2, SlotsUntouched DEF UpdateGpu
  <1>2. ASSUME NEW o \in gpus.others, SuspendGpu(o) PROVE NamesInv'
    BY <1>2, SlotsUntouched DEF SuspendGpu
  <1>3. CASE NvtopAnswers
    BY <1>3, NewAnswerKeepsNames DEF NamesInv
  <1>4. CASE MatchSample
    BY <1>4, MatchKeepsNames DEF NamesInv, MatchSample
  <1>5. ASSUME NEW k \in gpus.keys, GetCurrentData(k) PROVE NamesInv'
    BY <1>5, SlotsUntouched DEF GetCurrentData
  <1>6. CASE UNCHANGED sampleVars
    BY <1>6, SlotsUntouched DEF sampleVars
  <1> QED
    BY <1>1, <1>2, <1>3, <1>4, <1>5, <1>6 DEF SampleNext

(***************************************************************************)
(* After a complete first answer an entry only ever sums GPUs of one name: *)
(* see EntriesKeepTheirName.                                               *)
(***************************************************************************)
THEOREM EntriesHaveOneName == SampleSpec => []EntriesKeepTheirName
<1>1. SampleTypeOK /\ NamesInv => EntriesKeepTheirName
  <2> SUFFICES ASSUME SampleTypeOK, NamesInv, complete, NEW e \in Slots, NEW i \in 1 .. Count(e)
               PROVE  samples[e][i] = samples[e][1]
    BY DEF EntriesKeepTheirName
  <2>1. PICK p, n : Filled(p, n)
    BY DEF NamesInv
  <2>2. Count(e) \in Nat /\ (Exists(e) <=> Count(e) # 0)
    <3>1. samples[e] \in Seq(Gpu)
      BY DEF SampleTypeOK, Entries, Gpu
    <3> QED
      BY <3>1, LenProperties, EmptySeq DEF Count, Exists
  <2>3. Exists(e) /\ 1 \in 1 .. Count(e)
    BY <2>2
  <2> QED
    BY <2>1, <2>3 DEF Filled
<1> QED
  BY <1>1, NamesInitInv, NamesStep, SamplesTypeCorrect, PTL DEF SampleSpec
=============================================================================
