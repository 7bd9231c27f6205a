---------------------------- MODULE MCKeptState ----------------------------
(***************************************************************************)
(* State that is kept from one operation to the next: the files of the     *)
(* store, the configuration, the cached snapshot, the drives and their     *)
(* data, and the sums of the GPU samples.  They share nothing, so one of   *)
(* them changes in each behaviour.                                         *)
(***************************************************************************)
EXTENDS StoreFiles, ConfigCommands, GatherStats, SmartDevices, GpuSamples

CONSTANTS s1, s2, card0, h0, h1

VARIABLE part

allVars == <<part, vars, configVars, gatherVars, smartVars, sampleVars>>

AnyOf(S) == CHOOSE x \in S : TRUE

KeptStateInit ==
  /\ part \in {"store", "config", "gather", "smart", "samples"}
  /\ Init /\ (part # "store" => db = None)
  /\ ConfigInit /\ (part # "config" => override = <<>> /\ configFile = Missing)
  /\ GatherInit
  /\ SmartInit
  /\ part # "smart" => drives = AnyOf(DriveSets) /\ setting = AnyOf(Settings) /\ attached = {}
  /\ SampleInit
  /\ part # "samples" => gpus = AnyOf(GpuMachines)

KeptStateNext ==
  \/ part = "store" /\ Next /\ UNCHANGED <<part, configVars, gatherVars, smartVars, sampleVars>>
  \/ part = "config" /\ ConfigNext /\ UNCHANGED <<part, vars, gatherVars, smartVars, sampleVars>>
  \/ part = "gather" /\ GatherNext /\ UNCHANGED <<part, vars, configVars, smartVars, sampleVars>>
  \/ part = "smart" /\ SmartNext /\ UNCHANGED <<part, vars, configVars, gatherVars, sampleVars>>
  \/ part = "samples" /\ SampleNext /\ UNCHANGED <<part, vars, configVars, gatherVars, smartVars>>

KeptStateSpec == KeptStateInit /\ [][KeptStateNext]_allVars

\* The type invariants of the five parts: what the store, the configuration commands, the
\* collector, the SmartManager and the GPUManager may keep.
KeptTypeOK == TypeOK /\ ConfigTypeOK /\ GatherTypeOK /\ SmartTypeOK /\ SampleTypeOK

-----------------------------------------------------------------------------
\* Nothing is overridden, or the history by the environment or the interval by a flag.
MCOverrides == {<<>>, [history |-> "b"], [collector_interval |-> "b"]}

(* Drives: what a scan shows is or is not what they are; one is reached     *)
(* under another name only, two share a path, one is an array.              *)

Drive(path, answers, scan, type, schema) ==
  [path |-> path, answers |-> answers, scan |-> scan, type |-> type, schema |-> schema,
   guessed |-> type \in Parsers, sysfs |-> type = "mdraid"]
Sata == Drive("sda", "sda", "sat", "sat", "sat")
Sas == Drive("sda", "sda", "scsi", "scsi", "scsi")
Misread == Drive("sdb", "sdb", "scsi", "sat", "sat")
Controller == Drive("nvme0", "nvme0", "nvme", "nvme", "nvme")
OnlyNamespace == Drive("nvme0", "nvme0n1", "nvme", "nvme", "nvme")
Raid0 == Drive("sdc", "sdc", "megaraid,0", "megaraid,0", "scsi")
Raid1 == Drive("sdc", "sdc", "megaraid,1", "megaraid,1", "scsi")
Array == Drive("md0", "md0", "mdraid", "mdraid", "sat")

MCDrives == {Sata, Sas, Misread, Controller, OnlyNamespace, Raid0, Raid1, Array}
MCDriveSets == {{Sata, Sas}, {Misread, Array}, {Controller}, {OnlyNamespace, Sata}, {Raid0, Raid1}}

Setting(exclude, devices, smartctl) ==
  [exclude |-> exclude, devices |-> devices, smartctl |-> smartctl]
MCSettings ==
  {Setting({}, NoData, TRUE), Setting({"nvme0n1"}, NoData, TRUE), Setting({}, NoData, FALSE),
   Setting({}, {}, TRUE), Setting({}, {[name |-> "sda", type |-> ""]}, TRUE),
   Setting({"md0"}, {[name |-> "sda", type |-> "sat"], [name |-> "sdb", type |-> "scsi"]}, TRUE)}
MCNamespace == [n \in {"nvme0"} |-> "nvme0n1"]

\* Two GPUs, three of which two have one name, and one that another source reads.
MCGpuMachines ==
  {[nvtop |-> <<"A", "B">>, others |-> {}, keys |-> {h0, h1}],
   [nvtop |-> <<"A", "A", "B">>, others |-> {}, keys |-> {}],
   [nvtop |-> <<>>, others |-> {card0}, keys |-> {h0, h1}]}
=============================================================================
