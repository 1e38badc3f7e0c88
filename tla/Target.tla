------------------------------- MODULE Target -------------------------------
(***************************************************************************)
(* Target discovery: the device dump of iree-run-module, the profile of    *)
(* each device, the preference order and the resolution of a target        *)
(* specification. A dump is a sequence of its lines, a line a record of    *)
(* what it says; a specification is a record of what it is spelled as.     *)
(***************************************************************************)
EXTENDS Integers, Sequences, SequencesExt, FiniteSets, TLC

CONSTANT HostFeatures  \* detected_host_features of this machine

Absent == "absent"
NoLimit == 0

----------------------------------------------------------------------------
(* TargetProfile *)

\* cuda_sm, and the features each compute capability adds.
CudaSm == "sm_52" :> 52 @@ "sm_53" :> 53 @@ "sm_61" :> 61 @@ "sm_70" :> 70
            @@ "sm_80" :> 80 @@ "sm_100" :> 100
CudaFeatures(arch) ==
  IF arch \notin DOMAIN CudaSm THEN {}
  ELSE {f \in {<<53, "native_f16">>, <<61, "integer_dot_product">>, <<70, "tensor_cores">>,
               <<80, "native_bf16">>, <<100, "nvfp4">>} : CudaSm[arch] >= f[1]}

LlvmCpuHost ==
  [driver |-> "local-task", id |-> 0, arch |-> Absent, features |-> HostFeatures,
   uri |-> "local-task://", name |-> "host-cpu", subgroup |-> NoLimit,
   workgroup |-> NoLimit, flags |-> {"local", "llvm-cpu", "host"}, verified |-> TRUE]

\* hip_rocm and cuda: an empty architecture leaves the profile unverified and
\* without target flags.
GpuProfile(driver, arch) ==
  [driver |-> driver, id |-> 0, arch |-> arch,
   features |-> IF arch = Absent THEN {}
                ELSE {arch} \cup (IF driver = "cuda"
                                  THEN {f[2] : f \in CudaFeatures(arch)} ELSE {}),
   uri |-> Absent, name |-> Absent,
   subgroup |-> IF driver = "cuda" THEN 32 ELSE NoLimit, workgroup |-> NoLimit,
   flags |-> IF arch = Absent THEN {} ELSE {driver, arch},
   verified |-> arch # Absent]

\* with_device_identity, with_discovered_features, with_execution_limits.
Identified(profile, id, pending) ==
  [profile EXCEPT !.id = id, !.uri = pending.uri,
     !.name = IF pending.name # Absent THEN pending.name
              ELSE IF pending.arch # Absent THEN pending.arch ELSE "device",
     !.features = @ \cup pending.features,
     !.subgroup = IF pending.subgroup # NoLimit THEN pending.subgroup ELSE @,
     !.workgroup = IF pending.workgroup # NoLimit THEN pending.workgroup ELSE @]

IsCompileReady(p) ==
  /\ p.verified
  /\ p.driver \in {"cuda", "hip", "rocm"} => p.arch # Absent

\* The digest covers every field of the profile.
Fingerprint(profile) == profile
RuntimeDevice(p) == IF p.uri # Absent THEN p.uri ELSE p.driver

----------------------------------------------------------------------------
(* parse_dump_devices *)

CpuDevice == [driver |-> "local-task", id |-> 0, uri |-> "local-task://",
              arch |-> Absent, profile |-> LlvmCpuHost]

Pending(driver, uri) ==
  [driver |-> driver, uri |-> uri, name |-> Absent, arch |-> Absent,
   features |-> {}, subgroup |-> NoLimit, workgroup |-> NoLimit]
NoPending == Pending(Absent, Absent)

\* pending_to_device: hip and rocm are one driver; of the local drivers only
\* local-task is kept.
CanonicalDriver(driver) == IF driver = "rocm" THEN "hip" ELSE driver
PendingToDevice(p, id) ==
  CASE p.driver \in {"cuda", "hip", "rocm"} ->
         <<[driver |-> CanonicalDriver(p.driver), id |-> id, uri |-> p.uri, arch |-> p.arch,
            profile |-> Identified(GpuProfile(CanonicalDriver(p.driver), p.arch), id, p)]>>
    [] p.driver = "local-task" ->
         <<[driver |-> "local-task", id |-> 0, uri |-> p.uri, arch |-> Absent,
            profile |-> LlvmCpuHost]>>
    [] OTHER -> <<>>

\* flush: the device whose lines were being read is complete. It is numbered
\* among the devices of its driver.
Numbered(devices, driver) == Cardinality({i \in DOMAIN devices : devices[i].driver = driver})
Flush(st) ==
  IF st.pending.uri = Absent THEN st
  ELSE [driver |-> st.driver, pending |-> NoPending,
        devices |-> st.devices \o
          PendingToDevice(st.pending, Numbered(st.devices, CanonicalDriver(st.pending.driver)))]

\* The attribute lines belong to the last device line.
Attribute(p, line) ==
  CASE line.says = "name" /\ p.name = Absent -> [p EXCEPT !.name = line.value]
    [] line.says = "arch" -> [p EXCEPT !.arch = line.value]
    [] line.says = "capability" -> [p EXCEPT !.features = @ \cup {line.value}]
    [] line.says = "subgroup" -> [p EXCEPT !.subgroup = line.value]
    [] line.says = "workgroup" -> [p EXCEPT !.workgroup = line.value]
    [] OTHER -> p

\* One line. A section heading names the driver of the devices that follow.
ReadLine(st, line) ==
  CASE line.says = "driver" -> [Flush(st) EXCEPT !.driver = line.value]
    [] line.says = "device" ->
         [Flush(st) EXCEPT !.pending =
            Pending(IF st.driver = Absent THEN line.scheme ELSE st.driver, line.value)]
    [] OTHER -> IF st.pending.uri = Absent THEN st
                ELSE [st EXCEPT !.pending = Attribute(st.pending, line)]

\* The state before the first line, and after each of them.
ReadFrom == [driver |-> Absent, pending |-> NoPending, devices |-> <<>>]
ReadLines(dump) ==
  LET st[n \in 0..Len(dump)] == IF n = 0 THEN ReadFrom ELSE ReadLine(st[n - 1], dump[n])
  IN st
ParseDumpDevices(dump) ==
  LET devices == Flush(ReadLines(dump)[Len(dump)]).devices
  IN IF \E i \in DOMAIN devices : devices[i].driver = "local-task"
     THEN devices ELSE Append(devices, CpuDevice)

----------------------------------------------------------------------------
(* TargetDiscovery *)

DriverRank(driver) == CASE driver = "cuda" -> 0 [] driver = "hip" -> 1 [] OTHER -> 2

\* sort_by_preference: the first, in the order of preference, of some devices.
\* The numbers of one driver's devices are already in order.
Preferred(devices, wanted) ==
  LET rank(i) == DriverRank(devices[i].driver)
  IN devices[CHOOSE i \in wanted : \A j \in wanted :
               rank(i) < rank(j) \/ (rank(i) = rank(j) /\ i <= j)]

\* discover: a dump that cannot be had leaves the CPU.
Unavailable == <<[says |-> "unavailable"]>>
Discover(dump) == IF dump = Unavailable THEN <<CpuDevice>> ELSE ParseDumpDevices(dump)

\* parse_gpu_request: `hip://id`, `rocm`, `cuda:sm_80`, `gfx1151`.
NoRequest == [driver |-> Absent, arch |-> Absent, uri |-> Absent]
ParseGpuRequest(spec) ==
  LET driver == IF spec.word \in {"rocm", "hip", "gfx"} THEN "hip" ELSE "cuda"
  IN CASE spec.form = "uri" -> [driver |-> driver, arch |-> Absent, uri |-> spec.rest]
       [] spec.form = "driver" -> [driver |-> driver, arch |-> Absent, uri |-> Absent]
       [] spec.form = "driver:arch" /\ spec.rest # "" ->
            [driver |-> driver, arch |-> spec.rest, uri |-> Absent]
       [] spec.form = "arch" -> [driver |-> driver, arch |-> spec.rest, uri |-> Absent]
       [] OTHER -> NoRequest

\* resolve: never a device that is not here, never a guessed architecture.
Matching(devices, request) ==
  {i \in DOMAIN devices : /\ devices[i].driver = request.driver
                          /\ request.arch \in {Absent, devices[i].arch}
                          /\ request.uri \in {Absent, devices[i].uri}}
Ready(device) ==
  IF IsCompileReady(device.profile) THEN [ok |-> TRUE, profile |-> device.profile]
  ELSE [ok |-> FALSE]
ResolveTarget(spec, dump) ==
  LET devices == Discover(dump)
      request == ParseGpuRequest(spec)
  IN CASE spec.form = "auto" -> Ready(Preferred(devices, DOMAIN devices))
       [] spec.form = "cpu" -> [ok |-> TRUE, profile |-> LlvmCpuHost]
       [] OTHER -> IF request = NoRequest \/ Matching(devices, request) = {} THEN [ok |-> FALSE]
                   ELSE Ready(Preferred(devices, Matching(devices, request)))
=============================================================================
