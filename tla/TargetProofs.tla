---------------------------- MODULE TargetProofs ----------------------------
(* Theorems about the target discovery and the load of Command, for every    *)
(* device dump that tells the truth and every target specification.          *)
EXTENDS CommandProofs

----------------------------------------------------------------------------
(* The loop over the lines of a dump *)

\* The states of the loop are those the code's loop goes through: the first is
\* that before any line, each of the others what reading the next line gives.
LEMMA ReadLinesSteps ==
  ASSUME NEW lines, Len(lines) \in Nat
  PROVE  /\ ReadLines(lines)[0] = ReadFrom
         /\ \A n \in 1..Len(lines) :
              ReadLines(lines)[n] = ReadLine(ReadLines(lines)[n - 1], lines[n])
<1> DEFINE IsRun(f, m) ==
             f = [n \in 0..m |-> IF n = 0 THEN ReadFrom ELSE ReadLine(f[n - 1], lines[n])]
<1>1. \A m \in Nat : \E f : IsRun(f, m)
  <2> DEFINE Bad == {m \in Nat : ~\E f : IsRun(f, m)}
  <2> SUFFICES ASSUME Bad # {} PROVE FALSE
    OBVIOUS
  <2>0. Bad \subseteq Nat
    OBVIOUS
  <2> HIDE DEF Bad
  <2>1. PICK m \in Bad : \A k \in Bad : m <= k
    BY <2>0, LeastNatural
  <2>2. CASE m = 0
    <3> USE DEF Bad
    <3>1. IsRun([n \in 0..m |-> ReadFrom], m)
      BY <2>2
    <3> QED
      BY <3>1, <2>1
  <2>3. CASE m # 0
    <3>1. m - 1 \in Nat /\ m - 1 \notin Bad
      BY <2>0, <2>1, <2>3
    <3> USE DEF Bad
    <3>2. PICK f : IsRun(f, m - 1)
      BY <3>1
    <3> DEFINE g == [n \in 0..m |-> IF n = m THEN ReadLine(f[m - 1], lines[m]) ELSE f[n]]
    <3>3. ASSUME NEW n \in 0..m
          PROVE  g[n] = IF n = 0 THEN ReadFrom ELSE ReadLine(g[n - 1], lines[n])
      <4>1. CASE n = m
        BY <4>1, <2>3, <3>1
      <4>2. CASE n # m
        <5>1. n \in 0..(m - 1) /\ g[n] = f[n]
          BY <4>2, <3>1
        <5>2. f[n] = IF n = 0 THEN ReadFrom ELSE ReadLine(f[n - 1], lines[n])
          BY <3>2, <5>1
        <5>3. n # 0 => g[n - 1] = f[n - 1]
          BY <5>1, <3>1
        <5> QED
          BY <5>1, <5>2, <5>3
      <4> QED
        BY <4>1, <4>2
    <3>4. IsRun(g, m)
      BY <3>3
    <3> QED
      BY <3>4, <2>1
  <2> QED
    BY <2>2, <2>3
<1>2. IsRun(ReadLines(lines), Len(lines))
  <2>1. PICK f : IsRun(f, Len(lines))
    BY <1>1
  <2>2. ReadLines(lines) = CHOOSE h : IsRun(h, Len(lines))
    BY DEF ReadLines
  <2> QED
    BY <2>1, <2>2
<1> QED
  BY <1>2

----------------------------------------------------------------------------
(* What a device of the inventory says of its chip *)

\* A profile that may be compiled for names a device that is here, and its chip.
Sound(profile, chips) ==
  IsCompileReady(profile) =>
    /\ RuntimeDevice(profile) \in DOMAIN chips
    /\ chips[RuntimeDevice(profile)] = profile.arch
AllSound(devices, chips) ==
  \E S : devices \in Seq(S) /\ \A d \in S : Sound(d.profile, chips)

\* What was read of a device that is not complete yet.
IsPending(p) ==
  p = [driver |-> p.driver, uri |-> p.uri, name |-> p.name, arch |-> p.arch,
       features |-> p.features, subgroup |-> p.subgroup, workgroup |-> p.workgroup]
SoFar(p, chips) == p.uri # Absent => p.uri \in DOMAIN chips /\ p.arch \in {Absent, chips[p.uri]}

\* The profile of the host is sound where the host is a device.
LEMMA HostSound ==
  ASSUME NEW chips, "local-task://" \in DOMAIN chips, chips["local-task://"] = Absent
  PROVE  IsCompileReady(LlvmCpuHost) /\ Sound(LlvmCpuHost, chips)
BY DEF Sound, IsCompileReady, RuntimeDevice, LlvmCpuHost, Absent

\* One sound device.
LEMMA OneSound ==
  ASSUME NEW chips, NEW device, Sound(device.profile, chips)
  PROVE  AllSound(<<device>>, chips)
<1>1. PICK S : S = {device}
  OBVIOUS
<1>2. <<device>> \in Seq(S) /\ \A d \in S : Sound(d.profile, chips)
  BY <1>1
<1> QED
  BY <1>2 DEF AllSound

\* pending_to_device gives at most one device, a sound one: the profile of a GPU
\* without an architecture is not verified.
LEMMA DeviceSound ==
  ASSUME NEW chips, "local-task://" \in DOMAIN chips, chips["local-task://"] = Absent,
         NEW p, IsPending(p), p.uri # Absent, SoFar(p, chips), NEW id
  PROVE  AllSound(PendingToDevice(p, id), chips)
<1>1. CASE p.driver \in {"cuda", "hip", "rocm"}
  <2> DEFINE base == GpuProfile(CanonicalDriver(p.driver), p.arch)
             profile == Identified(base, id, p)
             device == [driver |-> CanonicalDriver(p.driver), id |-> id, uri |-> p.uri,
                        arch |-> p.arch, profile |-> profile]
  <2>1. profile.uri = p.uri /\ profile.arch = p.arch /\ profile.verified = (p.arch # Absent)
    BY DEF Identified, GpuProfile
  <2>2. Sound(profile, chips)
    <3> HIDE DEF profile
    <3> QED
      BY <2>1 DEF Sound, IsCompileReady, RuntimeDevice, SoFar
  <2>3. PendingToDevice(p, id) = <<device>> /\ device.profile = profile
    BY <1>1 DEF PendingToDevice
  <2> HIDE DEF device
  <2> HIDE DEF profile
  <2> QED
    BY <2>2, <2>3, OneSound
<1>2. CASE p.driver = "local-task"
  <2> DEFINE device == [driver |-> "local-task", id |-> 0, uri |-> p.uri, arch |-> Absent,
                        profile |-> LlvmCpuHost]
  <2>1. PendingToDevice(p, id) = <<device>> /\ device.profile = LlvmCpuHost
    BY <1>2 DEF PendingToDevice
  <2> HIDE DEF device
  <2> QED
    BY <2>1, HostSound, OneSound
<1>3. CASE p.driver \notin {"cuda", "hip", "rocm", "local-task"}
  <2>1. PendingToDevice(p, id) = <<>>
    BY <1>3 DEF PendingToDevice
  <2>2. <<>> \in Seq({})
    OBVIOUS
  <2> QED
    BY <2>1, <2>2 DEF AllSound
<1> QED
  BY <1>1, <1>2, <1>3

\* Joining sound devices.
LEMMA JoinSound ==
  ASSUME NEW chips, NEW s, AllSound(s, chips), NEW t, AllSound(t, chips)
  PROVE  AllSound(s \o t, chips)
<1>1. PICK S : s \in Seq(S) /\ \A d \in S : Sound(d.profile, chips)
  BY DEF AllSound
<1>2. PICK T : t \in Seq(T) /\ \A d \in T : Sound(d.profile, chips)
  BY DEF AllSound
<1>3. s \in Seq(S \cup T) /\ t \in Seq(S \cup T)
  BY <1>1, <1>2, SeqMonotonic
<1>4. s \o t \in Seq(S \cup T)
  BY <1>3, ConcatProperties
<1> QED
  BY <1>1, <1>2, <1>4 DEF AllSound

\* The state of the loop: the devices complete so far are sound, and so is what
\* was read of the next.
ReadSound(st, chips) ==
  /\ st = [driver |-> st.driver, pending |-> st.pending, devices |-> st.devices]
  /\ IsPending(st.pending) /\ SoFar(st.pending, chips)
  /\ AllSound(st.devices, chips)

LEMMA FlushSound ==
  ASSUME NEW chips, "local-task://" \in DOMAIN chips, chips["local-task://"] = Absent,
         NEW st, ReadSound(st, chips)
  PROVE  ReadSound(Flush(st), chips) /\ Flush(st).pending.uri = Absent
<1>1. CASE st.pending.uri = Absent
  BY <1>1 DEF Flush
<1>2. CASE st.pending.uri # Absent
  <2> DEFINE device == PendingToDevice(st.pending,
                         Numbered(st.devices, CanonicalDriver(st.pending.driver)))
  <2>1. AllSound(device, chips)
    BY <1>2, DeviceSound DEF ReadSound
  <2>2. AllSound(st.devices \o device, chips)
    BY <2>1, JoinSound DEF ReadSound
  <2>3. Flush(st) = [driver |-> st.driver, pending |-> NoPending, devices |-> st.devices \o device]
    BY <1>2 DEF Flush
  <2>4. IsPending(NoPending) /\ NoPending.uri = Absent
    BY DEF IsPending, NoPending, Pending
  <2> HIDE DEF device
  <2> QED
    BY <2>2, <2>3, <2>4 DEF ReadSound, SoFar
<1> QED
  BY <1>1, <1>2

\* What is read belongs to the last device line, with no heading since.
Heads(lines, n, p) ==
  p.uri # Absent =>
    \E i \in 1..n : /\ lines[i].says = "device" /\ lines[i].value = p.uri
                    /\ \A k \in (i + 1)..n : lines[k].says \notin {"driver", "device"}

\* An attribute line changes the device it stands under, never whose it is.
LEMMA AttributeSound ==
  ASSUME NEW p, IsPending(p), NEW line
  PROVE  /\ IsPending(Attribute(p, line)) /\ Attribute(p, line).uri = p.uri
         /\ Attribute(p, line).arch = IF line.says = "arch" THEN line.value ELSE p.arch
<1>1. CASE line.says = "name" /\ p.name = Absent
  BY <1>1 DEF Attribute, IsPending
<1>2. CASE line.says = "arch"
  BY <1>2 DEF Attribute, IsPending
<1>3. CASE line.says = "capability"
  BY <1>3 DEF Attribute, IsPending
<1>4. CASE line.says = "subgroup"
  BY <1>4 DEF Attribute, IsPending
<1>5. CASE line.says = "workgroup"
  BY <1>5 DEF Attribute, IsPending
<1>6. CASE /\ ~(line.says = "name" /\ p.name = Absent)
           /\ line.says \notin {"arch", "capability", "subgroup", "workgroup"}
  BY <1>6 DEF Attribute, IsPending
<1> QED
  BY <1>1, <1>2, <1>3, <1>4, <1>5, <1>6

\* One line keeps the state of the loop sound.
LEMMA LineSound ==
  ASSUME NEW lines, NEW chips, Truthful(lines, chips), NEW n \in 1..Len(lines),
         NEW st, ReadSound(st, chips), Heads(lines, n - 1, st.pending)
  PROVE  /\ ReadSound(ReadLine(st, lines[n]), chips)
         /\ Heads(lines, n, ReadLine(st, lines[n]).pending)
<1> DEFINE line == lines[n]
<1>1. n \in Nat /\ n > 0 /\ n \in DOMAIN lines /\ n \in 1..n /\ Len(lines) \in Nat
  BY DEF Truthful
<1>2. /\ ReadSound(Flush(st), chips) /\ Flush(st).pending.uri = Absent
      /\ IsPending(Flush(st).pending)
  BY FlushSound DEF Truthful, ReadSound
<1>3. CASE line.says = "driver"
  <2> DEFINE next == ReadLine(st, line)
  <2>1. next = [driver |-> line.value, pending |-> Flush(st).pending,
                devices |-> Flush(st).devices]
    BY <1>2, <1>3 DEF ReadLine, ReadSound
  <2> HIDE DEF next
  <2> QED
    BY <1>2, <2>1 DEF ReadSound, Heads, next
<1>4. CASE line.says = "device"
  <2> DEFINE next == ReadLine(st, line)
             p == Pending(IF st.driver = Absent THEN line.scheme ELSE st.driver, line.value)
  <2>1. next = [driver |-> Flush(st).driver, pending |-> p, devices |-> Flush(st).devices]
    BY <1>2, <1>4 DEF ReadLine, ReadSound
  <2>2. p.uri = line.value /\ p.arch = Absent /\ IsPending(p)
    BY DEF Pending, IsPending
  <2> HIDE DEF p, next
  <2>3. SoFar(p, chips)
    BY <1>1, <1>4, <2>2 DEF Truthful, SoFar
  <2>4. Heads(lines, n, p)
    BY <1>1, <1>4, <2>2 DEF Heads
  <2> QED
    BY <1>2, <2>1, <2>2, <2>3, <2>4 DEF ReadSound, next
<1>5. CASE line.says \notin {"driver", "device"}
  <2> DEFINE next == ReadLine(st, line)
             p == Attribute(st.pending, line)
  <2>1. CASE st.pending.uri = Absent
    <3>1. next = st
      BY <1>5, <2>1 DEF ReadLine
    <3> QED
      BY <2>1, <3>1 DEF Heads
  <2>2. CASE st.pending.uri # Absent
    <3>1. next = [driver |-> st.driver, pending |-> p, devices |-> st.devices]
      BY <1>5, <2>2 DEF ReadLine, ReadSound
    <3>2. /\ IsPending(p) /\ p.uri = st.pending.uri
          /\ p.arch = IF line.says = "arch" THEN line.value ELSE st.pending.arch
      BY AttributeSound DEF ReadSound
    <3> HIDE DEF p, next
    <3>3. PICK i \in 1..(n - 1) :
            /\ lines[i].says = "device" /\ lines[i].value = st.pending.uri
            /\ \A k \in (i + 1)..(n - 1) : lines[k].says \notin {"driver", "device"}
      BY <2>2 DEF Heads
    <3>4. i \in 1..n /\ i \in DOMAIN lines /\ i < n
      BY <1>1 DEF Truthful
    <3>5. \A k \in (i + 1)..n : lines[k].says \notin {"driver", "device"}
      <4> SUFFICES ASSUME NEW k \in (i + 1)..n
                   PROVE  lines[k].says \notin {"driver", "device"}
        OBVIOUS
      <4>1. k = n \/ k \in (i + 1)..(n - 1)
        BY <1>1, <3>4
      <4> QED
        BY <4>1, <3>3, <1>5
    <3>6. Heads(lines, n, p)
      BY <3>2, <3>3, <3>4, <3>5 DEF Heads
    <3>7. SoFar(p, chips)
      <4>1. line.says = "arch" => line.value \in {Absent, chips[lines[i].value]}
        BY <1>1, <3>3, <3>4, <3>5 DEF Truthful, Under
      <4> QED
        BY <2>2, <3>2, <3>3, <4>1 DEF SoFar, ReadSound
    <3> QED
      BY <3>1, <3>2, <3>6, <3>7 DEF ReadSound, next
  <2> QED
    BY <2>1, <2>2
<1> QED
  BY <1>3, <1>4, <1>5

\* So the whole loop does.
LEMMA LinesSound ==
  ASSUME NEW lines, NEW chips, Truthful(lines, chips)
  PROVE  ReadSound(ReadLines(lines)[Len(lines)], chips)
<1> DEFINE st(n) == ReadLines(lines)[n]
           Good(n) == ReadSound(st(n), chips) /\ Heads(lines, n, st(n).pending)
           Bad == {n \in 0..Len(lines) : ~Good(n)}
<1>1. Len(lines) \in Nat
  BY DEF Truthful
<1>2. st(0) = ReadFrom /\ \A n \in 1..Len(lines) : st(n) = ReadLine(st(n - 1), lines[n])
  BY <1>1, ReadLinesSteps
<1> HIDE DEF st
<1>3. Good(0)
  <2>1. AllSound(<<>>, chips)
    <3>1. PICK S : S = {}
      OBVIOUS
    <3>2. <<>> \in Seq(S) /\ \A d \in S : Sound(d.profile, chips)
      BY <3>1
    <3> QED
      BY <3>2 DEF AllSound
  <2>2. IsPending(NoPending) /\ NoPending.uri = Absent
    BY DEF IsPending, NoPending, Pending
  <2> QED
    BY <1>2, <2>1, <2>2 DEF ReadFrom, ReadSound, SoFar, Heads
<1>4. ASSUME NEW n \in 1..Len(lines), Good(n - 1)
      PROVE  Good(n)
  BY <1>2, <1>4, LineSound
<1> HIDE DEF Good
<1>5. Bad = {}
  <2> SUFFICES ASSUME Bad # {} PROVE FALSE
    OBVIOUS
  <2>1. Bad \subseteq Nat
    BY <1>1
  <2> HIDE DEF Bad
  <2>2. PICK n \in Bad : \A k \in Bad : n <= k
    BY <2>1, LeastNatural
  <2>3. n # 0 /\ n - 1 \in 0..Len(lines) /\ n - 1 \notin Bad
    BY <1>1, <1>3, <2>1, <2>2 DEF Bad
  <2>4. Good(n - 1) /\ n \in 1..Len(lines)
    BY <1>1, <2>2, <2>3 DEF Bad
  <2> QED
    BY <1>4, <2>2, <2>4 DEF Bad
<1>6. Good(Len(lines))
  BY <1>1, <1>5
<1> QED
  BY <1>6 DEF Good, st

----------------------------------------------------------------------------
(* discover and resolve *)

\* The inventory is sound and never empty: the CPU is always in it.
LEMMA DiscoverSound ==
  ASSUME NEW lines, NEW chips, Truthful(lines, chips)
  PROVE  AllSound(Discover(lines), chips) /\ DOMAIN Discover(lines) # {}
<1>1. "local-task://" \in DOMAIN chips /\ chips["local-task://"] = Absent
  BY DEF Truthful
<1>2. AllSound(<<CpuDevice>>, chips)
  <2>1. CpuDevice.profile = LlvmCpuHost
    BY DEF CpuDevice
  <2> QED
    BY <1>1, <2>1, HostSound, OneSound
<1>3. CASE lines = Unavailable
  <2>1. Discover(lines) = <<CpuDevice>> /\ 1 \in DOMAIN <<CpuDevice>>
    BY <1>3 DEF Discover
  <2> QED
    BY <1>2, <2>1
<1>4. CASE lines # Unavailable
  <2> DEFINE devices == Flush(ReadLines(lines)[Len(lines)]).devices
  <2>1. AllSound(devices, chips)
    BY <1>1, LinesSound, FlushSound DEF ReadSound
  <2>2. Discover(lines) = IF \E i \in DOMAIN devices : devices[i].driver = "local-task"
                          THEN devices ELSE Append(devices, CpuDevice)
    BY <1>4 DEF Discover, ParseDumpDevices
  <2> HIDE DEF devices
  <2>3. CASE \E i \in DOMAIN devices : devices[i].driver = "local-task"
    BY <2>1, <2>2, <2>3
  <2>4. CASE ~\E i \in DOMAIN devices : devices[i].driver = "local-task"
    <3>1. PICK S : devices \in Seq(S) /\ \A d \in S : Sound(d.profile, chips)
      BY <2>1 DEF AllSound
    <3>2. PICK T : T = S \cup {CpuDevice}
      OBVIOUS
    <3>3. \A d \in T : Sound(d.profile, chips)
      <4>1. CpuDevice.profile = LlvmCpuHost
        BY DEF CpuDevice
      <4> QED
        BY <1>1, <3>1, <3>2, <4>1, HostSound
    <3>4. devices \in Seq(T) /\ CpuDevice \in T
      BY <3>1, <3>2, SeqMonotonic
    <3>5. Append(devices, CpuDevice) \in Seq(T) /\ Append(devices, CpuDevice) # <<>>
      BY <3>4, AppendProperties
    <3>6. Discover(lines) = Append(devices, CpuDevice)
      BY <2>2, <2>4
    <3>7. 1 \in DOMAIN Discover(lines)
      BY <3>5, <3>6
    <3> QED
      BY <3>3, <3>5, <3>6, <3>7 DEF AllSound
  <2> QED
    BY <2>3, <2>4
<1> QED
  BY <1>3, <1>4

\* The preferred device is one of those that were wanted: there is a first one
\* in the order of preference.
LEMMA PreferredIsWanted ==
  ASSUME NEW devices, NEW wanted, wanted \subseteq Nat, wanted # {}
  PROVE  \E i \in wanted : Preferred(devices, wanted) = devices[i]
<1> DEFINE rank(i) == DriverRank(devices[i].driver)
           First(i) == \A j \in wanted : rank(i) < rank(j) \/ (rank(i) = rank(j) /\ i <= j)
           ranks == {rank(i) : i \in wanted}
<1>1. \A i : rank(i) \in 0..2
  BY DEF DriverRank
<1> HIDE DEF rank
<1>2. PICK r \in ranks : \A s \in ranks : r <= s
  <2>1. ranks \subseteq 0..2
    BY <1>1
  <2>2. PICK k : k \in wanted
    OBVIOUS
  <2>3. rank(k) \in ranks
    BY <2>2
  <2>4. ranks \subseteq Nat /\ ranks # {}
    <3> HIDE DEF ranks
    <3> QED
      BY <2>1, <2>3
  <2> HIDE DEF ranks
  <2> QED
    BY <2>4, LeastNatural
<1> DEFINE best == {i \in wanted : rank(i) = r}
<1>3. PICK i \in best : \A j \in best : i <= j
  <2>1. best \subseteq Nat /\ best # {}
    BY <1>2
  <2> HIDE DEF best
  <2> QED
    BY <2>1, LeastNatural
<1>4. i \in wanted /\ First(i)
  <2> SUFFICES ASSUME NEW j \in wanted
               PROVE  rank(i) < rank(j) \/ (rank(i) = rank(j) /\ i <= j)
    BY <1>3
  <2>1. r <= rank(j) /\ rank(i) = r
    BY <1>2, <1>3
  <2> QED
    BY <1>1, <1>3, <2>1
<1>5. Preferred(devices, wanted) = devices[CHOOSE k \in wanted : First(k)]
  BY DEF Preferred, rank
<1> HIDE DEF First
<1> QED
  BY <1>4, <1>5

\* A target that is resolved may be compiled for, is that of a device that is
\* here, and names its chip.
LEMMA ResolveSound ==
  ASSUME NEW lines, NEW chips, Truthful(lines, chips), NEW spec,
         ResolveTarget(spec, lines).ok
  PROVE  LET p == ResolveTarget(spec, lines).profile
         IN RuntimeDevice(p) \in DOMAIN chips /\ chips[RuntimeDevice(p)] = p.arch
<1> DEFINE devices == Discover(lines)
           gpu == ParseGpuRequest(spec)
           found == ResolveTarget(spec, lines)
<1>1. PICK S : devices \in Seq(S) /\ \A d \in S : Sound(d.profile, chips)
  BY DiscoverSound DEF AllSound
<1>2. DOMAIN devices # {}
  BY DiscoverSound
<1>3. IsCompileReady(found.profile) /\ Sound(found.profile, chips)
  <2>1. ASSUME NEW wanted, wanted \subseteq DOMAIN devices, wanted # {},
               Ready(Preferred(devices, wanted)).ok
        PROVE  LET p == Ready(Preferred(devices, wanted)).profile
               IN IsCompileReady(p) /\ Sound(p, chips)
    <3> HIDE DEF devices
    <3>1. wanted \subseteq Nat
      BY <1>1, <2>1
    <3>2. PICK i \in wanted : Preferred(devices, wanted) = devices[i]
      BY <2>1, <3>1, PreferredIsWanted
    <3>3. devices[i] \in S
      BY <1>1, <2>1
    <3> QED
      BY <1>1, <2>1, <3>2, <3>3 DEF Ready
  <2>2. CASE spec.form = "auto"
    <3>1. found = Ready(Preferred(devices, DOMAIN devices))
      BY <2>2 DEF ResolveTarget
    <3> HIDE DEF devices, found
    <3> QED
      BY <1>2, <2>1, <3>1 DEF found
  <2>3. CASE spec.form = "cpu"
    <3>1. found = [ok |-> TRUE, profile |-> LlvmCpuHost]
      BY <2>3 DEF ResolveTarget
    <3> HIDE DEF found
    <3> QED
      BY <3>1, HostSound DEF Truthful
  <2>4. CASE spec.form \notin {"auto", "cpu"}
    <3>1. found = IF gpu = NoRequest \/ Matching(devices, gpu) = {} THEN [ok |-> FALSE]
                  ELSE Ready(Preferred(devices, Matching(devices, gpu)))
      BY <2>4 DEF ResolveTarget
    <3>2. found.ok /\ Matching(devices, gpu) \subseteq DOMAIN devices
      BY DEF Matching
    <3> HIDE DEF devices, gpu, found
    <3>3. /\ Matching(devices, gpu) # {}
          /\ found = Ready(Preferred(devices, Matching(devices, gpu)))
      BY <3>1, <3>2
    <3> QED
      BY <2>1, <3>2, <3>3
  <2> QED
    BY <2>2, <2>3, <2>4
<1> QED
  BY <1>3 DEF Sound

----------------------------------------------------------------------------
(* The load *)

\* What a load has checked stays: the devices change before it only.
ChipInv == dump \in DOMAIN Dumps /\ ProgramRunsOnItsChip

\* The bundle is refused when the device it was compiled for is not here, or is
\* another chip under the same name.
LEMMA CheckedChip ==
  ASSUME ChipInv, CheckBundle
  PROVE  ChipInv'
<1>1. dump' = dump /\ bundle' = bundle /\ dump' \in DOMAIN Dumps
  BY DEF ChipInv, CheckBundle, givenVars
<1>2. CASE TargetMatches(bundle.manifest)
  <2> DEFINE local == ResolveTarget(DeviceSpec(bundle.manifest.target), Dumps[dump].lines)
             uri == RuntimeDevice(bundle.manifest.target)
             chips == Dumps[dump].chips
  <2>1. local.ok /\ local.profile = bundle.manifest.target
    BY <1>2 DEF TargetMatches, Fingerprint
  <2>2. Truthful(Dumps[dump].lines, chips)
    BY DumpAssumption DEF ChipInv
  <2>3. uri \in DOMAIN chips /\ chips[uri] = bundle.manifest.target.arch
    BY <2>1, <2>2, ResolveSound
  <2> QED
    BY <1>1, <2>3 DEF ChipInv, ProgramRunsOnItsChip
<1>3. CASE ~TargetMatches(bundle.manifest)
  <2>1. pc' = "failed"
    BY <1>3 DEF CheckBundle, GoOn
  <2> QED
    BY <1>1, <2>1 DEF ChipInv, ProgramRunsOnItsChip
<1> QED
  BY <1>2, <1>3

\* The other steps: the stages before the load end before it, the stages after it
\* keep the bundle and the devices.
LEMMA ChipStep == ChipInv /\ [Next]_vars => ChipInv'
<1> SUFFICES ASSUME ChipInv, [Next]_vars
             PROVE  ChipInv'
  OBVIOUS
<1> USE DEF ChipInv, ProgramRunsOnItsChip
<1>1. CASE \/ Tokenize \/ ResolveCommandArchitecture \/ ResolveCommandTarget
           \/ InspectAndName \/ BuildArchitecture \/ BindSlots \/ SelectKernels
           \/ LowerModel \/ CompileBundle
  <2>1. /\ pc' \in {"architecture", "target", "inspect", "package", "bind", "kernels", "lower",
                    "compile", "load", "failed"}
        /\ dump' = dump
    BY <1>1 DEF Tokenize, ResolveCommandArchitecture, ResolveCommandTarget, InspectAndName,
                BuildArchitecture, BindSlots, SelectKernels, LowerModel, CompileBundle, GoOn,
                givenVars
  <2> QED
    BY <2>1
<1>2. CASE ReplaceCheckpoint
  BY <1>2 DEF ReplaceCheckpoint
<1>3. CASE ChangeDevices
  BY <1>3 DEF ChangeDevices
<1>4. CASE CheckBundle
  BY <1>4, CheckedChip
<1>5. CASE OpenParameters \/ Prefill \/ DecodeTurn \/ Finish
  <2>1. pc \in {"parameters", "prefill", "decode"} /\ dump' = dump /\ bundle' = bundle
    BY <1>5 DEF OpenParameters, Prefill, DecodeTurn, Finish, givenVars
  <2> QED
    BY <2>1
<1>6. CASE UNCHANGED vars
  BY <1>6 DEF vars, givenVars
<1> QED
  BY <1>1, <1>2, <1>3, <1>4, <1>5, <1>6 DEF Next

\* A loaded program runs on a device that is there, of the chip it was compiled
\* for (load_bundle resolves the manifest's device again and compares the whole
\* profile), for every dump that tells the truth and every bundle.
THEOREM LoadedRunsOnItsChip == Spec => []ProgramRunsOnItsChip
<1>1. Init => ChipInv
  BY DEF Init, ChipInv, ProgramRunsOnItsChip
<1>2. ChipInv => ProgramRunsOnItsChip
  BY DEF ChipInv
<1> QED
  BY <1>1, <1>2, ChipStep, PTL DEF Spec

=============================================================================
