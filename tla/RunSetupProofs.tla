--------------------------- MODULE RunSetupProofs ---------------------------
(* What is proved of RunSetup, for every list of chains, every cache an      *)
(* earlier run may have left and any number of processes.                    *)
EXTENDS RunSetup, DataTheorems

(* min() of profile indices and of chain numbers. *)
LEMMA LeastOf ==
    ASSUME NEW S \in SUBSET Nat, S # {}
    PROVE  Min(S) \in S
<1>1. \E x \in S : \A y \in S : x <= y BY LeastNat
<1> QED BY <1>1 DEF Min

-----------------------------------------------------------------------------
(***************************************************************************)
(* Cleanup.  The DUT has power only while a session is registered with     *)
(* atexit or after an OFF that was lost, and Wi-Fi is off only while the   *)
(* process owes the Pi its switching on or after one that was lost.        *)
(***************************************************************************)
CleanInv ==
  /\ dut = "off" \/ ppk \/ "dut" \in missed
  /\ pc = "off" => ~ppk
  /\ pc = "poweron" => ppk
  /\ wifi = "on" \/ "wifi" \in missed \/ WifiOwed # {}

LEMMA CleanStep == ASSUME CleanInv, [Next]_vars PROVE CleanInv'
<1> USE DEF CleanInv, WifiOwed
<1>1. CASE Start BY <1>1 DEF Start, world
<1>2. CASE /\ pc' \notin {"off", "poweron"}
           /\ pc \notin {"try", "loop", "stop", "wifion"}
           /\ UNCHANGED <<wifi, dut, opts, missed, ppk>>
  BY <1>2
<1>3. CASE Setup
  <2>1. CASE ReuseChain \/ MakeRoot \/ SignChain \/ Materialize
    <3>1. /\ pc' \notin {"off", "poweron"} /\ pc \notin {"try", "loop", "stop", "wifion"}
          /\ UNCHANGED <<wifi, dut, opts, missed, ppk>>
      BY <2>1 DEF ReuseChain, MakeRoot, SignChain, Materialize, disk, world, Stay
    <3> QED BY <1>2, <3>1
  <2>2. CASE TryUniversal \/ SplitProfiles \/ PackNext \/ UseSavedPlan \/ BuildNext
    <3>1. /\ pc' \notin {"off", "poweron"} /\ pc \notin {"try", "loop", "stop", "wifion"}
          /\ UNCHANGED <<wifi, dut, opts, missed, ppk>>
      BY <2>2 DEF TryUniversal, SplitProfiles, PackNext, UseSavedPlan, BuildNext,
         disk, world, Stay
    <3> QED BY <1>2, <3>1
  <2>3. CASE SaveConfig \/ FlashFirst \/ FlashFails \/ Gateway
    <3>1. /\ pc' \notin {"off", "poweron"} /\ pc \notin {"try", "loop", "stop", "wifion"}
          /\ UNCHANGED <<wifi, dut, opts, missed, ppk>>
      BY <2>3 DEF SaveConfig, FlashFirst, FlashFails, Gateway, disk, world, Stay
    <3> QED BY <1>2, <3>1
  <2>4. CASE OpenPower
    <3>1. /\ pc = "power" /\ pc' \in {"poweron", "atexit"} /\ UNCHANGED <<wifi, opts>>
          /\ "wifi" \in missed => "wifi" \in missed'
      BY <2>4 DEF OpenPower, disk
    <3>2. /\ pc' = "poweron" => ppk'
          /\ dut' = "off" \/ UNCHANGED <<ppk, dut, missed>>
      BY <2>4 DEF OpenPower
    <3> QED BY <3>1, <3>2
  <2>5. CASE PowerOn BY <2>5 DEF PowerOn, disk, Stay
  <2>6. CASE WifiOff
    <3>1. /\ pc = "wifi" /\ pc' = "try" /\ UNCHANGED <<dut, opts, missed, ppk>>
          /\ wifi' \in IF opts.wifi THEN {"off", wifi} ELSE {wifi}
      BY <2>6 DEF WifiOff, disk, Stay
    <3>2. CASE opts.wifi BY <3>1, <3>2
    <3>3. CASE ~opts.wifi BY <3>1, <3>3
    <3> QED BY <3>2, <3>3
  <2>7. CASE EnterTry BY <2>7 DEF EnterTry, disk, world, Stay
  <2> QED BY <1>3, <2>1, <2>2, <2>3, <2>4, <2>5, <2>6, <2>7 DEF Setup
<1>4. CASE SetupRaises \/ CleanupCut
  <2>1. /\ pc' = "atexit" /\ UNCHANGED <<wifi, dut, opts, ppk>>
        /\ missed' = missed \cup WifiOwed
    BY <1>4 DEF SetupRaises, CleanupCut, disk, world
  <2> QED BY <2>1
<1>5. CASE Block \/ Switch \/ LeaveLoop \/ StopSession
  <2>1. /\ pc' \in {"loop", "stop", "wifion"} /\ pc \in {"loop", "stop", "wifion"}
        /\ UNCHANGED <<wifi, dut, opts, missed, ppk>>
    BY <1>5 DEF Block, Switch, LeaveLoop, StopSession, disk, world, Stay
  <2> QED BY <2>1
<1>6. CASE WifiOn
  <2>1. /\ pc = "wifion" /\ pc' = "close" /\ UNCHANGED <<dut, opts, ppk>>
        /\ "dut" \in missed => "dut" \in missed'
    BY <1>6 DEF WifiOn, disk
  <2>2. \/ wifi' = "on"
        \/ "wifi" \in missed'
        \/ ~opts.wifi /\ UNCHANGED <<wifi, missed>>
    BY <1>6 DEF WifiOn
  <2> QED BY <2>1, <2>2
<1>7. CASE ClosePower
  <2>1. /\ pc' \in {"atexit", "off"} /\ ~ppk' /\ UNCHANGED <<wifi, opts>>
        /\ pc \notin {"try", "loop", "stop", "wifion"}
        /\ "wifi" \in missed => "wifi" \in missed'
    BY <1>7 DEF ClosePower, disk
  <2>2. \/ dut' = "off" \/ "dut" \in missed'
        \/ ~ppk /\ UNCHANGED <<dut, missed>>
    BY <1>7 DEF ClosePower
  <2> QED BY <2>1, <2>2
<1>8. CASE Kill
  <2>1. /\ pc' = "off" /\ ppk' = FALSE /\ UNCHANGED <<wifi, dut, opts>>
        /\ missed' = missed \cup WifiOwed \cup PowerOwed
    BY <1>8 DEF Kill, disk, world
  <2> QED BY <2>1 DEF PowerOwed
<1>9. CASE UNCHANGED vars BY <1>9 DEF vars, disk, world
<1> QED BY <1>1, <1>3, <1>4, <1>5, <1>6, <1>7, <1>8, <1>9 DEF Next, Idle

(* main 2503-2560, 2688-2697 and PowerProfilerSession.close: wherever the    *)
(* process stops, the board is left without power and the Pi with Wi-Fi      *)
(* unless one of the commands that see to it was lost, in this process or an *)
(* earlier one, and none since has made up for it.                          *)
THEOREM CleansUp == Spec => []Restored
<1>1. Init => CleanInv BY DEF Init, CleanInv
<1>2. CleanInv /\ [Next]_vars => CleanInv' BY CleanStep
<1>3. CleanInv => Restored BY DEF CleanInv, WifiOwed, Restored
<1> QED BY <1>1, <1>2, <1>3, PTL DEF Spec

-----------------------------------------------------------------------------
(***************************************************************************)
(* Certificates.  While docker answers, a root is made once and never      *)
(* again, so every chain in the cache and every template of the process    *)
(* stands on version 1 of its root.                                        *)
(***************************************************************************)
Prepared == {"profiles", "probe", "pack", "build", "config", "flash", "power", "poweron",
             "gateway", "wifi", "try", "loop"}

VersionInv ==
  /\ n \in Nat \ {0}
  /\ certs \in [Chains -> {0, 1}] /\ rootc \in [Roots -> {0, 1}]
  /\ tmpl \in [Chains -> {0, 1}]
  /\ \A c \in Chains : certs[c] = 1 => rootc[RootOf[c]] = 1
  /\ pc = "off" => n = 1
  /\ pc \in {"chains", "sign"} => \A c \in Chains : c < n => tmpl[c] = 1
  /\ pc = "sign" => n \in Chains /\ rootc[RootOf[n]] = 1
  /\ pc \in Prepared => \A c \in Chains : tmpl[c] = 1

LEMMA VersionInit == ASSUME Init PROVE VersionInv
<1>1. PICK S : certs = [c \in Chains |-> IF c \in S THEN 1 ELSE 0]
  BY DEF Init
<1>2. rootc = [r \in Roots |-> IF \E c \in Chains : RootOf[c] = r /\ certs[c] = 1
                               THEN 1 ELSE 0]
  BY DEF Init
<1>3. \A c \in Chains : RootOf[c] \in Roots BY DEF Roots
<1>4. /\ certs \in [Chains -> {0, 1}] /\ rootc \in [Roots -> {0, 1}]
      /\ \A c \in Chains : certs[c] = 1 => rootc[RootOf[c]] = 1
  BY <1>1, <1>2, <1>3
<1>5. tmpl \in [Chains -> {0, 1}] /\ n = 1 /\ pc = "off"
  BY DEF Init, NoTemplates
<1> QED BY <1>4, <1>5 DEF VersionInv, Prepared

(* The chains of a process are numbered without a gap. *)
LEMMA ChainsNumbered ==
    ASSUME NEW k \in Nat \ {0}, k \notin Chains
    PROVE  \A c \in Chains : c \in Nat /\ c < k
<1>1. /\ Len(RootOf) \in Nat /\ DOMAIN RootOf = 1 .. Len(RootOf)
  BY SetupConstants
<1> QED BY <1>1 DEF Chains

LEMMA VersionStep ==
    ASSUME ~ProbeFaults, VersionInv, [Next]_vars
    PROVE  VersionInv'
<1> USE DEF VersionInv, Prepared
<1>1. \A c \in Chains : RootOf[c] \in Roots /\ c \in Nat /\ 0 < c
  <2>1. DOMAIN RootOf = 1 .. Len(RootOf) /\ Len(RootOf) \in Nat BY SetupConstants
  <2> QED BY <2>1 DEF Roots, Chains
<1>2. CASE Start
  <2>1. /\ pc = "off" /\ pc' = "chains" /\ UNCHANGED <<certs, rootc, tmpl, n>>
    BY <1>2 DEF Start, memory
  <2> QED BY <1>1, <2>1
<1>3. CASE ReuseChain
  <2>1. /\ pc = "chains" /\ n \in Chains /\ certs[n] # 0 /\ pc' = pc /\ n' = n + 1
        /\ tmpl' = [tmpl EXCEPT ![n] = certs[n]] /\ UNCHANGED <<certs, rootc>>
    BY <1>3 DEF ReuseChain, disk
  <2>2. certs[n] = 1 BY <2>1
  <2>3. tmpl' = [tmpl EXCEPT ![n] = 1] BY <2>1, <2>2
  <2>4. tmpl' \in [Chains -> {0, 1}] /\ \A c \in Chains : c < n' => tmpl'[c] = 1
    BY <1>1, <2>1, <2>3
  <2> QED BY <2>1, <2>4
<1>4. CASE MakeRoot
  <2>1. /\ pc = "chains" /\ n \in Chains /\ certs[n] = 0 /\ pc' = "sign"
        /\ certs' = [certs EXCEPT ![n] = 0] /\ UNCHANGED <<tmpl, n>>
        /\ \/ rootc[RootOf[n]] # 0 /\ rootc' = rootc
           \/ /\ rootc[RootOf[n]] = 0
              /\ rootc' = [rootc EXCEPT ![RootOf[n]] = @ + 1]
    BY <1>4 DEF MakeRoot, memory
  <2>2. certs' = certs BY <2>1
  <2>3. /\ rootc' \in [Roots -> {0, 1}] /\ rootc'[RootOf[n]] = 1
        /\ \A r \in Roots : rootc[r] = 1 => rootc'[r] = 1
    BY <1>1, <2>1
  <2> QED BY <1>1, <2>1, <2>2, <2>3
<1>5. CASE SignChain
  <2>1. /\ pc = "sign" /\ pc' = "chains" /\ n' = n + 1 /\ rootc' = rootc
        /\ certs' = [certs EXCEPT ![n] = rootc[RootOf[n]]]
        /\ tmpl' = [tmpl EXCEPT ![n] = rootc[RootOf[n]]]
    BY <1>5 DEF SignChain
  <2>2. n \in Chains /\ rootc[RootOf[n]] = 1 BY <2>1
  <2>3. tmpl' \in [Chains -> {0, 1}] /\ \A c \in Chains : c < n' => tmpl'[c] = 1
    BY <1>1, <2>1, <2>2
  <2>4. /\ certs' \in [Chains -> {0, 1}]
        /\ \A c \in Chains : certs'[c] = 1 => rootc'[RootOf[c]] = 1
    BY <1>1, <2>1, <2>2
  <2> QED BY <2>1, <2>3, <2>4
<1>6. CASE Materialize
  <2>1. /\ pc = "chains" /\ n \notin Chains /\ pc' \in {"atexit", "profiles"} /\ n' = 1
        /\ UNCHANGED <<certs, rootc, tmpl>>
    BY <1>6 DEF Materialize, disk
  <2>2. \A c \in Chains : tmpl[c] = 1 BY <2>1, ChainsNumbered
  <2> QED BY <2>1, <2>2
<1>7. CASE /\ UNCHANGED <<certs, rootc, tmpl>> /\ n' \in Nat \ {0}
           /\ pc' \notin {"off", "chains", "sign"} /\ (pc' \in Prepared => pc \in Prepared)
  BY <1>7
<1>8. CASE TryUniversal \/ SplitProfiles \/ PackNext \/ UseSavedPlan \/ BuildNext
           \/ SaveConfig
  <2>1. /\ UNCHANGED <<certs, rootc, tmpl>> /\ n' \in {n, n + 1} /\ pc \in Prepared
        /\ pc' \notin {"off", "chains", "sign"}
    BY <1>8 DEF TryUniversal, SplitProfiles, PackNext, UseSavedPlan, BuildNext, SaveConfig,
       disk, memory
  <2> QED BY <1>7, <2>1
<1>9. CASE FlashFirst \/ FlashFails \/ OpenPower \/ PowerOn \/ Gateway \/ WifiOff
           \/ EnterTry
  <2>1. /\ UNCHANGED <<certs, rootc, tmpl>> /\ n' = n /\ pc \in Prepared
        /\ pc' \notin {"off", "chains", "sign"}
    BY <1>9 DEF FlashFirst, FlashFails, OpenPower, PowerOn, Gateway, WifiOff, EnterTry, disk,
       memory
  <2> QED BY <1>7, <2>1
<1>10. CASE SetupRaises \/ Block \/ Switch \/ LeaveLoop \/ StopSession \/ WifiOn
            \/ CleanupCut
  <2>1. /\ UNCHANGED <<certs, rootc, tmpl>> /\ n' = n
        /\ \/ pc' \in {"atexit", "stop", "wifion", "close"}
           \/ pc = "loop" /\ pc' = "loop"
    BY <1>10 DEF SetupRaises, Block, Switch, LeaveLoop, StopSession, WifiOn,
       CleanupCut, disk, memory
  <2> QED BY <1>7, <2>1
<1>11. CASE ClosePower
  <2>1. CASE pc = "close"
    <3>1. UNCHANGED <<certs, rootc, tmpl>> /\ n' = n /\ pc' = "atexit"
      BY <1>11, <2>1 DEF ClosePower, disk, memory
    <3> QED BY <1>7, <3>1
  <2>2. CASE pc = "atexit"
    <3>1. UNCHANGED <<certs, rootc>> /\ tmpl' = NoTemplates /\ n' = 1 /\ pc' = "off"
      BY <1>11, <2>2 DEF ClosePower, Forget, disk
    <3> QED BY <3>1 DEF NoTemplates
  <2> QED BY <1>11, <2>1, <2>2 DEF ClosePower
<1>12. CASE Kill
  <2>1. UNCHANGED <<certs, rootc>> /\ tmpl' = NoTemplates /\ n' = 1 /\ pc' = "off"
    BY <1>12 DEF Kill, Forget, disk
  <2> QED BY <2>1 DEF NoTemplates
<1>13. CASE UNCHANGED vars BY <1>13 DEF vars, disk, memory
<1> QED BY <1>2, <1>3, <1>4, <1>5, <1>6, <1>8, <1>9, <1>10, <1>11, <1>12, <1>13
       DEF Next, Setup, Idle
-----------------------------------------------------------------------------
(***************************************************************************)
(* Profiles.  Packing only ever adds a root no profile holds, to the first *)
(* profile with room or to a new one.                                      *)
(***************************************************************************)
Parts(p) ==
  /\ p \in Seq(SUBSET Roots)
  /\ \A i, j \in DOMAIN p : i # j => p[i] \cap p[j] = {}

IsPartition(p) == Parts(p) /\ \A r \in Roots : \E i \in DOMAIN p : r \in p[i]

Planned == {"build", "config", "flash", "power", "poweron", "gateway",
            "wifi", "try", "loop"}

PartInv ==
  /\ plan # <<>> => IsPartition(plan)
  /\ pc \in {"off", "chains", "sign", "profiles", "probe"} => profiles = <<>>
  /\ pc = "pack" => Parts(profiles)
  /\ pc \in Planned => IsPartition(profiles)

LEMMA RootPacked ==
    ASSUME Parts(profiles), NEW r \in Unpacked
    PROVE  /\ Parts(Packed(r))
           /\ \E i \in DOMAIN Packed(r) : r \in Packed(r)[i]
           /\ \A q \in Roots : (\E i \in DOMAIN profiles : q \in profiles[i]) =>
                                 \E i \in DOMAIN Packed(r) : q \in Packed(r)[i]
<1>1. /\ Len(profiles) \in Nat /\ DOMAIN profiles = 1 .. Len(profiles)
      /\ \A i \in DOMAIN profiles : profiles[i] \subseteq Roots
  BY DEF Parts
<1>2. r \in Roots /\ \A i \in DOMAIN profiles : r \notin profiles[i]
  BY DEF Unpacked
<1> DEFINE p == Packed(r)
<1>3. CASE Room(r) = {}
  <2>1. p = Append(profiles, {r}) BY <1>3 DEF Packed
  <2>2. p \in Seq(SUBSET Roots) BY <1>2, <2>1 DEF Parts
  <2>3. /\ DOMAIN p = 1 .. (Len(profiles) + 1) /\ p[Len(profiles) + 1] = {r}
        /\ \A i \in 1 .. Len(profiles) : p[i] = profiles[i]
    BY <1>2, <2>1 DEF Parts
  <2> HIDE DEF p
  <2>4. Len(profiles) + 1 \in DOMAIN p
        /\ \A i \in DOMAIN p : i \in DOMAIN profiles \/ i = Len(profiles) + 1
    BY <1>1, <2>3
  <2>5. \A i, j \in DOMAIN p : i # j => p[i] \cap p[j] = {}
    BY <1>1, <1>2, <2>3, <2>4 DEF Parts
  <2> QED BY <1>1, <2>2, <2>3, <2>4, <2>5 DEF Parts, p
<1>4. CASE Room(r) # {}
  <2> DEFINE k == Min(Room(r))
  <2>1. k \in DOMAIN profiles
    <3>1. Room(r) \in SUBSET Nat /\ Room(r) \subseteq DOMAIN profiles
      BY <1>1 DEF Room
    <3> QED BY <1>4, <3>1, LeastOf
  <2>2. p = [profiles EXCEPT ![k] = @ \cup {r}] BY <1>4 DEF Packed
  <2> HIDE DEF k, p
  <2>3. DOMAIN p = DOMAIN profiles /\ p[k] = profiles[k] \cup {r}
        /\ \A i \in DOMAIN profiles : i # k => p[i] = profiles[i]
    BY <1>1, <2>1, <2>2 DEF Parts
  <2>4. p \in Seq(SUBSET Roots)
    <3>1. p \in [1 .. Len(profiles) -> SUBSET Roots]
      BY <1>1, <1>2, <2>1, <2>2 DEF Parts
    <3> QED BY <1>1, <3>1
  <2>5. \A i, j \in DOMAIN p : i # j => p[i] \cap p[j] = {}
    BY <1>2, <2>1, <2>3 DEF Parts
  <2> QED BY <2>1, <2>3, <2>4, <2>5 DEF Parts, p
<1> QED BY <1>3, <1>4

LEMMA PartStep == ASSUME PartInv, [Next]_vars PROVE PartInv'
<1> USE DEF PartInv, Planned
<1>1. CASE Start
  <2>1. pc = "off" /\ pc' = "chains" /\ UNCHANGED <<plan, profiles>>
    BY <1>1 DEF Start, memory
  <2> QED BY <2>1
<1>2. CASE ReuseChain \/ MakeRoot \/ SignChain \/ Materialize \/ SplitProfiles
  <2>1. /\ pc \in {"off", "chains", "sign", "profiles", "probe"}
        /\ pc' \in {"off", "chains", "sign", "profiles", "probe", "pack", "atexit"}
        /\ UNCHANGED <<plan, profiles>>
    BY <1>2 DEF ReuseChain, MakeRoot, SignChain, Materialize, SplitProfiles, disk, memory
  <2>2. Parts(<<>>) BY DEF Parts
  <2> QED BY <2>1, <2>2
<1>3. CASE TryUniversal
  <2>1. pc = "profiles" /\ plan' = plan BY <1>3 DEF TryUniversal
  <2>2. CASE profiles' = <<Roots>> /\ pc' = "config"
    <3>1. IsPartition(<<Roots>>) BY DEF IsPartition, Parts
    <3> QED BY <2>1, <2>2, <3>1
  <2>3. CASE pc' = "probe" /\ profiles' = profiles BY <2>1, <2>3
  <2> QED BY <1>3, <2>2, <2>3 DEF TryUniversal
<1>4. CASE PackNext
  <2>1. pc = "pack" /\ Parts(profiles) /\ plan' = plan BY <1>4 DEF PackNext, disk
  <2>2. PICK r \in Unpacked :
          \/ /\ profiles' = Packed(r)
             /\ pc' = IF Unpacked = {r} THEN "build" ELSE "pack"
          \/ pc' = "atexit"
    BY <1>4 DEF PackNext
  <2>3. CASE pc' = "atexit" BY <2>1, <2>3
  <2>4. CASE profiles' = Packed(r) /\ pc' = IF Unpacked = {r} THEN "build" ELSE "pack"
    <3>1. Parts(profiles') BY <2>1, <2>4, RootPacked
    <3>2. Unpacked = {r} => IsPartition(profiles')
      <4> SUFFICES ASSUME Unpacked = {r}, NEW q \in Roots
                   PROVE  \E i \in DOMAIN profiles' : q \in profiles'[i]
        BY <3>1 DEF IsPartition
      <4>1. CASE q = r BY <2>1, <2>4, <4>1, RootPacked
      <4>2. CASE q # r
        <5>1. \E i \in DOMAIN profiles : q \in profiles[i] BY <4>2 DEF Unpacked
        <5> QED BY <2>1, <2>4, <5>1, RootPacked
      <4> QED BY <4>1, <4>2
    <3> QED BY <2>1, <2>4, <3>1, <3>2
  <2> QED BY <2>2, <2>3, <2>4
<1>5. CASE UseSavedPlan
  <2>1. plan # <<>> /\ profiles' = plan /\ plan' = plan /\ pc' = "build"
    BY <1>5 DEF UseSavedPlan, disk
  <2> QED BY <2>1
<1>6. CASE SaveConfig
  <2>1. pc = "config" /\ plan' = profiles /\ profiles' = profiles
        /\ pc' \in {"atexit", "flash"}
    BY <1>6 DEF SaveConfig, memory
  <2> QED BY <2>1
<1>7. CASE /\ UNCHANGED <<plan, profiles>>
           /\ \/ pc \in Planned /\ pc' \in Planned
              \/ pc' \in {"atexit", "stop", "wifion", "close"}
  BY <1>7
<1>8. CASE BuildNext \/ FlashFirst \/ FlashFails \/ OpenPower \/ PowerOn \/ Gateway
           \/ WifiOff \/ EnterTry
  <2>1. /\ UNCHANGED <<plan, profiles>>
        /\ \/ pc \in Planned /\ pc' \in Planned
           \/ pc' \in {"atexit", "stop", "wifion", "close"}
    BY <1>8 DEF BuildNext, FlashFirst, FlashFails, OpenPower, PowerOn, Gateway, WifiOff,
       EnterTry, disk, memory
  <2> QED BY <1>7, <2>1
<1>9. CASE SetupRaises \/ Block \/ Switch \/ LeaveLoop \/ StopSession \/ WifiOn
           \/ CleanupCut
  <2>1. /\ UNCHANGED <<plan, profiles>>
        /\ \/ pc \in Planned /\ pc' \in Planned
           \/ pc' \in {"atexit", "stop", "wifion", "close"}
    BY <1>9 DEF SetupRaises, Block, Switch, LeaveLoop, StopSession, WifiOn,
       CleanupCut, disk, memory
  <2> QED BY <1>7, <2>1
<1>10. CASE ClosePower
  <2>1. CASE pc = "close"
    <3>1. UNCHANGED <<plan, profiles>> /\ pc' = "atexit"
      BY <1>10, <2>1 DEF ClosePower, disk, memory
    <3> QED BY <1>7, <3>1
  <2>2. CASE pc = "atexit"
    <3>1. plan' = plan /\ profiles' = <<>> /\ pc' = "off"
      BY <1>10, <2>2 DEF ClosePower, Forget, disk
    <3> QED BY <3>1
  <2> QED BY <1>10, <2>1, <2>2 DEF ClosePower
<1>11. CASE Kill
  <2>1. plan' = plan /\ profiles' = <<>> /\ pc' = "off" BY <1>11 DEF Kill, Forget, disk
  <2> QED BY <2>1
<1>12. CASE UNCHANGED vars BY <1>12 DEF vars, disk, memory
<1> QED BY <1>1, <1>2, <1>3, <1>4, <1>5, <1>6, <1>8, <1>9, <1>10, <1>11, <1>12
       DEF Next, Setup, Idle

LEMMA PartSafe == Spec => []PartInv
<1>1. Init => PartInv BY DEF Init, PartInv, Planned
<1>2. PartInv /\ [Next]_vars => PartInv' BY PartStep
<1> QED BY <1>1, <1>2, PTL DEF Spec

(* pack_root_profiles and the saved plan: whatever the sizes and the room,   *)
(* and wherever the process stops, run_config.json never holds a plan that   *)
(* misses a root or has one twice.                                          *)
THEOREM PlanSound == Spec => []PlanPartitions
<1>1. PartInv => PlanPartitions
  <2> SUFFICES ASSUME PartInv, plan # <<>> PROVE PlanPartitions
    BY DEF PlanPartitions
  <2>1. IsPartition(plan) BY DEF PartInv
  <2>2. \A i \in DOMAIN plan : plan[i] \subseteq Roots BY <2>1 DEF IsPartition, Parts
  <2>3. UNION {plan[i] : i \in DOMAIN plan} = Roots BY <2>1, <2>2 DEF IsPartition
  <2> QED BY <2>1, <2>3 DEF IsPartition, Parts, PlanPartitions
<1> QED BY <1>1, PartSafe, PTL
-----------------------------------------------------------------------------
(***************************************************************************)
(* Images.  A cache key is the content it stands for, so that an image     *)
(* found by its key was built from the present sources, options and roots. *)
(***************************************************************************)
IsSeq(s) == \E S : s \in Seq(S)

Built(p) == dirs[p] = Content(profiles[p]) /\ \E i \in images : i.key = dirs[p]

Caches == (\A i \in images : i.img = i.key) /\ left \subseteq Chains /\ IsSeq(dirs)

Building ==
  /\ pc \in {"off", "chains", "sign", "profiles", "probe", "pack"} => dirs = <<>>
  /\ pc \in {"off", "profiles", "probe", "pack"} => n = 1
  /\ pc \in Planned => \A p \in DOMAIN dirs : p \in DOMAIN profiles /\ Built(p)
  /\ pc = "build" => n = Len(dirs) + 1
  /\ pc \in Planned \ {"build"} => Len(dirs) = Len(profiles)

OnBoard ==
  pc \in {"power", "poweron", "gateway", "wifi", "try", "loop"} =>
    active \in DOMAIN profiles /\ board = Content(profiles[active])

OnPi ==
  pc \in {"wifi", "try", "loop"} => \A c \in Chains : c \in DOMAIN served => pi[c] = 1

ImageInv == Caches /\ Building /\ OnBoard /\ OnPi /\ BlockOnItsImage

LEMMA BuiltFrame ==
    ASSUME Caches, Building, UNCHANGED <<src, opts, tmpl, profiles, dirs, images, n>>,
           \/ pc' = pc
           \/ pc \in Planned \ {"build"} /\ pc' \in Planned \ {"build"}
           \/ pc' \in {"atexit", "stop", "wifion", "close"}
    PROVE  /\ Building' /\ \A roots : Content(roots)' = Content(roots)
           /\ left' \subseteq left => Caches'
<1>1. \A roots : Content(roots)' = Content(roots) BY DEF Content
<1>2. ASSUME NEW p PROVE Built(p)' <=> Built(p)
  <2>1. Content(profiles[p])' = Content(profiles[p]) BY <1>1
  <2> QED BY <2>1 DEF Built
<1>3. left' \subseteq left => Caches' BY DEF Caches, IsSeq
<1>4. Building'
  <2>1. (\A p \in DOMAIN dirs : p \in DOMAIN profiles /\ Built(p)) =>
          \A p \in DOMAIN dirs' : p \in DOMAIN profiles' /\ Built(p)'
    BY <1>2
  <2> QED BY <2>1 DEF Building, Planned
<1> QED BY <1>1, <1>3, <1>4

(* Steps that leave what images are made of alone. *)
LEMMA ImageFrame ==
    ASSUME ImageInv, UNCHANGED <<src, opts, tmpl, profiles, dirs, images, n, active, board,
                                 served, pi, left, last>>,
           \/ pc' = pc
           \/ pc' \in {"atexit", "stop", "wifion", "close"}
    PROVE  ImageInv'
<1>1. Caches' /\ Building' BY BuiltFrame DEF ImageInv
<1>2. OnBoard' BY BuiltFrame DEF ImageInv, OnBoard
<1>3. OnPi' BY DEF ImageInv, OnPi
<1>4. BlockOnItsImage' BY DEF ImageInv, BlockOnItsImage
<1> QED BY <1>1, <1>2, <1>3, <1>4 DEF ImageInv

(* The process ends and forgets. *)
LEMMA ImageForgets ==
    ASSUME ImageInv, Forget, pc' = "off", UNCHANGED <<src, opts, images, left, last>>
    PROVE  ImageInv'
<1>1. dirs' = <<>> /\ n' = 1 BY DEF Forget
<1>2. <<>> \in Seq({}) OBVIOUS
<1>3. Caches' BY <1>1, <1>2 DEF ImageInv, Caches, IsSeq
<1>4. Building' /\ OnBoard' /\ OnPi' BY <1>1 DEF Building, OnBoard, OnPi, Planned
<1>5. BlockOnItsImage' BY DEF ImageInv, BlockOnItsImage
<1> QED BY <1>3, <1>4, <1>5 DEF ImageInv

(* build_profile: the image is in the cache under its key afterwards. *)
LEMMA ImageCached ==
    ASSUME Caches, NEW img, images' = WithImage(img)
    PROVE  /\ \A i \in images' : i.img = i.key
           /\ \E i \in images' : i.key = CacheKey(img)
           /\ images \subseteq images'
<1>1. CASE Ready(img) BY <1>1 DEF Caches, WithImage, Ready
<1>2. CASE ~Ready(img)
  <2> DEFINE e == [key |-> CacheKey(img), img |-> img]
  <2>1. images' = images \cup {e} BY <1>2 DEF WithImage
  <2>2. e.img = e.key /\ e.key = CacheKey(img) BY DEF CacheKey
  <2> HIDE DEF e
  <2> QED BY <2>1, <2>2 DEF Caches
<1> QED BY <1>1, <1>2

(* west flash of a profile puts the image of its roots on the board. *)
LEMMA ImageFlashed ==
    ASSUME ImageInv, PartInv, pc \in Planned \ {"build"}, NEW c \in left
    PROVE  /\ ProfileOf(c) \in DOMAIN profiles /\ RootOf[c] \in profiles[ProfileOf(c)]
           /\ ImageAt(dirs[ProfileOf(c)]) = Content(profiles[ProfileOf(c)])
<1> DEFINE p == ProfileOf(c)
<1>1. IsPartition(profiles) BY DEF PartInv
<1>2. RootOf[c] \in Roots BY DEF ImageInv, Caches, Roots
<1>3. p \in DOMAIN profiles /\ RootOf[c] \in profiles[p]
  BY <1>1, <1>2 DEF IsPartition, ProfileOf
<1>4. p \in DOMAIN dirs
  <2>1. Len(dirs) = Len(profiles) BY DEF ImageInv, Building
  <2>2. DOMAIN dirs = 1 .. Len(dirs) BY DEF ImageInv, Caches, IsSeq
  <2>3. DOMAIN profiles = 1 .. Len(profiles) BY <1>1 DEF IsPartition, Parts
  <2> QED BY <1>3, <2>1, <2>2, <2>3
<1>5. dirs[p] = Content(profiles[p]) /\ \E i \in images : i.key = dirs[p]
  BY <1>4 DEF ImageInv, Building, Built
<1> HIDE DEF p
<1>6. ImageAt(dirs[p]) = dirs[p] BY <1>5 DEF ImageInv, Caches, ImageAt
<1> QED BY <1>3, <1>5, <1>6 DEF p

(* The firmware finds the root of a chain of its own profile. *)
LEMMA RootSelected ==
    ASSUME VersionInv, ImageInv, PartInv, pc = "loop", NEW c \in left, ProfileOf(c) = active
    PROVE  SelectRoot(board, RootOf[c]) = 1
<1> DEFINE named == {d \in DOMAIN board.hdr : RootOf[d] = RootOf[c]}
<1>1. /\ RootOf[c] \in profiles[active] /\ c \in Chains
      /\ board = Content(profiles[active])
  BY ImageFlashed DEF ImageInv, OnBoard, Caches, Planned
<1>2. /\ DOMAIN board.hdr = {d \in Chains : RootOf[d] \in profiles[active]}
      /\ \A d \in DOMAIN board.hdr : board.hdr[d] = tmpl[d]
  BY <1>1 DEF Content
<1>3. \A d \in Chains : tmpl[d] = 1 BY DEF VersionInv, Prepared
<1>4. named \in SUBSET Nat
  <2>1. DOMAIN RootOf = 1 .. Len(RootOf) /\ Len(RootOf) \in Nat BY SetupConstants
  <2>2. Chains \subseteq Nat BY <2>1 DEF Chains
  <2> QED BY <1>2, <2>2
<1>5. c \in named BY <1>1, <1>2
<1>6. Min(named) \in named
  <2> HIDE DEF named
  <2> QED BY <1>4, <1>5, LeastOf
<1>7. board.hdr[Min(named)] = 1 BY <1>2, <1>3, <1>6
<1>8. SelectRoot(board, RootOf[c]) = board.hdr[Min(named)]
  BY <1>5 DEF SelectRoot
<1> QED BY <1>7, <1>8

LEMMA ImageStep ==
    ASSUME VersionInv, PartInv, ImageInv, [Next]_vars
    PROVE  ImageInv'
<1>1. CASE Start
  <2>1. /\ pc = "off" /\ pc' = "chains" /\ last' = NoBlock
        /\ UNCHANGED <<images, left, dirs>>
    BY <1>1 DEF Start, memory
  <2> QED BY <2>1 DEF ImageInv, Caches, IsSeq, Building, OnBoard, OnPi, BlockOnItsImage,
         Planned
<1>2. CASE ReuseChain \/ MakeRoot \/ SignChain
  <2>1. /\ pc \in {"chains", "sign"} /\ pc' \in {"chains", "sign"}
        /\ UNCHANGED <<src, opts, images, left, dirs, last>>
    BY <1>2 DEF ReuseChain, MakeRoot, SignChain, disk, memory, Stay
  <2>2. BlockOnItsImage' BY <2>1 DEF ImageInv, BlockOnItsImage
  <2> QED BY <2>1, <2>2 DEF ImageInv, Caches, IsSeq, Building, OnBoard, OnPi, Planned
<1>3. CASE Materialize
  <2>1. /\ pc = "chains" /\ pc' \in {"profiles", "atexit"} /\ n' = 1
        /\ UNCHANGED <<src, opts, images, left, dirs, last>>
    BY <1>3 DEF Materialize, disk, Stay
  <2>2. BlockOnItsImage' BY <2>1 DEF ImageInv, BlockOnItsImage
  <2> QED BY <2>1, <2>2 DEF ImageInv, Caches, IsSeq, Building, OnBoard, OnPi, Planned
<1>4. CASE TryUniversal
  <2> DEFINE img == Content(Roots)
  <2>1. /\ pc = "profiles" /\ UNCHANGED <<src, opts, tmpl, left, last, n>>
    BY <1>4 DEF TryUniversal, Stay
  <2>2. BlockOnItsImage' BY <2>1 DEF ImageInv, BlockOnItsImage
  <2>3. \/ /\ images' = WithImage(img) /\ profiles' = <<Roots>>
           /\ dirs' = <<CacheKey(img)>> /\ pc' = "config"
        \/ images' = WithImage(img) /\ pc' = "probe" /\ dirs' = dirs
        \/ images' = images /\ dirs' = dirs /\ pc' = "probe"
    BY <1>4 DEF TryUniversal
  <2>4. img' = img BY <2>1 DEF Content
  <2> HIDE DEF img
  <2>5. CASE images' = images /\ dirs' = dirs /\ pc' = "probe"
    BY <2>1, <2>2, <2>5 DEF ImageInv, Caches, IsSeq, Building, OnBoard, OnPi, Planned
  <2>6. CASE images' = WithImage(img) /\ pc' = "probe" /\ dirs' = dirs
    <3>1. \A i \in images' : i.img = i.key BY <2>6, ImageCached DEF ImageInv
    <3> QED BY <2>1, <2>2, <2>6, <3>1
         DEF ImageInv, Caches, IsSeq, Building, OnBoard, OnPi, Planned
  <2>7. CASE /\ images' = WithImage(img) /\ profiles' = <<Roots>>
             /\ dirs' = <<CacheKey(img)>> /\ pc' = "config"
    <3>1. /\ \A i \in images' : i.img = i.key
          /\ \E i \in images' : i.key = CacheKey(img)
      BY <2>7, ImageCached DEF ImageInv
    <3>2. IsSeq(dirs') /\ DOMAIN dirs' = {1} /\ dirs'[1] = img /\ Len(dirs') = 1
      <4>1. dirs' = <<img>> BY <2>7 DEF CacheKey
      <4>2. dirs' \in Seq({img}) /\ DOMAIN dirs' = 1 .. 1 /\ 1 .. 1 = {1} BY <4>1
      <4> QED BY <4>1, <4>2 DEF IsSeq
    <3>3. 1 \in DOMAIN profiles' /\ profiles'[1] = Roots /\ Len(profiles') = 1 BY <2>7
    <3>4. Content(Roots)' = img BY <2>4 DEF img
    <3>5. Building' BY <2>7, <3>1, <3>2, <3>3, <3>4 DEF Building, Built, Planned, CacheKey
    <3> QED BY <2>1, <2>2, <2>7, <3>1, <3>2, <3>5 DEF ImageInv, Caches, OnBoard, OnPi
  <2> QED BY <2>3, <2>5, <2>6, <2>7
<1>5. CASE SplitProfiles
  <2> DEFINE img == Content({ProbeRoot})
  <2>1. /\ pc = "probe" /\ pc' = "pack" /\ images' = WithImage(img)
        /\ UNCHANGED <<src, opts, left, dirs, last, n>>
    BY <1>5 DEF SplitProfiles, memory, Stay
  <2> HIDE DEF img
  <2>2. BlockOnItsImage' BY <2>1 DEF ImageInv, BlockOnItsImage
  <2>3. \A i \in images' : i.img = i.key BY <2>1, ImageCached DEF ImageInv
  <2> QED BY <2>1, <2>2, <2>3
         DEF ImageInv, Caches, IsSeq, Building, OnBoard, OnPi, Planned
<1>6. CASE PackNext \/ UseSavedPlan
  <2>1. /\ pc \in {"pack", "profiles"} /\ pc' \in {"pack", "build", "atexit"}
        /\ UNCHANGED <<src, opts, images, left, dirs, last, n>>
    BY <1>6 DEF PackNext, UseSavedPlan, disk, Stay
  <2>2. BlockOnItsImage' BY <2>1 DEF ImageInv, BlockOnItsImage
  <2>3. dirs = <<>> /\ n = 1 /\ DOMAIN dirs = {} /\ Len(dirs) = 0
    BY <2>1 DEF ImageInv, Building
  <2>4. Building' BY <2>1, <2>3 DEF Building, Planned
  <2> QED BY <2>1, <2>2, <2>4 DEF ImageInv, Caches, IsSeq, OnBoard, OnPi
<1>7. CASE BuildNext
  <2> DEFINE img == Content(profiles[n])
  <2>1. /\ pc = "build" /\ n \in DOMAIN profiles /\ images' = WithImage(img)
        /\ dirs' = Append(dirs, CacheKey(img)) /\ n' = n + 1
        /\ pc' = IF n = Len(profiles) THEN "config" ELSE "build"
        /\ UNCHANGED <<src, opts, tmpl, left, profiles, last>>
    BY <1>7 DEF BuildNext, Stay
  <2>2. BlockOnItsImage' BY <2>1 DEF ImageInv, BlockOnItsImage
  <2>3. /\ \A i \in images' : i.img = i.key
        /\ \E i \in images' : i.key = CacheKey(img)
        /\ images \subseteq images'
    <3> HIDE DEF img
    <3> QED BY <2>1, ImageCached DEF ImageInv
  <2>4. \A roots : Content(roots)' = Content(roots) BY <2>1 DEF Content
  <2> HIDE DEF img
  <2>5. PICK S : dirs \in Seq(S) BY DEF ImageInv, Caches, IsSeq
  <2>6. dirs \in Seq(S \cup {img})
    <3>1. dirs \in [1 .. Len(dirs) -> S \cup {img}] BY <2>5
    <3> QED BY <2>5, <3>1
  <2>7. n = Len(dirs) + 1 /\ Len(dirs) \in Nat /\ DOMAIN dirs = 1 .. Len(dirs)
    BY <2>1, <2>5 DEF ImageInv, Building
  <2>8. /\ dirs' \in Seq(S \cup {img}) /\ DOMAIN dirs' = 1 .. n /\ Len(dirs') = n
        /\ dirs'[n] = img /\ \A p \in DOMAIN dirs : dirs'[p] = dirs[p]
    BY <2>1, <2>6, <2>7 DEF CacheKey
  <2>9. \A p \in DOMAIN dirs' : p \in DOMAIN profiles' /\ Built(p)'
    <3> SUFFICES ASSUME NEW p \in DOMAIN dirs' PROVE p \in DOMAIN profiles' /\ Built(p)'
      OBVIOUS
    <3>1. CASE p = n
      <4>1. dirs'[p] = Content(profiles[p])' BY <2>1, <2>4, <2>8, <3>1 DEF img
      <4> QED BY <2>1, <2>3, <2>8, <3>1, <4>1 DEF Built, CacheKey
    <3>2. CASE p # n
      <4>1. p \in DOMAIN dirs BY <2>7, <2>8, <3>2
      <4>2. p \in DOMAIN profiles /\ Built(p) BY <2>1, <4>1 DEF ImageInv, Building, Planned
      <4>3. dirs'[p] = Content(profiles[p])' BY <2>1, <2>4, <2>8, <4>1, <4>2 DEF Built
      <4> QED BY <2>1, <2>3, <2>8, <4>1, <4>2, <4>3 DEF Built
    <3> QED BY <3>1, <3>2
  <2>10. Building' BY <2>1, <2>7, <2>8, <2>9 DEF Building, Planned
  <2>11. Caches' BY <2>1, <2>3, <2>8 DEF ImageInv, Caches, IsSeq
  <2> QED BY <2>1, <2>2, <2>10, <2>11 DEF ImageInv, OnBoard, OnPi
<1>8. CASE SaveConfig \/ OpenPower \/ PowerOn \/ WifiOff \/ EnterTry
  <2>1. /\ UNCHANGED <<src, opts, tmpl, profiles, dirs, images, n, active, board, served,
                       pi, left, last>>
        /\ \/ pc = "config" /\ pc' \in {"flash", "atexit"}
           \/ pc = "power" /\ pc' \in {"poweron", "atexit"}
           \/ pc = "poweron" /\ pc' \in {"gateway", "atexit"}
           \/ pc = "wifi" /\ pc' = "try"
           \/ pc = "try" /\ pc' = "loop"
    <3>1. CASE SaveConfig BY <3>1 DEF SaveConfig, world, memory, Stay
    <3>2. CASE OpenPower BY <3>2 DEF OpenPower, disk, memory
    <3>3. CASE PowerOn BY <3>3 DEF PowerOn, disk, memory, Stay
    <3>4. CASE WifiOff BY <3>4 DEF WifiOff, disk, memory, Stay
    <3>5. CASE EnterTry BY <3>5 DEF EnterTry, disk, world, memory, Stay
    <3> QED BY <1>8, <3>1, <3>2, <3>3, <3>4, <3>5
  <2>2. Caches' /\ Building' BY <2>1, BuiltFrame DEF ImageInv, Planned
  <2>3. OnBoard' BY <2>1, BuiltFrame DEF ImageInv, OnBoard, Planned
  <2>4. OnPi' BY <2>1 DEF ImageInv, OnPi
  <2>5. BlockOnItsImage' BY <2>1 DEF ImageInv, BlockOnItsImage
  <2> QED BY <2>2, <2>3, <2>4, <2>5 DEF ImageInv
<1>9. CASE FlashFirst
  <2>1. /\ pc = "flash" /\ pc' \in {"power", "gateway"}
        /\ UNCHANGED <<src, opts, tmpl, profiles, dirs, images, n, left, last>>
    BY <1>9 DEF FlashFirst, disk, Stay
  <2>2. PICK c \in left : active' = ProfileOf(c) /\ board' = ImageAt(dirs[ProfileOf(c)])
    BY <1>9 DEF FlashFirst
  <2>3. active' \in DOMAIN profiles /\ board' = Content(profiles[active'])
    BY <2>1, <2>2, ImageFlashed DEF Planned
  <2>4. OnBoard' /\ OnPi' BY <2>1, <2>3 DEF OnBoard, OnPi, Content
  <2>5. Caches' /\ Building' BY <2>1, BuiltFrame DEF ImageInv, Planned
  <2>6. BlockOnItsImage' BY <2>1 DEF ImageInv, BlockOnItsImage
  <2> QED BY <2>4, <2>5, <2>6 DEF ImageInv
<1>10. CASE Gateway
  <2>1. /\ pc = "gateway" /\ pc' = "wifi"
        /\ pi' = [c \in Chains |-> IF c \in DOMAIN served THEN tmpl[c] ELSE pi[c]]
        /\ UNCHANGED <<src, opts, tmpl, profiles, dirs, images, n, left, last, active,
                       board, served>>
    BY <1>10 DEF Gateway, disk, memory, Stay
  <2>2. OnPi' BY <2>1 DEF OnPi, VersionInv, Prepared
  <2>3. OnBoard' BY <2>1 DEF ImageInv, OnBoard, Content
  <2>4. Caches' /\ Building' BY <2>1, BuiltFrame DEF ImageInv, Planned
  <2>5. BlockOnItsImage' BY <2>1 DEF ImageInv, BlockOnItsImage
  <2> QED BY <2>2, <2>3, <2>4, <2>5 DEF ImageInv
<1>11. CASE Block
  <2>1. /\ pc = "loop" /\ pc' = pc
        /\ UNCHANGED <<src, opts, tmpl, profiles, dirs, images, n, active, board, served,
                       pi>>
    BY <1>11 DEF Block, world, memory
  <2>2. PICK c \in left :
          /\ ProfileOf(c) = active /\ left' = left \ {c}
          /\ last' = IF c \notin DOMAIN served THEN last
                     ELSE [sel |-> SelectRoot(board, RootOf[c]), cert |-> pi[c],
                           img |-> board]
    BY <1>11 DEF Block
  <2>3. BlockOnItsImage'
    <3>1. CASE c \notin DOMAIN served
      BY <2>1, <2>2, <3>1 DEF ImageInv, BlockOnItsImage
    <3>2. CASE c \in DOMAIN served
      <4>1. SelectRoot(board, RootOf[c]) = 1 BY <2>1, <2>2, RootSelected
      <4>2. pi[c] = 1 BY <2>1, <3>2 DEF ImageInv, OnPi, Caches
      <4>3. board.src = src /\ board.power = opts.power
        BY <2>1 DEF ImageInv, OnBoard, Content
      <4>4. last'.sel = 1 /\ last'.cert = 1 /\ last'.img = board
        BY <2>2, <3>2, <4>1, <4>2
      <4> QED BY <2>1, <4>3, <4>4 DEF BlockOnItsImage
    <3> QED BY <3>1, <3>2
  <2>4. Caches' /\ Building' BY <2>1, <2>2, BuiltFrame DEF ImageInv, Planned
  <2>5. OnBoard' /\ OnPi' BY <2>1, BuiltFrame DEF ImageInv, OnBoard, OnPi
  <2> QED BY <2>3, <2>4, <2>5 DEF ImageInv
<1>12. CASE Switch
  <2>1. /\ pc = "loop" /\ pc' \in {"loop", "stop"}
        /\ UNCHANGED <<src, opts, tmpl, profiles, dirs, images, n, left, last, served, pi>>
    BY <1>12 DEF Switch, disk, Stay
  <2>2. PICK c \in left :
          \/ active' = ProfileOf(c) /\ board' = ImageAt(dirs[ProfileOf(c)])
          \/ pc' = "stop"
    BY <1>12 DEF Switch
  <2>3. pc' = "loop" => active' \in DOMAIN profiles /\ board' = Content(profiles[active'])
    BY <2>1, <2>2, ImageFlashed DEF Planned
  <2>4. OnBoard' /\ OnPi' BY <2>1, <2>3 DEF ImageInv, OnBoard, OnPi, Content
  <2>5. Caches' /\ Building' BY <2>1, BuiltFrame DEF ImageInv, Planned
  <2>6. BlockOnItsImage' BY <2>1 DEF ImageInv, BlockOnItsImage
  <2> QED BY <2>4, <2>5, <2>6 DEF ImageInv
<1>13. CASE FlashFails
  <2>1. /\ pc' = "atexit"
        /\ UNCHANGED <<src, opts, dirs, images, left, last>>
    BY <1>13 DEF FlashFails, disk, memory, Stay
  <2>2. BlockOnItsImage' BY <2>1 DEF ImageInv, BlockOnItsImage
  <2> QED BY <2>1, <2>2 DEF ImageInv, Caches, IsSeq, Building, OnBoard, OnPi, Planned
<1>14. CASE SetupRaises \/ LeaveLoop \/ StopSession \/ WifiOn \/ CleanupCut
  <2>1. /\ UNCHANGED <<src, opts, tmpl, profiles, dirs, images, n, active, board, served,
                       pi, left, last>>
        /\ pc' \in {"atexit", "stop", "wifion", "close"}
    BY <1>14 DEF SetupRaises, LeaveLoop, StopSession, WifiOn, CleanupCut, disk,
       world, memory, Stay
  <2> QED BY <2>1, ImageFrame
<1>15. CASE ClosePower
  <2>1. CASE pc = "close"
    <3>1. /\ UNCHANGED <<src, opts, tmpl, profiles, dirs, images, n, active, board, served,
                         pi, left, last>>
          /\ pc' = "atexit"
      BY <1>15, <2>1 DEF ClosePower, disk, memory
    <3> QED BY <3>1, ImageFrame
  <2>2. CASE pc = "atexit"
    <3>1. Forget /\ pc' = "off" /\ UNCHANGED <<src, opts, images, left, last>>
      BY <1>15, <2>2 DEF ClosePower, disk
    <3> QED BY <3>1, ImageForgets
  <2> QED BY <1>15, <2>1, <2>2 DEF ClosePower
<1>16. CASE Kill
  <2>1. Forget /\ pc' = "off" /\ UNCHANGED <<src, opts, images, left, last>>
    BY <1>16 DEF Kill, disk
  <2> QED BY <2>1, ImageForgets
<1>17. CASE UNCHANGED vars
  <2>1. /\ UNCHANGED <<src, opts, tmpl, profiles, dirs, images, n, active, board, served,
                       pi, left, last>>
        /\ pc' = pc
    BY <1>17 DEF vars, disk, world, memory
  <2> QED BY <2>1, ImageFrame
<1> QED BY <1>1, <1>2, <1>3, <1>4, <1>5, <1>6, <1>7, <1>8, <1>9, <1>10, <1>11, <1>12,
           <1>13, <1>14, <1>15, <1>16, <1>17 DEF Next, Setup, Idle

(* The invariants of the two theorems above, for use below. *)
LEMMA VersionSafe == ASSUME ~ProbeFaults PROVE Spec => []VersionInv
<1>1. Init => VersionInv BY VersionInit
<1>2. VersionInv /\ [Next]_vars => VersionInv' BY VersionStep
<1> QED BY <1>1, <1>2, PTL DEF Spec

LEMMA ImageSafe == ASSUME ~ProbeFaults PROVE Spec => []ImageInv
<1>1. Init => ImageInv
  <2>1. <<>> \in Seq({}) OBVIOUS
  <2> QED BY <2>1 DEF Init, ImageInv, Caches, IsSeq, Building, OnBoard, OnPi,
         BlockOnItsImage, Planned
<1>2. VersionInv /\ PartInv /\ ImageInv /\ [Next]_vars => ImageInv' BY ImageStep
<1>3. Spec => []VersionInv BY VersionSafe
<1> QED BY <1>1, <1>2, <1>3, PartSafe, PTL DEF Spec

(* main 2241-2386, 2565-2595 and certificates.py 405-512: as long as docker  *)
(* answers when certificates are examined, every block runs on an image of   *)
(* the present sources and options, whose root verifies the chain that the   *)
(* Pi serves.                                                               *)
THEOREM BlockVerifies ==
    ASSUME ~ProbeFaults
    PROVE  Spec => []BlockOnItsImage
<1>1. ImageInv => BlockOnItsImage BY DEF ImageInv
<1>2. Spec => []ImageInv BY ImageSafe
<1> QED BY <1>1, <1>2, PTL

-----------------------------------------------------------------------------
(***************************************************************************)
(* Room in flash.  While docker answers, an image has one entry for each   *)
(* of its roots.  The packing counts the certificates of a profile and the *)
(* entry of one root; the linker counts the entries of all, on the base    *)
(* that the sources have by then.                                          *)
(***************************************************************************)
SumOf(f, img) == SumFunction([e \in Entries(img) |-> f[e[1]]])
Linked(sz, img) == Base[img.src] + SumOf(sz, img) + SumOf(Extra, img)
Probe(sz) == CHOOSE r \in Roots : \A q \in Roots : sz[r] <= sz[q]

(* A profile packed on a base of b bytes, *)
Fits(sz, b, roots) == b + Extra[Probe(sz)] + SumFunctionOnSet(sz, roots) + Margin <= Flash

Tight(sz, b, p) ==
  /\ \A i \in DOMAIN p : Fits(sz, b, p[i])
  /\ \A i, j \in DOMAIN p : i < j =>
       b + Extra[Probe(sz)] + SumFunctionOnSet(sz, p[i]) + SumFunctionOnSet(sz, p[j])
         > Flash - Margin

(* and what is left once it is linked. *)
Within(sz, b, img) ==
  /\ Linked(sz, img) <= Flash
  /\ Flash - Linked(sz, img)
       >= Margin - ((SumOf(Extra, img) - Extra[Probe(sz)]) + (Base[img.src] - b))

Measured == IF plan = <<>> THEN src ELSE planned

Ranges == size \in [Roots -> Nat \ {0}] /\ src \in 1 .. MaxSrc /\ planned \in 1 .. MaxSrc

Phases ==
  /\ pc \in {"probe", "pack"} => plan = <<>>
  /\ pc = "config" => profiles # <<>>
  /\ pc \in Planned \ {"build", "config"} => plan # <<>>

ProfilesTight == pc \in Planned \cup {"pack"} => Tight(size, Base[Measured], profiles)

BoardFits == board # NoImage => plan # <<>> /\ Within(size, Base[planned], board)

FitInv ==
  /\ Ranges /\ Phases /\ ProfilesTight /\ BoardFits
  /\ Tight(size, Base[planned], plan)
  /\ \A i \in images : Linked(size, i.img) <= Flash

LEMMA UsedIsLinked ==
    ASSUME NEW img
    PROVE  Used(img) = Linked(size, img) /\ ExtraOf(img) = SumOf(Extra, img)
BY DEF Used, ExtraOf, Linked, SumOf

(* There are finitely many roots: each is the root of one of the chains. *)
LEMMA RootsFinite == IsFiniteSet(Roots)
<1>1. Chains = 1 .. Len(RootOf) /\ Len(RootOf) \in Nat BY SetupConstants DEF Chains
<1>2. IsFiniteSet(Chains) BY <1>1, FS_Interval
<1>3. RootOf \in Surjection(Chains, Roots)
  <2>1. RootOf = [c \in Chains |-> RootOf[c]] BY SetupConstants DEF Chains
  <2>2. RootOf \in [Chains -> Roots] BY <2>1 DEF Roots
  <2> QED BY <2>2 DEF Surjection, Roots
<1> QED BY <1>2, <1>3, FS_Surjection

LEMMA SumsAdd ==
    ASSUME NEW f \in [Roots -> Nat], NEW roots \in SUBSET Roots
    PROVE  /\ IsFiniteSet(roots) /\ SumFunctionOnSet(f, roots) \in Nat
           /\ \A r \in Roots \ roots :
                SumFunctionOnSet(f, roots \cup {r}) = SumFunctionOnSet(f, roots) + f[r]
<1>1. IsFiniteSet(roots) BY RootsFinite, FS_Subset
<1>2. SumFunctionOnSet(f, roots) \in Nat BY <1>1, SumNat
<1>3. ASSUME NEW r \in Roots \ roots
      PROVE  SumFunctionOnSet(f, roots \cup {r}) = SumFunctionOnSet(f, roots) + f[r]
  BY <1>1, SumWith
<1> QED BY <1>1, <1>2, <1>3

LEMMA SumOfOne ==
    ASSUME NEW f \in [Roots -> Nat], NEW r \in Roots
    PROVE  SumFunctionOnSet(f, {r}) = f[r]
<1>1. IsFiniteSet({}) BY FS_EmptySet
<1>2. SumFunctionOnSet(f, {}) = 0 BY <1>1, SumStep
<1>3. SumFunctionOnSet(f, {} \cup {r}) = SumFunctionOnSet(f, {}) + f[r]
  BY SumsAdd
<1>4. {} \cup {r} = {r} /\ f[r] \in Nat OBVIOUS
<1> QED BY <1>2, <1>3, <1>4

(* generate_universal_header: an image has each of its roots once. *)
LEMMA EntriesSum ==
    ASSUME \A c \in Chains : tmpl[c] = 1, NEW f \in [Roots -> Nat], NEW roots \in SUBSET Roots
    PROVE  SumOf(f, Content(roots)) = SumFunctionOnSet(f, roots)
<1> DEFINE img == Content(roots)
<1>1. /\ DOMAIN img.hdr = {c \in Chains : RootOf[c] \in roots}
      /\ \A c \in DOMAIN img.hdr : img.hdr[c] = tmpl[c]
  BY DEF Content
<1> HIDE DEF img
<1>2. Entries(img) = roots \X {1}
  <2>1. Entries(img) \subseteq roots \X {1} BY <1>1 DEF Entries
  <2>2. ASSUME NEW r \in roots PROVE <<r, 1>> \in Entries(img)
    <3>1. PICK c \in Chains : RootOf[c] = r BY DEF Roots
    <3> QED BY <1>1, <3>1 DEF Entries
  <2> QED BY <2>1, <2>2
<1> DEFINE E == Entries(img)
           g == [e \in E |-> f[e[1]]]
<1>3. SumFunction(g) = SumFunctionOnSet(g, E) BY DEF SumFunction
<1>4. \A r \in roots : g[<<r, 1>>] = f[r] BY <1>2
<1> HIDE DEF g, E
<1>5. SumFunctionOnSet(g, E) = SumFunctionOnSet(f, roots)
  <2>1. IsFiniteSet(roots) /\ \A r \in roots : f[r] \in Nat BY SumsAdd
  <2> DEFINE e == [r \in roots |-> <<r, 1>>]
  <2>2. e \in Bijection(roots, E)
    <3>1. E = roots \X {1} BY <1>2 DEF E
    <3>2. e \in [roots -> E] /\ \A r \in roots : e[r] = <<r, 1>> BY <3>1
    <3>3. \A t \in E : \E r \in roots : e[r] = t BY <3>1, <3>2
    <3>4. \A q, r \in roots : e[q] = e[r] => q = r BY <3>2
    <3> HIDE DEF e, E
    <3> QED BY <3>2, <3>3, <3>4 DEF Bijection, Injection, Surjection, IsInjective
  <2>3. \A r \in roots : g[e[r]] = f[r] BY <1>4
  <2> HIDE DEF e
  <2> QED BY <2>1, <2>2, <2>3, SumRenamed
<1>6. SumOf(f, img) = SumFunction(g) BY DEF SumOf, g, E
<1> QED BY <1>3, <1>5, <1>6 DEF img

LEMMA LinkedAsPlanned ==
    ASSUME Ranges, \A c \in Chains : tmpl[c] = 1, NEW roots \in SUBSET Roots
    PROVE  /\ SumOf(Extra, Content(roots)) = SumFunctionOnSet(Extra, roots)
           /\ Linked(size, Content(roots))
                = Base[src] + SumFunctionOnSet(size, roots) + SumFunctionOnSet(Extra, roots)
           /\ Content(roots).src = src
<1>1. size \in [Roots -> Nat] /\ Extra \in [Roots -> Nat] BY SetupConstants DEF Ranges
<1>2. SumOf(Extra, Content(roots)) = SumFunctionOnSet(Extra, roots)
  BY <1>1, EntriesSum
<1>3. SumOf(size, Content(roots)) = SumFunctionOnSet(size, roots)
  BY <1>1, EntriesSum
<1>4. Content(roots).src = src BY DEF Content
<1> QED BY <1>2, <1>3, <1>4 DEF Linked

(* min(root_sizes): there is a smallest root. *)
LEMMA ProbeIs ==
    ASSUME Ranges
    PROVE  /\ ProbeRoot \in Roots /\ ProbeRoot = Probe(size)
           /\ Extra[ProbeRoot] \in Nat /\ size[ProbeRoot] \in Nat
<1> DEFINE V == {size[r] : r \in Roots}
<1>1. V \in SUBSET Nat /\ V # {}
  <2>1. Roots # {} BY SetupConstants DEF Roots, Chains
  <2> QED BY <2>1 DEF Ranges
<1>2. PICK x \in V : \A y \in V : x <= y
  <2> HIDE DEF V
  <2> QED BY <1>1, LeastNat
<1>3. ProbeRoot \in Roots BY <1>2 DEF ProbeRoot
<1> QED BY <1>3, SetupConstants DEF ProbeRoot, Probe, Ranges

(* root_capacity, measured on the image of the smallest root. *)
LEMMA CapacityIs ==
    ASSUME Ranges, \A c \in Chains : tmpl[c] = 1
    PROVE  Capacity = Flash - (Base[src] + Extra[ProbeRoot]) - Margin
<1> DEFINE q == ProbeRoot
<1>1. q \in Roots /\ Extra[q] \in Nat /\ size[q] \in Nat BY ProbeIs
<1> HIDE DEF q
<1>2. size \in [Roots -> Nat] /\ Extra \in [Roots -> Nat] BY SetupConstants DEF Ranges
<1>3. Used(Content({q})) = Base[src] + size[q] + Extra[q]
  <2>1. {q} \in SUBSET Roots BY <1>1
  <2>2. Linked(size, Content({q}))
          = Base[src] + SumFunctionOnSet(size, {q}) + SumFunctionOnSet(Extra, {q})
    BY <2>1, LinkedAsPlanned
  <2>3. SumFunctionOnSet(size, {q}) = size[q] /\ SumFunctionOnSet(Extra, {q}) = Extra[q]
    BY <1>1, <1>2, SumOfOne
  <2>4. Used(Content({q})) = Linked(size, Content({q})) BY UsedIsLinked
  <2> QED BY <2>2, <2>3, <2>4
<1>4. Base[src] \in Nat /\ {Flash, Margin} \subseteq Nat BY SetupConstants DEF Ranges
<1> QED BY <1>1, <1>3, <1>4 DEF Capacity, q

(* pack_root_profiles: the profile a root goes to still fits, and one is     *)
(* opened only when the root fits none of those before.                     *)
LEMMA PackedTight ==
    ASSUME Ranges, \A c \in Chains : tmpl[c] = 1,
           Parts(profiles), Tight(size, Base[src], profiles), NEW r \in Unpacked,
           Room(r) # {} \/ size[r] <= Capacity
    PROVE  Tight(size, Base[src], Packed(r))
<1>1. /\ Len(profiles) \in Nat /\ DOMAIN profiles = 1 .. Len(profiles)
      /\ \A i \in DOMAIN profiles : profiles[i] \in SUBSET Roots
  BY DEF Parts
<1>2. r \in Roots /\ \A i \in DOMAIN profiles : r \notin profiles[i]
  BY DEF Unpacked
<1> DEFINE B == Base[src] + Extra[Probe(size)]
<1>3. Capacity = Flash - B - Margin BY CapacityIs, ProbeIs
<1>4. {Flash, B, Margin} \subseteq Nat /\ size[r] \in Nat
  <2>1. Base[src] \in Nat /\ Extra[Probe(size)] \in Nat BY ProbeIs, SetupConstants DEF Ranges
  <2> QED BY <1>2, <2>1, SetupConstants DEF Ranges
<1>0. size \in [Roots -> Nat] BY DEF Ranges
<1>8. /\ \A i \in DOMAIN profiles :
           B + SumFunctionOnSet(size, profiles[i]) + Margin <= Flash
      /\ \A i, j \in DOMAIN profiles : i < j =>
           B + SumFunctionOnSet(size, profiles[i]) + SumFunctionOnSet(size, profiles[j])
             > Flash - Margin
  BY DEF Tight, Fits
<1> DEFINE p == Packed(r)
           Sum(u) == SumFunctionOnSet(size, u)
<1> HIDE DEF B
<1>5. \A i \in DOMAIN profiles : Sum(profiles[i]) \in Nat BY <1>0, <1>1, SumsAdd
<1>6. CASE Room(r) = {}
  <2>1. p = Append(profiles, {r}) /\ size[r] <= Capacity BY <1>6 DEF Packed
  <2>2. /\ DOMAIN p = 1 .. (Len(profiles) + 1) /\ p[Len(profiles) + 1] = {r}
        /\ \A i \in 1 .. Len(profiles) : p[i] = profiles[i]
    BY <1>2, <2>1 DEF Parts
  <2> HIDE DEF p
  <2>3. Sum({r}) = size[r] BY <1>0, <1>2, SumOfOne
  <2>4. \A i \in DOMAIN profiles : Sum(profiles[i]) + size[r] > Capacity
    <3>1. \A i \in DOMAIN profiles : ~(Sum(profiles[i]) + size[r] <= Capacity)
      BY <1>6 DEF Room, SizeOf
    <3> QED BY <1>3, <1>4, <1>5, <3>1
  <2> HIDE DEF Sum
  <2>5. ASSUME NEW i \in DOMAIN p PROVE B + Sum(p[i]) + Margin <= Flash
    <3>1. CASE i \in DOMAIN profiles
      <4>1. B + Sum(profiles[i]) + Margin <= Flash BY <1>8, <3>1 DEF Sum
      <4> QED BY <1>1, <2>2, <3>1, <4>1
    <3>2. CASE i \notin DOMAIN profiles
      <4>1. p[i] = {r} BY <1>1, <2>2, <3>2
      <4>2. Sum(p[i]) = size[r] BY <2>3, <4>1
      <4> QED BY <1>3, <1>4, <2>1, <4>2
    <3> QED BY <3>1, <3>2
  <2>6. ASSUME NEW i \in DOMAIN p, NEW j \in DOMAIN p, i < j
        PROVE  B + Sum(p[i]) + Sum(p[j]) > Flash - Margin
    <3>1. i \in DOMAIN profiles /\ p[i] = profiles[i] BY <1>1, <2>2, <2>6
    <3>2. CASE j \in DOMAIN profiles
      <4>1. B + Sum(profiles[i]) + Sum(profiles[j]) > Flash - Margin
        BY <1>8, <2>6, <3>1, <3>2 DEF Sum
      <4>2. p[j] = profiles[j] BY <1>1, <2>2, <3>2
      <4> QED BY <3>1, <4>1, <4>2
    <3>3. CASE j \notin DOMAIN profiles
      <4>1. p[j] = {r} BY <1>1, <2>2, <3>3
      <4>2. Sum(profiles[i]) + size[r] > Capacity BY <2>4, <3>1
      <4>3. Sum(profiles[i]) \in Nat BY <1>5, <3>1
      <4>4. Sum(p[i]) = Sum(profiles[i]) /\ Sum(p[j]) = size[r] BY <2>3, <3>1, <4>1
      <4> QED BY <1>3, <1>4, <4>2, <4>3, <4>4
    <3> QED BY <3>2, <3>3
  <2> QED BY <2>5, <2>6 DEF Tight, Fits, Sum, B, p
<1>7. CASE Room(r) # {}
  <2> DEFINE k == Min(Room(r))
  <2>1. k \in Room(r)
    <3>1. Room(r) \in SUBSET Nat BY <1>1 DEF Room
    <3> QED BY <1>7, <3>1, LeastOf
  <2>2. k \in DOMAIN profiles /\ Sum(profiles[k]) + size[r] <= Capacity
    BY <2>1 DEF Room, SizeOf
  <2>3. p = [profiles EXCEPT ![k] = @ \cup {r}] BY <1>7 DEF Packed
  <2> HIDE DEF k, p
  <2>4. /\ DOMAIN p = DOMAIN profiles /\ p[k] = profiles[k] \cup {r}
        /\ \A i \in DOMAIN profiles : i # k => p[i] = profiles[i]
    BY <1>1, <2>2, <2>3 DEF Parts
  <2>5. Sum(p[k]) = Sum(profiles[k]) + size[r]
    BY <1>0, <1>1, <1>2, <2>2, <2>4, SumsAdd
  <2> HIDE DEF Sum
  <2>6. \A i \in DOMAIN p : Sum(profiles[i]) <= Sum(p[i]) /\ Sum(p[i]) \in Nat
    <3> SUFFICES ASSUME NEW i \in DOMAIN p
                 PROVE  Sum(profiles[i]) <= Sum(p[i]) /\ Sum(p[i]) \in Nat
      OBVIOUS
    <3>1. Sum(profiles[i]) \in Nat BY <1>5, <2>4
    <3>2. CASE i = k BY <1>4, <2>5, <3>1, <3>2
    <3>3. CASE i # k
      <4>1. p[i] = profiles[i] BY <2>4, <3>3
      <4> QED BY <3>1, <4>1
    <3> QED BY <3>2, <3>3
  <2>7. ASSUME NEW i \in DOMAIN p PROVE B + Sum(p[i]) + Margin <= Flash
    <3>1. CASE i = k BY <1>3, <1>4, <1>5, <2>2, <2>5, <3>1
    <3>2. CASE i # k
      <4>1. B + Sum(profiles[i]) + Margin <= Flash BY <1>8, <2>4 DEF Sum
      <4> QED BY <2>4, <3>2, <4>1
    <3> QED BY <3>1, <3>2
  <2>8. ASSUME NEW i \in DOMAIN p, NEW j \in DOMAIN p, i < j
        PROVE  B + Sum(p[i]) + Sum(p[j]) > Flash - Margin
    <3>1. B + Sum(profiles[i]) + Sum(profiles[j]) > Flash - Margin
      BY <1>8, <2>4, <2>8 DEF Sum
    <3>2. Sum(profiles[i]) \in Nat /\ Sum(profiles[j]) \in Nat BY <1>5, <2>4
    <3> QED BY <1>4, <2>6, <3>1, <3>2
  <2> QED BY <2>7, <2>8 DEF Tight, Fits, Sum, B, p
<1> QED BY <1>6, <1>7

(* What is on the board after a west flash fits, but for what was not counted. *)
LEMMA FlashedFits ==
    ASSUME VersionInv, PartInv, ImageInv, FitInv, pc \in {"flash", "loop"}, NEW c \in left
    PROVE  plan # <<>> /\ Within(size, Base[planned], ImageAt(dirs[ProfileOf(c)]))
<1> DEFINE p == ProfileOf(c)
           roots == profiles[p]
           img == Content(roots)
<1>1. p \in DOMAIN profiles /\ ImageAt(dirs[p]) = img
  BY ImageFlashed DEF Planned
<1>2. roots \in SUBSET Roots BY <1>1 DEF PartInv, Planned, IsPartition, Parts
<1>3. plan # <<>> BY DEF FitInv, Phases, Planned
<1>4. Fits(size, Base[planned], roots)
  BY <1>1, <1>3 DEF FitInv, ProfilesTight, Measured, Tight, Planned
<1>5. \A d \in Chains : tmpl[d] = 1 BY DEF VersionInv, Prepared
<1>6. Linked(size, img) <= Flash
  <2> HIDE DEF img, p
  <2>1. p \in DOMAIN dirs
    <3>1. Len(dirs) = Len(profiles) BY DEF ImageInv, Building, Planned
    <3>2. DOMAIN dirs = 1 .. Len(dirs) BY DEF ImageInv, Caches, IsSeq
    <3>3. DOMAIN profiles = 1 .. Len(profiles) BY DEF PartInv, Planned, IsPartition, Parts
    <3> QED BY <1>1, <3>1, <3>2, <3>3
  <2>2. \E i \in images : i.key = dirs[p] BY <2>1 DEF ImageInv, Building, Built, Planned
  <2>3. PICK i \in images : i.key = dirs[p] /\ i.img = ImageAt(dirs[p]) BY <2>2 DEF ImageAt
  <2> QED BY <1>1, <2>3 DEF FitInv
<1> HIDE DEF roots, p
<1>7. /\ SumOf(Extra, img) = SumFunctionOnSet(Extra, roots) /\ img.src = src
      /\ Linked(size, img)
           = Base[src] + SumFunctionOnSet(size, roots) + SumFunctionOnSet(Extra, roots)
  BY <1>2, <1>5, LinkedAsPlanned DEF FitInv
<1> HIDE DEF img
<1>8. /\ SumFunctionOnSet(size, roots) \in Nat /\ SumFunctionOnSet(Extra, roots) \in Nat
      /\ {Flash, Margin, Base[src], Base[planned], Extra[Probe(size)]} \subseteq Nat
  <2>1. size \in [Roots -> Nat] /\ Extra \in [Roots -> Nat]
    BY SetupConstants DEF FitInv, Ranges
  <2>2. Extra[Probe(size)] \in Nat BY ProbeIs DEF FitInv
  <2>3. {Flash, Margin, Base[src], Base[planned]} \subseteq Nat
    BY SetupConstants DEF FitInv, Ranges
  <2>4. SumFunctionOnSet(size, roots) \in Nat /\ SumFunctionOnSet(Extra, roots) \in Nat
    BY <1>2, <2>1, SumsAdd
  <2> QED BY <2>2, <2>3, <2>4
<1>9. Within(size, Base[planned], img)
  BY <1>4, <1>6, <1>7, <1>8 DEF Within, Fits
<1> QED BY <1>1, <1>3, <1>9 DEF p

(* The universal image, accepted with its margin, is one that fits. *)
LEMMA UniversalFits ==
    ASSUME Ranges, \A c \in Chains : tmpl[c] = 1, Flash - Used(Content(Roots)) >= Margin
    PROVE  Fits(size, Base[src], Roots)
<1> DEFINE q == Probe(size)
<1>1. q \in Roots /\ Extra[q] \in Nat BY ProbeIs
<1>2. size \in [Roots -> Nat] /\ Extra \in [Roots -> Nat] BY SetupConstants DEF Ranges
<1>3. Used(Content(Roots))
        = Base[src] + SumFunctionOnSet(size, Roots) + SumFunctionOnSet(Extra, Roots)
  BY LinkedAsPlanned, UsedIsLinked
<1> HIDE DEF q
<1>4. SumFunctionOnSet(Extra, Roots) >= Extra[q] /\ SumFunctionOnSet(Extra, Roots) \in Nat
  <2>1. Roots \ {q} \in SUBSET Roots /\ q \in Roots \ (Roots \ {q})
        /\ (Roots \ {q}) \cup {q} = Roots
    BY <1>1
  <2>2. SumFunctionOnSet(Extra, Roots) = SumFunctionOnSet(Extra, Roots \ {q}) + Extra[q]
    BY <1>2, <2>1, SumsAdd
  <2>3. SumFunctionOnSet(Extra, Roots \ {q}) \in Nat BY <1>2, <2>1, SumsAdd
  <2> QED BY <1>1, <2>2, <2>3
<1>5. SumFunctionOnSet(size, Roots) \in Nat BY <1>2, SumsAdd
<1>6. {Flash, Margin, Base[src]} \subseteq Nat BY SetupConstants DEF Ranges
<1> QED BY <1>1, <1>3, <1>4, <1>5, <1>6 DEF Fits, q

(* build_profile: what is added to the cache was linked within the flash. *)
LEMMA ImagesFit ==
    ASSUME FitInv, NEW img, Buildable(img), images' = WithImage(img)
    PROVE  \A i \in images' : Linked(size, i.img) <= Flash
<1>1. CASE Ready(img) BY <1>1 DEF WithImage, FitInv
<1>2. CASE ~Ready(img)
  <2> DEFINE e == [key |-> CacheKey(img), img |-> img]
  <2>1. images' = images \cup {e} BY <1>2 DEF WithImage
  <2>2. Linked(size, img) <= Flash BY <1>2, UsedIsLinked DEF Buildable
  <2>3. e.img = img OBVIOUS
  <2> HIDE DEF e
  <2> QED BY <2>1, <2>2, <2>3 DEF FitInv
<1> QED BY <1>1, <1>2

(* What FitInv takes of a step that leaves the plan alone. *)
LEMMA FitFrame ==
    ASSUME FitInv, UNCHANGED <<size, src, plan, planned>>,
           \A i \in images' : Linked(size, i.img) <= Flash,
           \/ board' = board \/ board' = NoImage
           \/ plan # <<>> /\ Within(size, Base[planned], board'),
           \/ pc' \notin Planned \cup {"pack"}
           \/ pc \in Planned \cup {"pack"} /\ profiles' = profiles
           \/ Tight(size, Base[Measured], profiles'),
           pc' \in {"probe", "pack"} => plan = <<>>,
           pc' = "config" => profiles' # <<>>,
           pc' \in Planned \ {"build", "config"} => plan # <<>>
    PROVE  FitInv'
<1>1. Ranges' /\ Phases' BY DEF FitInv, Ranges, Phases
<1>2. Measured' = Measured BY DEF Measured
<1>3. ProfilesTight' BY <1>2 DEF FitInv, ProfilesTight
<1>4. BoardFits' BY DEF FitInv, BoardFits
<1>5. Tight(size', Base[planned'], plan') BY DEF FitInv
<1> QED BY <1>1, <1>3, <1>4, <1>5 DEF FitInv

(* Steps outside planning and flashing. *)
LEMMA FitElsewhere ==
    ASSUME FitInv, UNCHANGED <<size, src, plan, planned, images>>,
           board' = board \/ board' = NoImage,
           pc' \in {"chains", "sign", "profiles", "atexit", "stop", "wifion", "close", "off"}
    PROVE  FitInv'
<1>1. \A i \in images' : Linked(size, i.img) <= Flash BY DEF FitInv
<1>2. pc' \notin Planned \cup {"pack", "probe"} BY DEF Planned
<1> QED BY <1>1, <1>2, FitFrame DEF Planned

LEMMA FitStep ==
    ASSUME VersionInv, PartInv, ImageInv, FitInv, [Next]_vars
    PROVE  FitInv'
<1>1. \A i \in images : Linked(size, i.img) <= Flash BY DEF FitInv
<1>2. \A b : Tight(size, b, <<>>) BY DEF Tight
<1>3. CASE Start
  <2>1. UNCHANGED <<size, board, plan, planned, images>> /\ pc' = "chains"
    BY <1>3 DEF Start, world
  <2>2. Ranges'
    <3>1. src \in Nat /\ src >= 1 /\ MaxSrc \in Nat BY SetupConstants DEF FitInv, Ranges
    <3>2. src' \in src .. MaxSrc BY <1>3 DEF Start
    <3>3. src' \in 1 .. MaxSrc BY <3>1, <3>2
    <3> QED BY <2>1, <3>3 DEF FitInv, Ranges
  <2>3. Phases' /\ ProfilesTight' BY <2>1 DEF Phases, ProfilesTight, Planned
  <2>4. BoardFits' BY <2>1 DEF FitInv, BoardFits
  <2> QED BY <2>1, <2>2, <2>3, <2>4 DEF FitInv
<1>4. CASE ReuseChain \/ MakeRoot \/ SignChain \/ Materialize
  <2>1. /\ UNCHANGED <<size, src, board, plan, planned, images>>
        /\ pc' \in {"chains", "sign", "profiles", "atexit"}
    <3>1. CASE ReuseChain \/ Materialize BY <3>1 DEF ReuseChain, Materialize, disk, world
    <3>2. CASE MakeRoot \/ SignChain BY <3>2 DEF MakeRoot, SignChain, world
    <3> QED BY <1>4, <3>1, <3>2
  <2> QED BY <2>1, FitElsewhere
<1>5. CASE TryUniversal
  <2> DEFINE img == Content(Roots)
  <2>1. UNCHANGED <<size, src, board, plan, planned>> /\ pc = "profiles" /\ plan = <<>>
    BY <1>5 DEF TryUniversal, world
  <2>2. \A i \in images' : Linked(size, i.img) <= Flash
    <3>1. (Buildable(img) /\ images' = WithImage(img)) \/ images' = images
      BY <1>5 DEF TryUniversal
    <3> HIDE DEF img
    <3>2. CASE Buildable(img) /\ images' = WithImage(img) BY <3>2, ImagesFit
    <3> QED BY <1>1, <3>1, <3>2
  <2>3. CASE pc' = "probe" BY <2>1, <2>2, <2>3, FitFrame DEF Planned
  <2>4. CASE Flash - Used(img) >= Margin /\ profiles' = <<Roots>> /\ pc' = "config"
    <3>1. \A c \in Chains : tmpl[c] = 1 BY <2>1 DEF VersionInv, Prepared
    <3>2. Fits(size, Base[Measured], Roots)
      BY <2>1, <2>4, <3>1, UniversalFits DEF FitInv, Measured
    <3>3. DOMAIN profiles' = 1 .. 1 /\ profiles'[1] = Roots /\ profiles' # <<>> BY <2>4
    <3>4. Tight(size, Base[Measured], profiles') BY <3>2, <3>3 DEF Tight
    <3> QED BY <2>1, <2>2, <2>4, <3>3, <3>4, FitFrame DEF Planned
  <2> QED BY <1>5, <2>3, <2>4 DEF TryUniversal
<1>6. CASE SplitProfiles
  <2> DEFINE img == Content({ProbeRoot})
  <2>1. /\ UNCHANGED <<size, src, board, plan, planned, profiles>>
        /\ pc = "probe" /\ pc' = "pack" /\ Buildable(img) /\ images' = WithImage(img)
    BY <1>6 DEF SplitProfiles, world, memory
  <2> HIDE DEF img
  <2>2. \A i \in images' : Linked(size, i.img) <= Flash BY <2>1, ImagesFit
  <2>3. profiles' = <<>> /\ plan = <<>> BY <2>1 DEF PartInv, FitInv, Phases
  <2> QED BY <1>2, <2>1, <2>2, <2>3, FitFrame DEF Planned
<1>7. CASE PackNext
  <2>1. /\ UNCHANGED <<size, src, board, plan, planned, images>> /\ pc = "pack"
        /\ plan = <<>>
    BY <1>7 DEF PackNext, disk, world, FitInv, Phases
  <2>2. PICK r \in Unpacked :
          \/ /\ Room(r) # {} \/ size[r] <= Capacity
             /\ profiles' = Packed(r) /\ pc' \in {"build", "pack"}
          \/ pc' = "atexit"
    BY <1>7 DEF PackNext
  <2>3. CASE pc' = "atexit" BY <2>1, <2>3, FitElsewhere
  <2>4. CASE /\ Room(r) # {} \/ size[r] <= Capacity
             /\ profiles' = Packed(r) /\ pc' \in {"build", "pack"}
    <3>1. \A c \in Chains : tmpl[c] = 1 BY <2>1 DEF VersionInv, Prepared
    <3>2. Parts(profiles) BY <2>1 DEF PartInv
    <3>3. Ranges /\ Tight(size, Base[src], profiles)
      BY <2>1 DEF FitInv, ProfilesTight, Measured
    <3>4. Tight(size, Base[src], Packed(r)) BY <2>4, <3>1, <3>2, <3>3, PackedTight
    <3>5. Tight(size, Base[Measured], profiles') BY <2>1, <2>4, <3>4 DEF Measured
    <3> QED BY <1>1, <2>1, <2>4, <3>5, FitFrame DEF Planned
  <2> QED BY <2>2, <2>3, <2>4
<1>8. CASE UseSavedPlan
  <2>1. /\ UNCHANGED <<size, src, board, plan, planned, images>> /\ profiles' = plan
        /\ plan # <<>> /\ pc' = "build"
    BY <1>8 DEF UseSavedPlan, disk, world
  <2>2. Tight(size, Base[Measured], profiles') BY <2>1 DEF FitInv, Measured
  <2> QED BY <1>1, <2>1, <2>2, FitFrame DEF Planned
<1>9. CASE BuildNext
  <2> DEFINE img == Content(profiles[n])
  <2>1. /\ UNCHANGED <<size, src, board, plan, planned, profiles>> /\ pc = "build"
        /\ pc' \in {"config", "build"} /\ n \in DOMAIN profiles
        /\ Buildable(img) /\ images' = WithImage(img)
    BY <1>9 DEF BuildNext, world
  <2> HIDE DEF img
  <2>2. \A i \in images' : Linked(size, i.img) <= Flash BY <2>1, ImagesFit
  <2>3. profiles' # <<>> BY <2>1
  <2> QED BY <2>1, <2>2, <2>3, FitFrame DEF Planned
<1>10. CASE SaveConfig
  <2>1. /\ UNCHANGED <<size, src, board, profiles, images>> /\ plan' = profiles
        /\ planned' = IF plan = <<>> THEN src ELSE planned
        /\ pc = "config" /\ pc' \in {"atexit", "flash"}
    BY <1>10 DEF SaveConfig, world, memory
  <2>2. planned' = Measured /\ plan' # <<>>
    BY <2>1 DEF Measured, FitInv, Phases
  <2>3. Ranges' /\ Phases' BY <2>1, <2>2 DEF FitInv, Ranges, Phases, Measured
  <2>4. Tight(size, Base[Measured], profiles) BY <2>1 DEF FitInv, ProfilesTight, Planned
  <2>5. Measured' = planned' BY <2>2 DEF Measured
  <2>6. ProfilesTight' BY <2>1, <2>2, <2>4, <2>5 DEF ProfilesTight
  <2>7. BoardFits' BY <2>1, <2>2 DEF FitInv, BoardFits, Measured
  <2> QED BY <1>1, <2>1, <2>2, <2>3, <2>4, <2>6, <2>7 DEF FitInv
<1>11. CASE OpenPower \/ PowerOn \/ Gateway \/ WifiOff \/ EnterTry
  <2>1. /\ UNCHANGED <<size, src, board, plan, planned, profiles, images>>
        /\ pc \in Planned \ {"build", "config"}
        /\ pc' \in {"poweron", "gateway", "wifi", "try", "loop", "atexit"}
    BY <1>11
    DEF OpenPower, PowerOn, Gateway, WifiOff, EnterTry, disk, world, memory, Planned
  <2>2. plan # <<>> BY <2>1 DEF FitInv, Phases
  <2> QED BY <1>1, <2>1, <2>2, FitFrame
<1>12. CASE FlashFirst
  <2>1. /\ UNCHANGED <<size, src, plan, planned, profiles, images>> /\ pc = "flash"
        /\ pc' \in {"power", "gateway"}
    BY <1>12 DEF FlashFirst, disk
  <2>2. PICK c \in left : board' = ImageAt(dirs[ProfileOf(c)]) BY <1>12 DEF FlashFirst
  <2>3. plan # <<>> /\ Within(size, Base[planned], board') BY <2>1, <2>2, FlashedFits
  <2> QED BY <1>1, <2>1, <2>3, FitFrame DEF Planned
<1>13. CASE Switch
  <2>1. /\ UNCHANGED <<size, src, plan, planned, profiles, images>> /\ pc = "loop"
        /\ pc' \in {"loop", "stop"}
    BY <1>13 DEF Switch, disk
  <2>2. PICK c \in left : board' = ImageAt(dirs[ProfileOf(c)]) \/ board' = NoImage
    BY <1>13 DEF Switch
  <2>3. /\ plan # <<>>
        /\ board' = NoImage \/ Within(size, Base[planned], board')
    BY <2>1, <2>2, FlashedFits
  <2> QED BY <1>1, <2>1, <2>3, FitFrame DEF Planned
<1>14. CASE FlashFails
  <2>1. /\ UNCHANGED <<size, src, plan, planned, images>> /\ board' = NoImage
        /\ pc' = "atexit"
    BY <1>14 DEF FlashFails, disk
  <2> QED BY <2>1, FitElsewhere
<1>15. CASE SetupRaises \/ LeaveLoop \/ StopSession \/ WifiOn \/ ClosePower \/ CleanupCut
            \/ Kill
  <2>1. /\ UNCHANGED <<size, src, board, plan, planned, images>>
        /\ pc' \in {"atexit", "stop", "wifion", "close", "off"}
    BY <1>15 DEF SetupRaises, LeaveLoop, StopSession, WifiOn, ClosePower, CleanupCut,
       Kill, disk, world
  <2> QED BY <2>1, FitElsewhere
<1>16. CASE Block
  <2>1. UNCHANGED <<size, src, board, plan, planned, profiles, images, pc>> /\ pc = "loop"
    BY <1>16 DEF Block, world, memory
  <2>2. plan # <<>> BY <2>1 DEF FitInv, Phases, Planned
  <2> QED BY <1>1, <2>1, <2>2, FitFrame DEF Planned
<1>17. CASE UNCHANGED vars
  <2>1. UNCHANGED <<size, src, board, plan, planned, profiles, images, pc>>
    BY <1>17 DEF vars, disk, world, memory
  <2> QED BY <1>1, <2>1, FitFrame DEF FitInv, Phases
<1> QED BY <1>3, <1>4, <1>5, <1>6, <1>7, <1>8, <1>9, <1>10, <1>11, <1>12, <1>13, <1>14,
           <1>15, <1>16, <1>17 DEF Next, Setup, Idle

(* flash_usage, pack_root_profiles and the saved plan (run_benchmarks.py     *)
(* 470-488, 2266-2276, 2339-2372): as long as docker answers, every image    *)
(* that is flashed fits, and keeps of the 32 KiB all but what the packing    *)
(* did not count, whatever the sizes of the roots, what the linker adds and  *)
(* how the sources change; and first fit never leaves two profiles that one  *)
(* image could have held.                                                   *)
THEOREM ProfilesFit ==
    ASSUME ~ProbeFaults
    PROVE  Spec => []PlanFits
<1>1. Init => FitInv
  <2> SUFFICES ASSUME Init PROVE FitInv OBVIOUS
  <2>1. /\ size \in Sizes /\ plan = <<>> /\ board = NoImage /\ pc = "off" /\ images = {}
        /\ src = 1 /\ planned = 1
    BY DEF Init
  <2>2. Ranges BY <2>1, SetupConstants DEF Ranges
  <2>3. Tight(size, Base[planned], plan) BY <2>1 DEF Tight
  <2> QED BY <2>1, <2>2, <2>3 DEF FitInv, Phases, ProfilesTight, BoardFits, Planned
<1>2. VersionInv /\ PartInv /\ ImageInv /\ FitInv /\ [Next]_vars => FitInv' BY FitStep
<1>3. FitInv => PlanFits
  <2> SUFFICES ASSUME FitInv PROVE PlanFits OBVIOUS
  <2>1. ProbeRoot = Probe(size) BY ProbeIs DEF FitInv
  <2>2. Used(board) = Linked(size, board) /\ ExtraOf(board) = SumOf(Extra, board)
    BY UsedIsLinked
  <2>3. board # NoImage => Within(size, Base[planned], board) BY DEF FitInv, BoardFits
  <2>4. Tight(size, Base[planned], plan) BY DEF FitInv
  <2> QED BY <2>1, <2>2, <2>3, <2>4 DEF PlanFits, Uncounted, Within, Tight, SizeOf
<1>4. (Spec => []VersionInv) /\ (Spec => []ImageInv) BY VersionSafe, ImageSafe
<1> QED BY <1>1, <1>2, <1>3, <1>4, PartSafe, PTL DEF Spec
=============================================================================
