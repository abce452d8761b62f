------------------------------ MODULE RunSetup ------------------------------
(***************************************************************************)
(* main of run_benchmarks.py around its block loop: chains from the         *)
(* certificate cache, firmware profiles from the firmware cache, flashing,  *)
(* PPK2 power, the gateway and its Wi-Fi, and the cleanup.  The process may *)
(* raise, be interrupted (Ctrl-C, the finally and atexit handlers run) or   *)
(* be killed (they do not) at every step, and is then resumed.              *)
(*                                                                         *)
(* Chains are numbered in the order of selected_chain_ids and stand for     *)
(* their cases; root algorithms are numbers too.  A root certificate is a   *)
(* version of its algorithm, 0 for none.                                    *)
(***************************************************************************)
EXTENDS Integers, Sequences, FiniteSets, FiniteSetsExt, SequencesExt

CONSTANTS RootOf,       \* RootOf[c]: the root algorithm of chain c
          HashRoots,    \* HASH_BASED_SIGNATURES
          Flash,        \* FLASH capacity
          Base,         \* Base[v]: footprint of version v's image without roots
          Extra,        \* Extra[r]: bundle entry, name and padding root r is linked with
          Margin,       \* 32 KiB
          Sizes,        \* the sizes the roots may have: functions on Roots
          Cached,       \* the sets of chains an earlier run may have cached
          Backends,     \* values of --server-backend
          MaxStarts,    \* processes of the run
          MaxSrc,       \* versions of the firmware sources
          ProbeFaults   \* _cert_is_valid may fail for want of docker

Chains == DOMAIN RootOf
Roots == {RootOf[c] : c \in Chains}
NoImage == [src |-> 0, power |-> FALSE, hdr |-> <<>>]

ASSUME SetupConstants ==
  /\ RootOf \in Seq(Nat) /\ RootOf # <<>>
  /\ {Flash, Margin, MaxStarts} \subseteq Nat /\ MaxSrc \in Nat \ {0}
  /\ Base \in [1 .. MaxSrc -> Nat] /\ Extra \in [Roots -> Nat]
  /\ \A s \in Sizes : s \in [Roots -> Nat \ {0}]
  /\ Cached \subseteq SUBSET Chains /\ Backends \subseteq {"auto", "openssl", "wolfssl"}
  /\ ProbeFaults \in BOOLEAN

VARIABLES
  size,      \* DER size of each root
  src,       \* version of the firmware sources
  certs,     \* certificate cache: the root version chain c was signed with
  rootc,     \* root cache: version of each root
  images,    \* firmware cache: [key, img]
  plan,      \* firmware_profiles of run_config.json; <<>>: not planned
  left,      \* cases whose block the checkpoint does not count yet
  board,     \* the image on the board
  pi,        \* root version behind the chain each case serves from the Pi
  wifi, dut, \* "on" or "off"
  opts,      \* power and server_backend (saved), wifi and skip_build (not)
  pc, n,     \* the process; n counts within a loop
  tmpl,      \* chain_templates: root version of each chain
  served,    \* case -> server backend, for the supported cases
  profiles,  \* profile_roots
  dirs,      \* profile_build_dirs: cache keys
  active,    \* active_profile
  ppk,       \* a PPK2 session is open and its close registered with atexit
  last,      \* history: the last block that ran
  starts,    \* history: processes
  planned,   \* history: the sources the plan was measured with
  missed     \* history: of "wifi" and "dut", what was not switched back

disk == <<size, src, certs, rootc, images, plan, left, opts, starts, planned>>
world == <<board, pi, wifi, dut>>
memory == <<tmpl, served, profiles, dirs, active>>
vars == <<disk, world, memory, pc, n, ppk, last, missed>>

NoBlock == [sel |-> 0, cert |-> 0, img |-> NoImage]
NoTemplates == [c \in Chains |-> 0]

Init ==
  /\ size \in Sizes /\ src = 1
  /\ certs \in {[c \in Chains |-> IF c \in S THEN 1 ELSE 0] : S \in Cached}
  /\ rootc = [r \in Roots |-> IF \E c \in Chains : RootOf[c] = r /\ certs[c] = 1
                              THEN 1 ELSE 0]
  /\ images = {} /\ plan = <<>> /\ left = Chains
  /\ board = NoImage /\ pi = NoTemplates /\ wifi = "on" /\ dut = "off"
  /\ opts \in [power : BOOLEAN, backend : Backends,
               wifi : {FALSE}, skip : {FALSE}]
  /\ pc = "off" /\ n = 1 /\ tmpl = NoTemplates /\ served = <<>>
  /\ profiles = <<>> /\ dirs = <<>> /\ active = 0 /\ ppk = FALSE
  /\ last = NoBlock /\ starts = 0 /\ planned = 1 /\ missed = {}

(***************************************************************************)
(* Caches and images                                                        *)
(***************************************************************************)
\* the header and the options an image with these roots is built from
Content(roots) ==
  [src |-> src, power |-> opts.power,
   hdr |-> [c \in {d \in Chains : RootOf[d] \in roots} |-> tmpl[c]]]

\* generate_universal_header: one entry per distinct root certificate
Entries(img) == {<<RootOf[c], img.hdr[c]>> : c \in DOMAIN img.hdr}

\* [BENCH_SELECT]: the first entry with the name of the root, 0 if none
SelectRoot(img, root) ==
  LET named == {c \in DOMAIN img.hdr : RootOf[c] = root}
  IN  IF named = {} THEN 0 ELSE img.hdr[Min(named)]

\* flash_usage: what is linked, an array and a bundle entry for each root
ExtraOf(img) == SumFunction([e \in Entries(img) |-> Extra[e[1]]])
Used(img) ==
  Base[img.src] + SumFunction([e \in Entries(img) |-> size[e[1]]]) + ExtraOf(img)

CacheKeyNoSources(img) == [img EXCEPT !.src = 0]   \* mutant

\* firmware_cache_key: a hash of sources, options and header
CacheKey(img) == img

Ready(img) == \E i \in images : i.key = CacheKey(img)
ImageAt(key) == (CHOOSE i \in images : i.key = key).img

\* build_profile: the image is in the cache, or is built and fits
Buildable(img) == Ready(img) \/ (~opts.skip /\ Used(img) <= Flash)
WithImage(img) == IF Ready(img) THEN images
                  ELSE images \cup {[key |-> CacheKey(img), img |-> img]}

\* server_backend_for_case; "none" when the backend cannot serve the chain
Backend(c) ==
  CASE opts.backend = "auto" ->
         IF RootOf[c] \in HashRoots THEN "wolfssl" ELSE "openssl"
    [] opts.backend = "openssl" /\ RootOf[c] \in HashRoots -> "none"
    [] OTHER -> opts.backend

(***************************************************************************)
(* pack_root_profiles                                                       *)
(***************************************************************************)
SizeOf(roots) == SumFunctionOnSet(size, roots)

\* the roots no profile holds yet, and the one sorted() yields next
Unpacked == Roots \ UNION {profiles[i] : i \in DOMAIN profiles}
LargestFirst(r) == \A q \in Unpacked : size[q] < size[r] \/ (size[q] = size[r] /\ r <= q)

\* root_capacity: the image of the smallest root shows how much room there is;
\* of what a further root costs, only its certificate is counted
ProbeRoot == CHOOSE r \in Roots : \A q \in Roots : size[r] <= size[q]
Capacity == Flash - (Used(Content({ProbeRoot})) - size[ProbeRoot]) - Margin

RoomUnsized(r) ==   \* mutant: the root's own size is not counted
  {i \in DOMAIN profiles : SizeOf(profiles[i]) < Capacity}

Room(r) == {i \in DOMAIN profiles : SizeOf(profiles[i]) + size[r] <= Capacity}

PackedFresh(r) ==   \* mutant: the profile found is replaced, not extended
  IF Room(r) = {} THEN Append(profiles, {r})
  ELSE [profiles EXCEPT ![Min(Room(r))] = {r}]

Packed(r) ==
  IF Room(r) = {} THEN Append(profiles, {r})
  ELSE [profiles EXCEPT ![Min(Room(r))] = @ \cup {r}]

(***************************************************************************)
(* Setup                                                                    *)
(***************************************************************************)
Stay == UNCHANGED <<ppk, last, missed>>
Forget == /\ n' = 1 /\ tmpl' = NoTemplates /\ served' = <<>> /\ profiles' = <<>>
          /\ dirs' = <<>> /\ active' = 0

\* the command is given, for the first time or with --resume; the sources may
\* have been edited meanwhile
Start ==
  /\ pc = "off" /\ left # {} /\ starts < MaxStarts
  /\ starts' = starts + 1 /\ src' \in src .. MaxSrc /\ pc' = "chains"
  /\ \E w, s \in BOOLEAN : opts' = [opts EXCEPT !.wifi = w, !.skip = s]
  /\ last' = NoBlock
  /\ UNCHANGED <<size, certs, rootc, images, plan, planned, left, world, memory, n,
                 ppk, missed>>

\* generate_server_case with a valid chain in the cache
ReuseChain ==
  /\ pc = "chains" /\ n \in Chains /\ certs[n] # 0
  /\ tmpl' = [tmpl EXCEPT ![n] = certs[n]] /\ n' = n + 1
  /\ UNCHANGED <<disk, world, served, profiles, dirs, active, pc>> /\ Stay

\* ... without one: the chain is dropped, the root reused or made anew ...
MakeRoot ==
  /\ pc = "chains" /\ n \in Chains /\ (certs[n] = 0 \/ ProbeFaults)
  /\ certs' = [certs EXCEPT ![n] = 0]
  /\ \/ rootc[RootOf[n]] # 0 /\ UNCHANGED rootc
     \/ /\ rootc[RootOf[n]] = 0 \/ (ProbeFaults /\ rootc[RootOf[n]] = 1)
        /\ rootc' = [rootc EXCEPT ![RootOf[n]] = @ + 1]
  /\ pc' = "sign"
  /\ UNCHANGED <<size, src, images, plan, left, opts, starts, planned, world,
                 memory, n>> /\ Stay

\* ... and intermediate and leaf are signed with it
SignChain ==
  /\ pc = "sign" /\ certs' = [certs EXCEPT ![n] = rootc[RootOf[n]]]
  /\ tmpl' = [tmpl EXCEPT ![n] = rootc[RootOf[n]]] /\ n' = n + 1 /\ pc' = "chains"
  /\ UNCHANGED <<size, src, rootc, images, plan, left, opts, starts, planned,
                 world, served, profiles, dirs, active>> /\ Stay

\* materialize_case and write_case_configs, one of which may fail
Materialize ==
  /\ pc = "chains" /\ n \notin Chains
  /\ LET able == {c \in Chains : Backend(c) # "none"} IN
     \E bad \in {{}} \cup {{c} : c \in able} :
       /\ served' = [c \in able \ bad |-> Backend(c)]
       /\ pc' = IF able = bad THEN "atexit" ELSE "profiles"
  /\ n' = 1 /\ UNCHANGED <<disk, world, tmpl, profiles, dirs, active>> /\ Stay

TryUniversal ==
  /\ pc = "profiles" /\ plan = <<>>
  /\ LET img == Content(Roots) IN
     \/ /\ Buildable(img) /\ images' = WithImage(img)
        /\ IF Flash - Used(img) >= Margin
           THEN profiles' = <<Roots>> /\ dirs' = <<CacheKey(img)>> /\ pc' = "config"
           ELSE pc' = "probe" /\ UNCHANGED <<profiles, dirs>>
     \/ /\ ~Ready(img) /\ ~opts.skip /\ pc' = "probe"   \* the build fails
        /\ UNCHANGED <<images, profiles, dirs>>
  /\ UNCHANGED <<size, src, certs, rootc, plan, left, opts, starts, planned,
                 world, tmpl, served, active, n>> /\ Stay

\* the image with the smallest root is built for its size
SplitProfiles ==
  LET img == Content({ProbeRoot}) IN
  /\ pc = "probe" /\ Buildable(img) /\ images' = WithImage(img) /\ pc' = "pack"
  /\ UNCHANGED <<size, src, certs, rootc, plan, left, opts, starts, planned,
                 world, memory, n>> /\ Stay

\* pack_root_profiles, one root of its loop; a root too large for a profile
\* of its own is an error
PackNext ==
  /\ pc = "pack"
  /\ \E r \in Unpacked :
       /\ LargestFirst(r)
       /\ \/ /\ Room(r) # {} \/ size[r] <= Capacity
             /\ profiles' = Packed(r)
             /\ pc' = IF Unpacked = {r} THEN "build" ELSE "pack"
          \/ /\ Room(r) = {} /\ size[r] > Capacity
             /\ pc' = "atexit" /\ UNCHANGED profiles
  /\ UNCHANGED <<disk, world, tmpl, served, dirs, active, n>> /\ Stay

UseSavedPlan ==
  /\ pc = "profiles" /\ plan # <<>> /\ profiles' = plan /\ pc' = "build"
  /\ UNCHANGED <<disk, world, tmpl, served, dirs, active, n>> /\ Stay

BuildNext ==
  /\ pc = "build" /\ n \in DOMAIN profiles
  /\ LET img == Content(profiles[n]) IN
       /\ Buildable(img) /\ images' = WithImage(img)
       /\ dirs' = Append(dirs, CacheKey(img))
  /\ n' = n + 1 /\ pc' = IF n = Len(profiles) THEN "config" ELSE "build"
  /\ UNCHANGED <<size, src, certs, rootc, plan, left, opts, starts, planned,
                 world, tmpl, served, profiles, active>> /\ Stay

\* manifests, run_config.json, then Source Mode refuses several profiles
SaveConfig ==
  /\ pc = "config" /\ plan' = profiles
  /\ planned' = IF plan = <<>> THEN src ELSE planned
  /\ pc' = IF opts.power /\ Len(profiles) # 1 THEN "atexit" ELSE "flash"
  /\ UNCHANGED <<size, src, certs, rootc, images, left, opts, starts, world, memory,
                 n>> /\ Stay

ProfileOf(c) == CHOOSE p \in DOMAIN profiles : RootOf[c] \in profiles[p]

FlashFirst ==
  /\ pc = "flash"
  /\ \E c \in left : /\ active' = ProfileOf(c)
                     /\ board' = ImageAt(dirs[ProfileOf(c)])
  /\ pc' = IF opts.power THEN "power" ELSE "gateway"
  /\ UNCHANGED <<disk, pi, wifi, dut, tmpl, served, profiles, dirs, n>> /\ Stay

\* a failed west flash
FlashFails ==
  /\ pc = "flash" /\ board' = NoImage /\ pc' = "atexit"
  /\ UNCHANGED <<disk, pi, wifi, dut, memory, n>> /\ Stay

\* PowerProfilerSession.open switches the DUT off, at the latest when it fails,
\* unless that command does not get through
OpenPower ==
  /\ pc = "power"
  /\ \/ /\ dut' = "off" /\ missed' = missed \ {"dut"}
        /\ \/ ppk' = TRUE /\ pc' = "poweron"
           \/ pc' = "atexit" /\ UNCHANGED ppk
     \/ pc' = "atexit" /\ UNCHANGED <<ppk, dut, missed>>
  /\ UNCHANGED <<disk, board, pi, wifi, memory, n, last>>

\* power_on, then probe_current: leakage only is refused
PowerOn ==
  /\ pc = "poweron" /\ dut' = "on" /\ pc' \in {"gateway", "atexit"}
  /\ UNCHANGED <<disk, board, pi, wifi, memory, n>> /\ Stay

\* start_master, prepare and deploy_case of the supported cases
Gateway ==
  /\ pc = "gateway"
  /\ pi' = [c \in Chains |-> IF c \in DOMAIN served THEN tmpl[c] ELSE pi[c]]
  /\ pc' = "wifi" /\ UNCHANGED <<disk, board, wifi, dut, memory, n>> /\ Stay

\* set_wifi_enabled(False), whose failure nobody sees ...
WifiOff ==
  /\ pc = "wifi" /\ pc' = "try"
  /\ wifi' \in IF opts.wifi THEN {"off", wifi} ELSE {wifi}
  /\ UNCHANGED <<disk, board, pi, dut, memory, n>> /\ Stay

\* ... and then the try block, whose finally switches it on again
EnterTry ==
  /\ pc = "try" /\ pc' = "loop" /\ UNCHANGED <<disk, world, memory, n>> /\ Stay

\* what the process has yet to switch back
WifiOwed == IF opts.wifi /\ pc \in {"try", "loop", "stop", "wifion"} THEN {"wifi"} ELSE {}
PowerOwed == IF ppk THEN {"dut"} ELSE {}

\* an exception or Ctrl-C before the try block: no finally, only atexit
SetupRaises ==
  /\ pc \in {"chains", "sign", "profiles", "probe", "pack", "build", "config", "flash",
             "power", "poweron", "gateway", "wifi", "try"}
  /\ pc' = "atexit" /\ missed' = missed \cup WifiOwed
  /\ UNCHANGED <<disk, world, memory, n, ppk, last>>

(***************************************************************************)
(* The block loop, inside try, and the cleanup                              *)
(***************************************************************************)
\* a block whose profile is on the board; an unsupported case only gets a row
Block ==
  /\ pc = "loop"
  /\ \E c \in left :
       /\ ProfileOf(c) = active /\ left' = left \ {c}
       /\ last' = IF c \notin DOMAIN served THEN last
                  ELSE [sel |-> SelectRoot(board, RootOf[c]), cert |-> pi[c],
                        img |-> board]
  /\ UNCHANGED <<size, src, certs, rootc, images, plan, opts, starts, planned,
                 world, memory, pc, n, ppk, missed>>

\* the profile is done: flash the next one, which may fail
Switch ==
  /\ pc = "loop" /\ \A c \in left : ProfileOf(c) # active
  /\ \E c \in left :
       \/ /\ active' = ProfileOf(c) /\ board' = ImageAt(dirs[ProfileOf(c)])
          /\ UNCHANGED pc
       \/ board' = NoImage /\ pc' = "stop" /\ UNCHANGED active
  /\ UNCHANGED <<disk, pi, wifi, dut, tmpl, served, profiles, dirs, n>> /\ Stay

\* the loop ends, or something in it raises, or Ctrl-C
LeaveLoop ==
  /\ pc = "loop" /\ pc' = "stop"
  /\ UNCHANGED <<disk, world, memory, n>> /\ Stay

\* finally: stop_session ...
StopSession ==
  /\ pc = "stop" /\ pc' = "wifion"
  /\ UNCHANGED <<disk, world, memory, n>> /\ Stay

WifiOnNever ==   \* mutant: the Wi-Fi is not switched on again
  /\ pc = "wifion" /\ pc' = "close"
  /\ UNCHANGED <<disk, world, memory, n>> /\ Stay

\* ... set_wifi_enabled(True), whose failure nobody sees either ...
WifiOn ==
  /\ pc = "wifion" /\ pc' = "close"
  /\ \/ opts.wifi /\ wifi' = "on" /\ missed' = missed \ {"wifi"}
     \/ opts.wifi /\ missed' = missed \cup {"wifi"} /\ UNCHANGED wifi
     \/ ~opts.wifi /\ UNCHANGED <<wifi, missed>>
  /\ UNCHANGED <<disk, board, pi, dut, memory, n, ppk, last>>

\* ... and the session's close, which atexit calls again: it forgets the PPK2
\* also when switching the DUT off raised or was interrupted
ClosePower ==
  /\ pc \in {"close", "atexit"}
  /\ pc' = IF pc = "close" THEN "atexit" ELSE "off"
  /\ ppk' = FALSE
  /\ \/ ppk /\ dut' = "off" /\ missed' = missed \ {"dut"}
     \/ ppk /\ missed' = missed \cup {"dut"} /\ UNCHANGED dut
     \/ ~ppk /\ UNCHANGED <<dut, missed>>
  /\ IF pc = "atexit" THEN Forget ELSE UNCHANGED <<memory, n>>
  /\ UNCHANGED <<disk, board, pi, wifi, last>>

\* Ctrl-C or an exception in the cleanup: the rest of finally is skipped,
\* atexit is not
CleanupCut ==
  /\ pc \in {"stop", "wifion", "close"} /\ pc' = "atexit"
  /\ missed' = missed \cup WifiOwed
  /\ UNCHANGED <<disk, world, memory, n, ppk, last>>

\* the process is killed, or the host goes down
Kill ==
  /\ pc # "off" /\ pc' = "off" /\ ppk' = FALSE
  /\ missed' = missed \cup WifiOwed \cup PowerOwed /\ Forget
  /\ UNCHANGED <<disk, world, last>>

Idle == pc = "off" /\ (left = {} \/ starts = MaxStarts) /\ UNCHANGED vars

Setup == ReuseChain \/ MakeRoot \/ SignChain \/ Materialize \/ TryUniversal
         \/ SplitProfiles \/ PackNext \/ UseSavedPlan \/ BuildNext \/ SaveConfig
         \/ FlashFirst \/ FlashFails \/ OpenPower \/ PowerOn \/ Gateway \/ WifiOff
         \/ EnterTry
Next == Start \/ Setup \/ SetupRaises \/ Block \/ Switch \/ LeaveLoop \/ StopSession
        \/ WifiOn \/ ClosePower \/ CleanupCut \/ Kill \/ Idle
Spec == Init /\ [][Next]_vars

-----------------------------------------------------------------------------
(* A block runs on an image built from the sources and options of this       *)
(* process, and the root the firmware picks by name from its bundle is the   *)
(* one that signed the chain the Pi serves, whatever was cached, split into  *)
(* profiles, saved by an earlier process or edited in between                *)
(* (run_benchmarks.py 2241-2386, 2565-2595; certificates.py 405-512).        *)
BlockOnItsImage == last # NoBlock =>
  /\ last.img.src = src /\ last.img.power = opts.power
  /\ last.sel # 0 /\ last.sel = last.cert

(* What the packing did not count of an image: the bundle entries beyond the *)
(* probe's, and what the sources have grown by since the plan was made.      *)
Uncounted(img) ==
  (ExtraOf(img) - Extra[ProbeRoot]) + (Base[img.src] - Base[planned])

(* The image on the board fits the flash, and of the 32 KiB no more is gone  *)
(* than what was not counted when its plan was made; no two parts of a split *)
(* plan would have fitted one image (certificates.py 405-512; firmware.py    *)
(* 214-229; run_benchmarks.py 470-488, 2339-2372).                           *)
PlanFits ==
  /\ board # NoImage => /\ Used(board) <= Flash
                        /\ Flash - Used(board) >= Margin - Uncounted(board)
  /\ \A i, j \in DOMAIN plan : i < j =>
       Base[planned] + Extra[ProbeRoot] + SizeOf(plan[i]) + SizeOf(plan[j])
         > Flash - Margin

(* What README.md 49-52 says of the profiles: the image on the board leaves  *)
(* 32 KiB of flash free.                                                     *)
MarginKept == board # NoImage => Flash - Used(board) >= Margin

(* The plan in run_config.json, which a resumed process takes as it is, has  *)
(* every root of the run in exactly one profile: no case is without an image *)
(* to flash, none has two (run_benchmarks.py 470-488, 2266-2276, 2373-2377). *)
PlanPartitions == plan # <<>> =>
  /\ UNION {plan[i] : i \in DOMAIN plan} = Roots
  /\ \A i, j \in DOMAIN plan : i # j => plan[i] \cap plan[j] = {}

(* When no process runs the DUT has no power and the Pi has Wi-Fi, unless    *)
(* the command that sees to it was lost and no later one made up for it: the *)
(* process was killed; Ctrl-C came between switching Wi-Fi off and the try,  *)
(* or during the cleanup; or the command itself failed (run_benchmarks.py    *)
(* 2503-2510, 2541, 2553-2560, 2688-2697; gateway.py 53-62;                  *)
(* power_profiler.py 77-97, 143-156).                                        *)
Restored == pc = "off" =>
  /\ wifi = "on" \/ "wifi" \in missed
  /\ dut = "off" \/ "dut" \in missed
=============================================================================
