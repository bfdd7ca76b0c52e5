---------------------------- MODULE PxeBoot_proofs ----------------------------
(***************************************************************************)
(* Proofs about PxeBoot, for every number of clients, whatever they are,   *)
(* every set of addresses and of file names: which replies serve the       *)
(* client that asked, whose files a client is given, and when they are     *)
(* those that the configuration assigns to it.                             *)
(***************************************************************************)
EXTENDS PxeBoot, TLAPS

(* Every variable that a step reads has its type. *)
TypeOK ==
    /\ Tracked \subseteq Macs
    /\ bind \in [port: {67, 4011}, addr: {"any", "lan"}]
    /\ profile \in [Macs -> Profile]
    /\ ip \in [Macs -> (Ips \ {Unspecified, Relay}) \cup {None}]
    /\ config \in Configs
    /\ DOMAIN bootfile = Macs

(* The default bootloaders' files for the client's architecture. *)
DefaultsFor(m) == {select_default_bootloader(profile[m].arch)} \X Names

(* What a client was told to load is, or was, its own or a default of its  *)
(* architecture.                                                           *)
OfferIsOwn ==
    \A m \in Macs : bootfile[m] \in {None} \cup ({m} \X Names) \cup DefaultsFor(m)

(* The inductive invariant. *)
PxeInv == TypeOK /\ OfferIsOwn
-----------------------------------------------------------------------------
(* What the configuration assigns to a client is its own, or the default   *)
(* of its architecture.                                                    *)
LEMMA AssignedIsOwn ==
    ASSUME TypeOK, NEW m \in Macs
    PROVE  Assigned(m) \in ({m} \X Names) \cup DefaultsFor(m)
<1>1. config.bootloader[m] \in Names \cup {None}
  BY DEF TypeOK, Configs
<1>2. select_default_bootloader(profile[m].arch) \in Kinds
  BY DEF select_default_bootloader, Kinds
<1>3. config.default \in [Kinds -> Names]
  BY PxeAssumption DEF TypeOK, Configs
<1> QED
  BY <1>1, <1>2, <1>3 DEF Assigned, DefaultFile, DefaultsFor

(* update_host_status tracks no host but the one it is about. *)
LEMMA UpdateTracks ==
    ASSUME NEW mac, NEW status, NEW target, NEW addr,
           update_host_status(mac, status, target, addr)
    PROVE  Tracked' \subseteq Tracked \cup {mac}
BY DEF update_host_status, Tracked

(* No client has an address or a file at the start. *)
LEMMA PxeStarts == Init => PxeInv
<1> SUFFICES ASSUME Init PROVE PxeInv
  OBVIOUS
<1>1. TypeOK
  BY PxeAssumption DEF Init, StoreInit, TypeOK, Tracked
<1>2. OfferIsOwn
  BY DEF Init, OfferIsOwn
<1> QED
  BY <1>1, <1>2 DEF PxeInv

(* A DHCP request: the client is told its file as it is now, or nothing.   *)
LEMMA DhcpStep ==
    ASSUME PxeInv, NEW m \in Macs, DhcpRequest(m)
    PROVE  PxeInv'
<1> USE DEF PxeInv
<1>1. UNCHANGED <<now, bind, profile, ip, config>>
  BY DEF DhcpRequest
<1>2. PICK msg \in Requests(m) : Skip(msg) \/ \E up \in Routes : Answer(m, msg, up)
  BY DEF DhcpRequest
<1>3. CASE Skip(msg)
  BY <1>1, <1>3 DEF Skip, store, TypeOK, Tracked, OfferIsOwn, DefaultsFor
<1>4. CASE \E up \in Routes : Answer(m, msg, up)
  <2>1. /\ \E addr : update_host_status(m, "Polling", None, addr)
        /\ bootfile' \in {bootfile, [bootfile EXCEPT ![m] = Assigned(m)]}
    BY <1>4 DEF Answer
  <2>2. Tracked' \subseteq Macs
    BY <2>1, UpdateTracks DEF TypeOK
  <2>3. TypeOK'
    BY <1>1, <2>1, <2>2 DEF TypeOK
  <2>4. \A n \in Macs : bootfile'[n] \in {bootfile[n]} \cup
                            (IF n = m THEN {Assigned(m)} ELSE {})
    BY <2>1 DEF TypeOK
  <2>5. OfferIsOwn'
    BY <1>1, <2>4, AssignedIsOwn DEF OfferIsOwn, DefaultsFor
  <2> QED
    BY <2>3, <2>5
<1> QED
  BY <1>2, <1>3, <1>4

(* Every step keeps the inductive invariant. *)
LEMMA PxeInductive == PxeInv /\ [Next]_vars => PxeInv'
<1> SUFFICES ASSUME PxeInv, [Next]_vars PROVE PxeInv'
  OBVIOUS
<1> USE DEF PxeInv
<1>1. ASSUME NEW m \in Macs, GetAddress(m)
      PROVE  PxeInv'
  BY <1>1 DEF GetAddress, TypeOK, Tracked, store, OfferIsOwn, DefaultsFor
<1>2. ASSUME NEW m \in Macs, Reboot(m)
      PROVE  PxeInv'
  <2>1. TypeOK'
    BY <1>2 DEF Reboot, TypeOK, Tracked, store
  <2>2. OfferIsOwn'
    BY <1>2 DEF Reboot, TypeOK, OfferIsOwn, DefaultsFor
  <2> QED
    BY <2>1, <2>2
<1>3. ASSUME NEW m \in Macs, TftpRequest(m)
      PROVE  PxeInv'
  <2>1. PICK mac \in Attributions(ip[m]) :
            UNCHANGED store \/ update_host_status(mac, "Booting", None, None)
    BY <1>3 DEF TftpRequest
  <2>2. CASE mac \in Macs
    <3>1. Tracked' \subseteq Macs
      BY <2>1, <2>2, UpdateTracks DEF TypeOK, Tracked, store
    <3> QED
      BY <1>3, <3>1 DEF TftpRequest, TypeOK, OfferIsOwn, DefaultsFor
  <2>3. CASE mac \notin Macs
    <3>1. mac = None
      BY <2>3 DEF Attributions, HostsAt, TypeOK
    <3>2. HostsAt(ip[m]) = {}
      BY <2>3, <3>1 DEF Attributions, HostsAt, TypeOK
    <3>3. UNCHANGED store
      BY <1>3, <3>2 DEF TftpRequest, Attributions
    <3> QED
      BY <1>3, <3>3 DEF TftpRequest, store, Tracked, TypeOK, OfferIsOwn, DefaultsFor
  <2> QED
    BY <2>2, <2>3
<1>4. CASE Reload \/ UNCHANGED vars
  <2>1. TypeOK'
    BY <1>4 DEF Reload, vars, store, TypeOK, Tracked, Configs
  <2>2. OfferIsOwn'
    BY <1>4 DEF Reload, vars, OfferIsOwn, DefaultsFor
  <2> QED
    BY <2>1, <2>2
<1> QED
  BY <1>1, <1>2, <1>3, <1>4, DhcpStep DEF Next

(* Clients that come and go, answers, loads and reloads keep the inductive *)
(* invariant.                                                              *)
THEOREM PxeInvariant == Spec => []PxeInv
  BY PxeStarts, PxeInductive, PTL DEF Spec
-----------------------------------------------------------------------------
(* A reply to a client without an address. *)
LEMMA UnaddressedServed ==
    ASSUME TypeOK, NEW m \in Macs, NEW msg \in Broadcasted \cup Relayed,
           NEW up \in Routes, bind.port = 67,
           msg \in Relayed => profile[m].remote,
           msg \in Broadcasted => ~profile[m].remote /\ bind.addr = "any"
    PROVE  /\ ReplyArrives(m, msg, up)
           /\ Hears(m, msg, choose_reply_dest(msg), up) => NextServerReached(m, msg, up)
<1>1. CASE msg \in Broadcasted
  <2>1. /\ msg.src = Unspecified /\ msg.sport = 68 /\ msg.ciaddr = Unspecified
        /\ msg.giaddr = Unspecified /\ ~profile[m].remote /\ bind.addr = "any"
    BY <1>1 DEF Broadcasted
  <2>2. choose_reply_dest(msg) = [addr |-> Broadcast, port |-> 68]
    BY <2>1 DEF choose_reply_dest, To
  <2>3. ReplyArrives(m, msg, up)
    BY <2>1, <2>2 DEF ReplyArrives, Hears
  <2>4. resolve_local_ip(m, msg, up) = Or(up, "loopback")
    BY <2>1 DEF resolve_local_ip, Or, get_local_ip_for_target
  <2>5. NextServerReached(m, msg, up)
    BY <2>1, <2>4, PxeAssumption DEF NextServerReached, Reaches, Or, Routes
  <2> QED
    BY <2>3, <2>5
<1>2. CASE msg \in Relayed
  <2>1. msg.giaddr = Relay /\ msg.ciaddr = Unspecified /\ profile[m].remote
    BY <1>2 DEF Relayed
  <2>2. choose_reply_dest(msg) = [addr |-> Relay, port |-> 67]
    BY <2>1, PxeAssumption DEF choose_reply_dest, To
  <2>3. ReplyArrives(m, msg, up)
    BY <2>1, <2>2, PxeAssumption DEF ReplyArrives, Hears
  <2>4. up # None => resolve_local_ip(m, msg, up) = up
    BY <2>1, PxeAssumption DEF resolve_local_ip, Or, get_local_ip_for_target
  <2>5. up # None => NextServerReached(m, msg, up)
    BY <2>1, <2>4 DEF NextServerReached, Reaches
  <2> QED
    BY <2>1, <2>3, <2>5 DEF Hears
<1> QED
  BY <1>1, <1>2

(* A reply to a client that sends from its address. *)
LEMMA AddressedServed ==
    ASSUME TypeOK, NEW m \in Macs, ip[m] # None, NEW msg \in Addressed(ip[m]),
           NEW up \in Routes
    PROVE  /\ ReplyArrives(m, msg, up)
           /\ Hears(m, msg, choose_reply_dest(msg), up) => NextServerReached(m, msg, up)
<1> DEFINE a == ip[m]
<1> DEFINE remote == profile[m].remote
<1>1. /\ msg.src = a /\ msg.giaddr = Unspecified /\ msg.ciaddr \in {a, Unspecified}
      /\ msg.sport \in IF bind.port = 4011 THEN {68, 4011} ELSE {68}
      /\ msg.bcast \in BOOLEAN
  BY DEF Addressed
<1>2. /\ a \in Ips /\ a # Unspecified /\ bind.port \in {67, 4011}
      /\ bind.addr \in {"any", "lan"} /\ remote \in BOOLEAN
  BY DEF TypeOK, Profile
<1>3. a # Broadcast
  BY <1>2, PxeAssumption
<1>4. msg.sport \in {68, 4011} /\ (bind.port = 67 => msg.sport = 68)
  BY <1>1, <1>2
<1>5. choose_reply_dest(msg) = [addr |-> IF msg.bcast THEN Broadcast ELSE a,
                               port |-> msg.sport]
  BY <1>1, <1>2, <1>4 DEF choose_reply_dest, To
<1>6. ReplyArrives(m, msg, up)
  BY <1>1, <1>2, <1>3, <1>5 DEF ReplyArrives, Hears
<1>7. ASSUME ~(remote /\ up = None)
      PROVE  NextServerReached(m, msg, up)
  <2>1. CASE msg.ciaddr = a
    <3>1. resolve_local_ip(m, msg, up) = IF remote THEN up ELSE "lan"
      BY <1>2, <1>7, <2>1, PxeAssumption
         DEF resolve_local_ip, Or, get_local_ip_for_target
    <3> QED
      BY <1>2, <2>1, <3>1 DEF NextServerReached, Reaches
  <2>2. CASE msg.ciaddr = Unspecified /\ bind.addr = "lan"
    <3>1. None # "lan"
      BY PxeAssumption
    <3>2. resolve_local_ip(m, msg, up) = "lan"
      BY <1>1, <2>2, <3>1 DEF resolve_local_ip, Or, get_local_ip_for_target
    <3> QED
      BY <2>2, <3>2 DEF NextServerReached, Reaches
  <2>3. CASE msg.ciaddr = Unspecified /\ bind.addr = "any"
    <3>1. resolve_local_ip(m, msg, up) = Or(up, "loopback")
      BY <1>1, <2>3 DEF resolve_local_ip, Or, get_local_ip_for_target
    <3> QED
      BY <1>2, <1>7, <2>3, <3>1, PxeAssumption
         DEF NextServerReached, Reaches, Or, Routes
  <2> QED
    BY <1>1, <1>2, <2>1, <2>2, <2>3
<1> QED
  BY <1>6, <1>7 DEF Hears

(* For every set of clients and addresses: which replies of                *)
(* run_dhcp_server reach the client and name a server that it reaches,     *)
(* and exactly which do not (choose_reply_dest, resolve_local_ip).         *)
THEOREM RepliesServe == Spec => []ReplyServes
<1>1. PxeInv => ReplyServes
  <2> SUFFICES ASSUME PxeInv, NEW m \in Macs, NEW msg \in Requests(m), NEW up \in Routes
               PROVE  /\ ReplyArrives(m, msg, up)
                      /\ Hears(m, msg, choose_reply_dest(msg), up)
                            => NextServerReached(m, msg, up)
    BY DEF ReplyServes
  <2>1. \/ ip[m] # None /\ msg \in Addressed(ip[m])
        \/ bind.port = 67 /\ profile[m].remote /\ msg \in Relayed
        \/ /\ bind.port = 67 /\ ~profile[m].remote /\ bind.addr = "any"
           /\ msg \in Broadcasted
    BY DEF Requests
  <2>2. Broadcasted \cap Relayed = {}
    BY DEF Broadcasted, Relayed
  <2> QED
    BY <2>1, <2>2, AddressedServed, UnaddressedServed DEF PxeInv
<1> QED
  BY <1>1, PxeInvariant, PTL
-----------------------------------------------------------------------------
(* What a client is given: the file that it asks for, or the override of   *)
(* the host it is attributed to, in place of an EFI default.               *)
LEMMA GivenFile ==
    ASSUME TypeOK, NEW m \in Macs, NEW file \in Given(m)
    PROVE  \/ file = bootfile[m]
           \/ /\ bootfile[m] \in EfiDefaults
              /\ \E mac \in HostsAt(ip[m]) : file \in {mac} \X Names
<1>1. PICK mac \in Attributions(ip[m]) : file = final_filename(mac, bootfile[m])
  BY DEF Given
<1>2. mac = None \/ (mac \in HostsAt(ip[m]) /\ mac \in Macs)
  BY <1>1 DEF Attributions, HostsAt, TypeOK
<1>3. mac \in Macs => config.bootloader[mac] \in Names \cup {None}
  BY DEF TypeOK, Configs
<1> QED
  BY <1>1, <1>2, <1>3 DEF final_filename

(* The EFI defaults of now are not BIOS files and nobody's overrides. *)
LEMMA EfiDefaultKinds ==
    ASSUME NEW file \in EfiDefaults
    PROVE  file[1] \in {"amd64", "arm64"} /\ file[1] \notin Macs
BY PxeAssumption DEF EfiDefaults, DefaultFile, Kinds

(* A client is given its own override, a default made for its firmware or, *)
(* unless it is a BIOS client, the override of a host recorded at its      *)
(* address (select_default_bootloader and the redirect by address).        *)
THEOREM LoadersAreOwn == Spec => []LoadsItsOwn
<1>1. PxeInv => LoadsItsOwn
  <2> SUFFICES ASSUME PxeInv, NEW m \in Macs, Asks(m), NEW file \in Given(m)
               PROVE  \/ file[1] \in {m} \cup MadeFor(profile[m].arch)
                      \/ file[1] \in HostsAt(ip[m]) \ {m} /\ profile[m].arch # "bios"
    BY DEF LoadsItsOwn
  <2>1. bootfile[m] \in ({m} \X Names) \cup DefaultsFor(m)
    BY DEF PxeInv, OfferIsOwn, Asks
  <2>2. bootfile[m][1] \in {m, select_default_bootloader(profile[m].arch)}
    BY <2>1 DEF DefaultsFor
  <2>3. profile[m].arch \in ArchNames
    BY DEF PxeInv, TypeOK, Profile
  <2>4. /\ select_default_bootloader(profile[m].arch) \in MadeFor(profile[m].arch)
        /\ profile[m].arch = "bios" =>
                select_default_bootloader(profile[m].arch) = "bios"
    BY <2>3 DEF select_default_bootloader, MadeFor, ArchNames, Kinds
  <2>5. CASE file = bootfile[m]
    BY <2>2, <2>4, <2>5
  <2>6. CASE /\ bootfile[m] \in EfiDefaults
             /\ \E mac \in HostsAt(ip[m]) : file \in {mac} \X Names
    <3>1. bootfile[m][1] \in {"amd64", "arm64"} /\ bootfile[m][1] \notin Macs
      BY <2>6, EfiDefaultKinds
    <3>2. profile[m].arch # "bios"
      BY <2>2, <2>4, <3>1
    <3>3. file[1] \in HostsAt(ip[m])
      BY <2>6
    <3> QED
      BY <3>2, <3>3
  <2> QED
    BY <2>5, <2>6, GivenFile DEF PxeInv
<1> QED
  BY <1>1, PxeInvariant, PTL

(* A client that the store knows by its address is given what it is        *)
(* assigned when it asks, exactly if it was told that file or asks for a   *)
(* present EFI default (final_filename).                                   *)
THEOREM OverridesAreLoaded == Spec => []OverrideLoaded
<1>1. PxeInv => OverrideLoaded
  <2> SUFFICES ASSUME PxeInv, NEW m \in Macs, Asks(m), Known(m), NEW file \in Given(m)
               PROVE  file = Assigned(m) <=>
                        bootfile[m] \in EfiDefaults \cup {Assigned(m)}
    BY DEF OverrideLoaded
  <2> DEFINE kind == select_default_bootloader(profile[m].arch)
  <2> DEFINE own == config.bootloader[m]
  <2>1. file = final_filename(m, bootfile[m])
    BY DEF Given, Attributions, Known
  <2>2. m # None
    BY StoreAssumption
  <2>3. CASE bootfile[m] \notin EfiDefaults
    BY <2>1, <2>3 DEF final_filename
  <2>4. CASE bootfile[m] \in EfiDefaults /\ own # None
    BY <2>1, <2>2, <2>4 DEF final_filename, Assigned
  <2>5. CASE bootfile[m] \in EfiDefaults /\ own = None
    <3>1. bootfile[m][1] \notin Macs /\ bootfile[m][1] \in Kinds
      BY <2>5, EfiDefaultKinds DEF Kinds
    <3>2. bootfile[m][1] = kind
      <4>1. bootfile[m] \in ({m} \X Names) \cup ({kind} \X Names)
        BY DEF PxeInv, OfferIsOwn, Asks, DefaultsFor
      <4> HIDE DEF kind
      <4> QED
        BY <3>1, <4>1
    <3>3. bootfile[m] = DefaultFile(kind)
      BY <2>5, <3>2 DEF EfiDefaults, DefaultFile
    <3>4. Assigned(m) = DefaultFile(kind)
      BY <2>5 DEF Assigned
    <3>5. file = bootfile[m]
      BY <2>1, <2>5 DEF final_filename
    <3> QED
      BY <3>3, <3>4, <3>5
  <2> QED
    BY <2>3, <2>4, <2>5
<1> QED
  BY <1>1, PxeInvariant, PTL
=============================================================================
