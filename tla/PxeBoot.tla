------------------------------- MODULE PxeBoot -------------------------------
(***************************************************************************)
(* The first half of a network boot: run_dhcp_server of                    *)
(* bootycall-dhcp/src/server.rs answers PXE clients with a boot file and   *)
(* with the server to load it from, and the TFTP listener of               *)
(* bootycall-tftp/src/server.rs decides which file such a client is given. *)
(* A client is on the server's own network or on another one.  Without an  *)
(* address it broadcasts, or is relayed; with one it sends from it to the  *)
(* server.  Addresses are handed out by another DHCP server.               *)
(*                                                                         *)
(* A file is a pair: whose it is, a kind of default bootloader or a host   *)
(* that has it as its override, and a name.  Overrides and defaults are    *)
(* taken to be different files.                                            *)
(***************************************************************************)
EXTENDS StateStore

CONSTANTS
    Unspecified, Relay, Broadcast,      \* 0.0.0.0, the relay agent, 255.255.255.255
    Profiles,           \* what the clients may be, within Profile
    Names,              \* names of bootloader files
    Defaults            \* what default_bootloader_* may be set to

ArchNames == {"bios", "x64", "arm64", "other", "unknown"}
Profile == [arch: ArchNames, remote: BOOLEAN]
Kinds == {"bios", "amd64", "arm64"}     \* default_bootloader_bios, _amd64, _arm64

ASSUME PxeAssumption ==
    /\ {Unspecified, Relay} \subseteq Ips /\ Unspecified # Relay
    /\ Broadcast \notin Ips
    /\ Profiles \subseteq Profile
    /\ Defaults \subseteq [Kinds -> Names]
    /\ None \notin Names \cup {"lan", "wan", "loopback"}
    /\ Macs \cap Kinds = {}

VARIABLES
    bind,               \* the server's socket: its port, and "any" address or "lan"
    profile,            \* per client: what it is; it does not change
    ip,                 \* per client: its address, or None
    config,             \* the live configuration: overrides and default bootloaders
    bootfile            \* per client: the file it was told to load, or None

vars == <<hosts, logs, now, bind, profile, ip, config, bootfile>>

Configs == [bootloader: [Macs -> Names \cup {None}], default: Defaults]

Answerable == {"Discover", "Request", "Inform"}

Init ==
    /\ StoreInit
    /\ bind \in [port: {67, 4011}, addr: {"any", "lan"}]
    /\ profile \in [Macs -> Profiles]
    /\ ip = [m \in Macs |-> None]
    /\ config \in Configs
    /\ bootfile = [m \in Macs |-> None]
-----------------------------------------------------------------------------
(* The network.  The server is on the clients' network by its address      *)
(* "lan".  Other networks it reaches by that interface, by another ("wan") *)
(* or not at all, which may change at any time.                            *)
Routes == {"lan", "wan", None}

Broadcasted ==
    [src: {Unspecified}, sport: {68}, ciaddr: {Unspecified}, giaddr: {Unspecified},
     bcast: BOOLEAN, pxe: BOOLEAN, type: {"Discover", "Request", "Other"}]

Relayed ==
    [src: {Relay}, sport: {67}, ciaddr: {Unspecified}, giaddr: {Relay},
     bcast: BOOLEAN, pxe: BOOLEAN, type: {"Discover", "Request", "Other"}]

(* A client that has an address may leave it out of ciaddr. *)
Addressed(a) ==
    [src: {a}, sport: IF bind.port = 4011 THEN {68, 4011} ELSE {68},
     ciaddr: {a, Unspecified}, giaddr: {Unspecified},
     bcast: BOOLEAN, pxe: BOOLEAN, type: {"Request", "Inform", "Other"}]

(* What a client may send now.  Port 4011 is for clients that have an      *)
(* address; a socket bound to an address does not receive broadcasts.      *)
Requests(m) ==
    IF ip[m] # None THEN Addressed(ip[m])
    ELSE IF bind.port = 67 /\ profile[m].remote THEN Relayed
    ELSE IF bind.port = 67 /\ bind.addr = "any" THEN Broadcasted
    ELSE {}

(* Does the client, or its relay, hear a reply that is sent to dest?  A    *)
(* broadcast stays on the server's network; anything to another network    *)
(* needs a route.                                                          *)
Hears(m, msg, dest, up) ==
    /\ profile[m].remote => up # None
    /\ IF msg.giaddr # Unspecified THEN dest = [addr |-> Relay, port |-> 67]
       ELSE /\ dest.port = msg.sport
            /\ \/ dest.addr = Broadcast /\ ~profile[m].remote
               \/ dest.addr = msg.src /\ msg.src # Unspecified

(* Does the client reach the server at this address of it?  It does on its *)
(* own side, and at the address where its request came in.                 *)
Reaches(m, server, up) ==
    \/ server = bind.addr
    \/ server = IF profile[m].remote THEN up ELSE "lan"
-----------------------------------------------------------------------------
(* Mutant: ARM64 is not told from the other EFI architectures. *)
select_default_bootloader_efi(arch) == IF arch = "bios" THEN "bios" ELSE "amd64"

select_default_bootloader(arch) ==
    CASE arch = "arm64" -> "arm64"
      [] arch = "bios" -> "bios"
      [] OTHER -> "amd64"

DefaultFile(kind) == <<kind, config.default[kind]>>

(* The boot file of a client as the configuration is now. *)
Assigned(m) ==
    IF config.bootloader[m] # None THEN <<m, config.bootloader[m]>>
    ELSE DefaultFile(select_default_bootloader(profile[m].arch))

To(addr, p) == [addr |-> addr, port |-> p]

(* Mutant: a client that listens on port 4011 is answered on port 68. *)
choose_reply_dest_68(msg) ==
    IF msg.bcast /\ msg.giaddr = Unspecified THEN To(Broadcast, 68)
    ELSE IF bind.port # 67 THEN To(msg.src, msg.sport)
    ELSE IF msg.giaddr # Unspecified THEN To(msg.giaddr, 67)
    ELSE IF msg.ciaddr # Unspecified THEN To(msg.ciaddr, 68)
    ELSE IF msg.src # Unspecified THEN To(msg.src, msg.sport)
    ELSE To(Broadcast, 68)

choose_reply_dest(msg) ==
    LET client_port == IF msg.sport = 4011 THEN 4011 ELSE 68
    IN  IF msg.bcast /\ msg.giaddr = Unspecified THEN To(Broadcast, client_port)
        ELSE IF bind.port # 67 THEN To(msg.src, msg.sport)
        ELSE IF msg.giaddr # Unspecified THEN To(msg.giaddr, 67)
        ELSE IF msg.ciaddr # Unspecified THEN To(msg.ciaddr, 68)
        ELSE IF msg.src # Unspecified THEN To(msg.src, msg.sport)
        ELSE To(Broadcast, client_port)

(* The address of the interface that faces the target, if there is a route *)
(* to it: a client's or a relay's address, or one on no network of ours.   *)
get_local_ip_for_target(remote, up) == IF remote THEN up ELSE "lan"

(* The probes in turn, each falling through if it fails. *)
resolve_local_ip(m, msg, up) ==
    LET probe(a) == IF a = Unspecified THEN None
                    ELSE get_local_ip_for_target(profile[m].remote, up)
        socket_ip == IF bind.addr = "any" THEN None ELSE bind.addr
        default_ip == Or(get_local_ip_for_target(TRUE, up), "loopback")
    IN  Or(probe(msg.ciaddr), Or(probe(msg.giaddr), Or(socket_ip, default_ip)))

is_pxe_client(msg) == msg.pxe

Answered(msg) == is_pxe_client(msg) /\ msg.type \in Answerable

(* The server takes a request, tracks the host and answers.  The client    *)
(* goes on with the answer if it gets it and reaches the server it names.  *)
Answer(m, msg, up) ==
    /\ Answered(msg)
    /\ bootfile' = IF /\ Hears(m, msg, choose_reply_dest(msg), up)
                      /\ Reaches(m, resolve_local_ip(m, msg, up), up)
                   THEN [bootfile EXCEPT ![m] = Assigned(m)] ELSE bootfile
    /\ update_host_status(m, "Polling", None,
                          IF msg.ciaddr # Unspecified THEN msg.ciaddr ELSE msg.src)
    /\ log_event(m)

(* Anything else is skipped. *)
Skip(msg) == ~Answered(msg) /\ UNCHANGED <<store, bootfile>>

DhcpRequest(m) ==
    /\ \E msg \in Requests(m) : Skip(msg) \/ \E up \in Routes : Answer(m, msg, up)
    /\ UNCHANGED <<now, bind, profile, ip, config>>

(* Another DHCP server gives the client an address nobody has. *)
GetAddress(m) ==
    /\ ip[m] = None
    /\ \E a \in Ips \ {Unspecified, Relay} :
        /\ \A n \in Macs : ip[n] # a
        /\ ip' = [ip EXCEPT ![m] = a]
    /\ UNCHANGED <<store, now, bind, profile, config, bootfile>>

HostsAt(a) == {m \in Tracked : hosts[m].client_ip = a}

(* The host a read request from an address is attributed to, if any. *)
Attributions(a) == IF HostsAt(a) = {} THEN {None} ELSE HostsAt(a)

EfiDefaults == {DefaultFile("amd64"), DefaultFile("arm64")}

(* Mutant: requests are never redirected. *)
final_filename_plain(mac, file) == file

(* A request for what is an EFI default now is redirected to the override  *)
(* of the host it is attributed to.                                        *)
final_filename(mac, file) ==
    IF mac # None /\ file \in EfiDefaults
    THEN IF config.bootloader[mac] # None THEN <<mac, config.bootloader[mac]>> ELSE file
    ELSE file

(* What the client may be given if it asks for its file now. *)
Given(m) == {final_filename(mac, bootfile[m]) : mac \in Attributions(ip[m])}

Asks(m) == ip[m] # None /\ bootfile[m] # None

(* The client asks for its file; the host with its address is Booting. *)
TftpRequest(m) ==
    /\ Asks(m)
    /\ \E mac \in Attributions(ip[m]) :
        IF mac = None THEN UNCHANGED store
        ELSE update_host_status(mac, "Booting", None, None) /\ log_event(mac)
    /\ UNCHANGED <<now, bind, profile, ip, config, bootfile>>

(* The client is switched off; its address is free again. *)
Reboot(m) ==
    /\ ip' = [ip EXCEPT ![m] = None]
    /\ bootfile' = [bootfile EXCEPT ![m] = None]
    /\ UNCHANGED <<store, now, bind, profile, config>>

(* The configuration is reloaded: overrides come, go and change, and the   *)
(* default bootloaders are renamed.                                        *)
Reload ==
    /\ config' \in Configs
    /\ UNCHANGED <<store, now, bind, profile, ip, bootfile>>

Next ==
    \/ \E m \in Macs : DhcpRequest(m) \/ GetAddress(m) \/ TftpRequest(m) \/ Reboot(m)
    \/ Reload

Spec == Init /\ [][Next]_vars
-----------------------------------------------------------------------------
(* A reply arrives, whatever the port, the flag, the relay and the         *)
(* address, with two exceptions: there is no route to the client, or the   *)
(* client is on another network, has an address and sets the flag.  (The   *)
(* flag is looked at before ciaddr, and its broadcast does not get there.) *)
ReplyArrives(m, msg, up) ==
    Hears(m, msg, choose_reply_dest(msg), up) <=>
        ~(profile[m].remote /\ (up = None \/ (msg.bcast /\ msg.giaddr = Unspecified)))

(* The next server that it names is one that the client reaches, with one  *)
(* exception: a client on the server's own network that gives no address,  *)
(* asking a socket bound to none, is sent to the default route's address,  *)
(* or to 127.0.0.1, when that route does not leave by the same interface.  *)
NextServerReached(m, msg, up) ==
    Reaches(m, resolve_local_ip(m, msg, up), up) <=>
        ~(/\ ~profile[m].remote /\ msg.ciaddr = Unspecified
          /\ bind.addr = "any" /\ up # "lan")

(* Whatever a client may send in any state reached, the reply of           *)
(* run_dhcp_server is of use to it, but for exactly the exceptions above.  *)
ReplyServes ==
    \A m \in Macs : \A msg \in Requests(m), up \in Routes :
        Answered(msg) =>
            /\ ReplyArrives(m, msg, up)
            /\ Hears(m, msg, choose_reply_dest(msg), up) => NextServerReached(m, msg, up)

(* The defaults made for a firmware; of other architectures nothing is     *)
(* known.                                                                  *)
MadeFor(arch) ==
    CASE arch = "bios" -> {"bios"} [] arch = "x64" -> {"amd64"}
      [] arch = "arm64" -> {"arm64"} [] OTHER -> Kinds

(* Whatever reloads, reboots and changes of address come between its DHCP  *)
(* exchange and its read request, a client is given an override of its own *)
(* or a default made for its firmware, except that an EFI client may be    *)
(* given the override of another host whose entry in the store still has   *)
(* the client's address.                                                   *)
LoadsItsOwn ==
    \A m \in Macs : Asks(m) =>
        \A file \in Given(m) :
            \/ file[1] \in {m} \cup MadeFor(profile[m].arch)
            \/ file[1] \in HostsAt(ip[m]) \ {m} /\ profile[m].arch # "bios"

Known(m) == HostsAt(ip[m]) = {m}

(* A client known by its address is given what the configuration assigns   *)
(* to it at the time of its read request, if that is what it was told or   *)
(* it asks for what is an EFI default now, and only then: a BIOS default,  *)
(* an override since replaced or withdrawn and a default since renamed are *)
(* served as asked for.                                                    *)
OverrideLoaded ==
    \A m \in Macs : Asks(m) /\ Known(m) =>
        \A file \in Given(m) :
            file = Assigned(m) <=> bootfile[m] \in EfiDefaults \cup {Assigned(m)}
=============================================================================
