---------------------------- MODULE ServerPorts ----------------------------
(***************************************************************************)
(* Neutron's ports and the servers they are bound to.  A binding is written*)
(* twice: as the port's device_id and as an interface in Nova's list for   *)
(* the server (_server_network_interfaces).  A boot creates and binds its  *)
(* ports one by one, each change saved as it is made, and registers the    *)
(* server last; a later port that is refused ends the boot where it is.    *)
(*                                                                         *)
(* A request runs to its end before another begins, but the process may    *)
(* die between two of its saves: a request of several saves is a sequence  *)
(* of steps here, with "request" naming the one in progress.               *)
(***************************************************************************)
EXTENDS Integers, Sequences

CONSTANTS
    Server,      \* server ids; uuid4, so never given twice
    Port,        \* port ids, likewise
    Router,      \* routers that take a port as an interface
    MaxEntries,  \* bound: interfaces in one server's list
    AutoSave,    \* whether --auto-save was given
    Nobody,      \* device_id = ""
    Idle,        \* no request is in progress
    NoPort       \* the request has created no port it has yet to bind

ASSUME ServerPortsAssumption ==
    /\ MaxEntries \in Nat
    /\ AutoSave \in BOOLEAN
    /\ Server \cap Router = {}
    /\ Nobody \notin Server \cup Router
    /\ NoPort \notin Port
    /\ Idle \notin [server : Server, boot : BOOLEAN, created : Port \cup {NoPort}]

VARIABLES
    server,      \* server[s]: whether s is in _servers
    port,        \* port[p]: whether p is in _ports, and its device_id; history:
                 \*   who created it, and for which server Nova did
    interfaces,  \* interfaces[s] = _server_network_interfaces[s]
    request,     \* the boot or attach in progress
    disk,        \* the saved file
    meddled      \* history: ports whose device was set through Neutron

vars == <<server, port, interfaces, request, disk, meddled>>

Interface == [port : Port, nova_created : BOOLEAN]

Request == [server : Server, boot : BOOLEAN, created : Port \cup {NoPort}]

NoPortYet == [state |-> "unborn", device |-> Nobody, maker |-> "nobody", owner |-> Nobody]

\* A new port; a port with another device; one that is bound to server s, which
\* owns it when Nova created it for s; and one that is there no more.
New(who, d)              == [NoPortYet EXCEPT !.state = "here", !.device = d, !.maker = who]
On(record, d)            == [record EXCEPT !.device = d]
Bound(record, s, created) ==
    [record EXCEPT !.device = s, !.owner = IF created THEN s ELSE record.owner]
Ended(record, how)       == [record EXCEPT !.state = how, !.device = Nobody]

Here(p) == port[p].state = "here"
Free(p) == Here(p) /\ port[p].device = Nobody

Image(sv, po, in) == [server |-> sv, port |-> po, interfaces |-> in]

Save == disk' = IF AutoSave THEN Image(server', port', interfaces') ELSE disk

Init ==
    /\ server = [s \in Server |-> "unborn"]
    /\ port = [p \in Port |-> NoPortYet]
    /\ interfaces = [s \in Server |-> <<>>]
    /\ request = Idle
    /\ disk = Image(server, port, interfaces)
    /\ meddled = {}

----------------------------------------------------------------------------
(* Neutron's side: nothing here asks Nova.                                 *)

\* A client may name a server as the device, also one that is gone.
Device == Router \cup {Nobody} \cup {s \in Server : server[s] # "unborn"}

SetPort(p, record) ==
    /\ port' = [port EXCEPT ![p] = record]
    /\ UNCHANGED <<server, interfaces, request>>
    /\ Save

CreatePort(p, d) ==
    /\ port[p].state = "unborn"
    /\ SetPort(p, New("client", d))
    /\ meddled' = IF d = Nobody THEN meddled ELSE meddled \cup {p}

UpdatePort(p, d) ==
    /\ Here(p)
    /\ SetPort(p, On(port[p], d))
    /\ meddled' = meddled \cup {p}

\* A router takes the port whatever it is bound to.
AddRouterInterface(r, p) ==
    /\ Here(p)
    /\ SetPort(p, On(port[p], r))
    /\ meddled' = meddled \cup {p}

\* A port is deleted whatever it is bound to.
DeletePort(p) ==
    /\ Here(p)
    /\ SetPort(p, Ended(port[p], "deleted"))
    /\ UNCHANGED meddled

RemoveRouterInterface(r, p) ==
    /\ port[p].device = r
    /\ DeletePort(p)

----------------------------------------------------------------------------
(* Binding.                                                                *)

\* Mutant: the port is taken over from whoever has it.
BindInUse(s, p, created) ==
    /\ Here(p)
    /\ Len(interfaces[s]) < MaxEntries
    /\ port' = [port EXCEPT ![p] = Bound(@, s, created)]
    /\ interfaces' = [interfaces EXCEPT
           ![s] = Append(@, [port |-> p, nova_created |-> created])]
    /\ UNCHANGED <<server, meddled>>
    /\ Save

\* attach_interface_to_server of the database.
Bind(s, p, created) ==
    /\ Free(p)
    /\ Len(interfaces[s]) < MaxEntries
    /\ port' = [port EXCEPT ![p] = Bound(@, s, created)]
    /\ interfaces' = [interfaces EXCEPT
           ![s] = Append(@, [port |-> p, nova_created |-> created])]
    /\ UNCHANGED <<server, meddled>>
    /\ Save

\* create_port on Nova's behalf; the port is saved before it is bound.
CreateUnbound(p) ==
    /\ port[p].state = "unborn"
    /\ port' = [port EXCEPT ![p] = New("nova", Nobody)]
    /\ UNCHANGED <<server, interfaces, meddled>>
    /\ Save

\* Boot: an id that nothing names yet.
BeginBoot(s) ==
    /\ request = Idle
    /\ server[s] = "unborn"
    /\ interfaces[s] = <<>>
    /\ \A p \in Port : port[p].device # s
    /\ request' = [server |-> s, boot |-> TRUE, created |-> NoPort]
    /\ UNCHANGED <<server, port, interfaces, disk, meddled>>

Booting == request # Idle /\ request.boot /\ request.created = NoPort

\* A network request that names a port.
BootPort(p) ==
    /\ Booting
    /\ Bind(request.server, p, FALSE)
    /\ UNCHANGED request

\* A network request that names a network.
BootNetwork(p) ==
    /\ Booting
    /\ Len(interfaces[request.server]) < MaxEntries
    /\ CreateUnbound(p)
    /\ request' = [request EXCEPT !.created = p]

\* A network request with an unknown port or network, a port in use or an
\* address that is not to be had: the boot ends, its ports stay bound.
RefuseBoot ==
    /\ Booting
    /\ request' = Idle
    /\ UNCHANGED <<server, port, interfaces, disk, meddled>>

\* Every port is bound: the server is registered.
CompleteBoot ==
    /\ Booting
    /\ server' = [server EXCEPT ![request.server] = "live"]
    /\ request' = Idle
    /\ UNCHANGED <<port, interfaces, meddled>>
    /\ Save

\* POST os-interface with a port.
AttachPort(s, p) ==
    /\ request = Idle
    /\ server[s] = "live"
    /\ Bind(s, p, FALSE)
    /\ UNCHANGED request

\* POST os-interface with a network: the port first.
AttachNetwork(s, p) ==
    /\ request = Idle
    /\ server[s] = "live"
    /\ Len(interfaces[s]) < MaxEntries
    /\ CreateUnbound(p)
    /\ request' = [server |-> s, boot |-> FALSE, created |-> p]

\* The port that Nova has just created is bound, by a boot or an attach.
BindCreated ==
    /\ request # Idle
    /\ request.created # NoPort
    /\ Bind(request.server, request.created, TRUE)
    /\ request' = IF request.boot THEN [request EXCEPT !.created = NoPort] ELSE Idle

----------------------------------------------------------------------------
(* Releasing.                                                              *)

Positions(list, p) == {i \in DOMAIN list : list[i].port = p}

Without(list, i) ==
    [j \in 1 .. Len(list) - 1 |-> IF j < i THEN list[j] ELSE list[j + 1]]

\* _release_interface_port: what becomes of p when server s lets go of it.
Released(s, p, created) ==
    IF created /\ Here(p) THEN Ended(port[p], "released")
    ELSE IF ~created /\ Here(p) /\ port[p].device = s THEN On(port[p], Nobody)
    ELSE port[p]

\* DELETE os-interface/{port id}: the first interface with the port.
DetachInterface(s, p) ==
    /\ request = Idle
    /\ server[s] = "live"
    /\ \E i \in Positions(interfaces[s], p) :
          /\ \A j \in Positions(interfaces[s], p) : i <= j
          /\ interfaces' = [interfaces EXCEPT ![s] = Without(@, i)]
          /\ port' = [port EXCEPT ![p] = Released(s, p, interfaces[s][i].nova_created)]
    /\ UNCHANGED <<server, request, meddled>>
    /\ Save

Listed(s, p)  == Positions(interfaces[s], p) # {}
Created(s, p) == \E i \in Positions(interfaces[s], p) : interfaces[s][i].nova_created

\* Mutant: the ports are looked up by their device instead of in the list.
DeleteServerByDevice(s) ==
    /\ request = Idle
    /\ server[s] = "live"
    /\ server' = [server EXCEPT ![s] = "gone"]
    /\ interfaces' = [interfaces EXCEPT ![s] = <<>>]
    /\ port' = [p \in Port |->
           IF port[p].device = s THEN Released(s, p, Created(s, p)) ELSE port[p]]
    /\ UNCHANGED <<request, meddled>>
    /\ Save

\* Mutant: the list of interfaces goes, the ports keep their binding.
DeleteServerForgets(s) ==
    /\ request = Idle
    /\ server[s] = "live"
    /\ server' = [server EXCEPT ![s] = "gone"]
    /\ interfaces' = [interfaces EXCEPT ![s] = <<>>]
    /\ UNCHANGED <<port, request, meddled>>
    /\ Save

DeleteServer(s) ==
    /\ request = Idle
    /\ server[s] = "live"
    /\ server' = [server EXCEPT ![s] = "gone"]
    /\ interfaces' = [interfaces EXCEPT ![s] = <<>>]
    /\ port' = [p \in Port |->
           IF Listed(s, p) THEN Released(s, p, Created(s, p)) ELSE port[p]]
    /\ UNCHANGED <<request, meddled>>
    /\ Save

\* The process dies, between two saves of a request too.
Restart ==
    /\ server' = disk.server
    /\ port' = disk.port
    /\ interfaces' = disk.interfaces
    /\ request' = Idle
    /\ UNCHANGED <<disk, meddled>>

----------------------------------------------------------------------------

NeutronRequest ==
    \E p \in Port :
        \/ \E d \in Device : CreatePort(p, d) \/ UpdatePort(p, d)
        \/ DeletePort(p)
        \/ \E r \in Router : AddRouterInterface(r, p) \/ RemoveRouterInterface(r, p)

Next ==
    \/ request = Idle /\ NeutronRequest
    \/ \E s \in Server : BeginBoot(s)
    \/ \E p \in Port : BootPort(p)
    \/ \E p \in Port : BootNetwork(p)
    \/ RefuseBoot
    \/ CompleteBoot
    \/ \E s \in Server, p \in Port : AttachPort(s, p)
    \/ \E s \in Server, p \in Port : AttachNetwork(s, p)
    \/ BindCreated
    \/ \E s \in Server, p \in Port : DetachInterface(s, p)
    \/ \E s \in Server : DeleteServer(s)
    \/ Restart

Spec == Init /\ [][Next]_vars

----------------------------------------------------------------------------
(* Properties.                                                             *)

ServerState == {"unborn", "live", "gone"}
PortRecord  == [state  : {"unborn", "here", "deleted", "released"},
                device : Server \cup Router \cup {Nobody},
                maker  : {"nobody", "client", "nova"},
                owner  : Server \cup {Nobody}]

\* The stores hold what they are declared to hold, in memory and in the file.
TypeOK ==
    /\ server \in [Server -> ServerState]
    /\ port \in [Port -> PortRecord]
    /\ interfaces \in [Server -> Seq(Interface)]
    /\ request \in Request \cup {Idle}
    /\ meddled \subseteq Port
    /\ disk \in [server : [Server -> ServerState], port : [Port -> PortRecord],
                 interfaces : [Server -> Seq(Interface)]]

\* What a set of ports and lists of interfaces say of one another: a port is
\* bound to a server exactly when that server lists it, and then once.
Agree(po, in) ==
    \A s \in Server, p \in Port \ meddled :
        po[p].state = "here" =>
            /\ po[p].device = s <=> Positions(in[s], p) # {}
            /\ \A i, j \in Positions(in[s], p) : i = j

\* list_ports(device_id=<server>) and os-interface agree (the docstring of
\* _bind_server_networks), in memory and after a restart at any moment, for
\* every port whose device only Nova has set.
PortsAgreeWithInterfaces ==
    Agree(port, interfaces) /\ Agree(disk.port, disk.interfaces)

\* A server that is deleted frees the ports it was given and takes along those
\* that Nova created for it: none still names it.
DeletedServerFreesPorts ==
    \A s \in Server, p \in Port \ meddled :
        server[s] = "gone" => port[p].device # s

\* Nova takes away what it made and nothing else, whatever clients and routers
\* did to the ports' devices meanwhile: a port that it deletes with an interface
\* or a server is one that it created, never a client's; and a port that it
\* created for a server is not left behind when that server goes.
NovaTakesItsOwn ==
    \A p \in Port :
        /\ port[p].state = "released" => port[p].maker = "nova"
        /\ \A s \in Server : port[p].owner = s /\ server[s] = "gone" => ~Here(p)

\* With --auto-save the file is never behind: a crash within a boot finds each
\* binding on both sides or on neither.
BindingsAreSaved ==
    AutoSave => disk = Image(server, port, interfaces)

\* "Done before the server is registered so a bad request leaves nothing
\* behind" (create_server): no port is bound to a server that is not there.
\* The code does not keep it: see README, "Where the code departs".
RefusedBootLeavesNothing ==
    request = Idle =>
        \A s \in Server, p \in Port \ meddled :
            port[p].device = s => server[s] = "live"
============================================================================
