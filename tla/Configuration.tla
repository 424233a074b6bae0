------------------------------ MODULE Configuration ------------------------------
(***************************************************************************)
(* The node configuration of src/src/configuration.cpp: the TCP port and   *)
(* the inbound connection maximum, loaded from and saved to config.dat.   *)
(*                                                                         *)
(* The file is abstracted to the three fields load() reads.  A field is    *)
(* "absent" (pt.get returns its default), "malformed" (std::stoul throws)  *)
(* or the unsigned long std::stoul returns.  A file read_json rejects is   *)
(* not "readable".  The version field is "ok" when stoul accepts it: the   *)
(* assert on its value is compiled out of release builds.                  *)
(***************************************************************************)
EXTENDS Naturals

CONSTANTS
    DefaultTcpPort,          \* protocol::default_tcp_port
    TcpInboundMinimum,       \* network::tcp_inbound_minimum
    TcpInboundMaximum,       \* network::tcp_inbound_maximum (the default)
    FilePorts,               \* network.tcp.port values a file may hold
    FileInbounds             \* network.tcp.inbound.maximum values a file may hold

Port16 == 65536  \* m_network_port_tcp is a std::uint16_t

ASSUME DefaultsAssumption ==
    /\ DefaultTcpPort \in 0 .. Port16 - 1
    /\ TcpInboundMinimum \in Nat \ {0}
    /\ TcpInboundMaximum \in Nat /\ TcpInboundMaximum >= TcpInboundMinimum
ASSUME FileValuesAssumption ==
    FilePorts \subseteq Nat /\ FileInbounds \subseteq Nat

Value(n) == [kind |-> "value", n |-> n]
Absent == [kind |-> "absent", n |-> 0]
Malformed == [kind |-> "malformed", n |-> 0]
Field(values) == {Value(n) : n \in values} \cup {Absent, Malformed}
Unreadable ==
    [readable |-> FALSE, version |-> "ok", port |-> Absent, inbound |-> Absent,
     by_save |-> FALSE]
UserFiles ==
    [readable : {TRUE}, version : {"ok", "malformed"}, port : Field(FilePorts),
     inbound : Field(FileInbounds), by_save : {FALSE}] \cup {Unreadable}
IsSavedFile(f) ==
    /\ f.readable /\ f.version = "ok" /\ f.by_save
    /\ f.port.kind = "value" /\ f.port.n \in 0 .. Port16 - 1
    /\ f.inbound.kind = "value" /\ f.inbound.n \in Nat

VARIABLES
    port,         \* m_network_port_tcp
    inbound_max,  \* m_network_tcp_inbound_maximum
    file,         \* the contents of config.dat
    result        \* what the last load() or save() returned

vars == <<port, inbound_max, file, result>>

TypeOK ==
    /\ port \in 0 .. Port16 - 1
    /\ inbound_max \in Nat
    /\ file \in UserFiles \/ IsSavedFile(file)
    /\ result \in {"none", "ok", "failed"}

(* The constructor's defaults; config.dat holds whatever a user left.      *)
Init ==
    /\ port = DefaultTcpPort
    /\ inbound_max = TcpInboundMaximum
    /\ file \in UserFiles
    /\ result = "none"

-----------------------------------------------------------------------------
(* pt.get(key, default) followed by std::stoul.                            *)
Read(f, default) == IF f = Absent THEN default ELSE f.n

(* The assignment of std::stoul to the std::uint16_t port in load().      *)
ToPort16(v) == v % Port16

(* The clamp of load() and set_network_tcp_inbound_maximum().             *)
ClampInbound(v) == IF v < TcpInboundMinimum THEN TcpInboundMinimum ELSE v

(* Mutant of Load: the inbound maximum read from the file is never stored. *)
LoadSkipsInbound ==
    /\ \/ /\ \/ ~file.readable
             \/ file.version = "malformed"
             \/ file.port = Malformed
          /\ result' = "failed"
          /\ UNCHANGED port
       \/ /\ file.readable
          /\ file.version = "ok"
          /\ file.port # Malformed
          /\ port' = ToPort16(Read(file.port, DefaultTcpPort))
          /\ result' = IF file.inbound = Malformed THEN "failed" ELSE "ok"
    /\ UNCHANGED <<inbound_max, file>>

(* load(): read_json, the version, then the port (stored to 16 bits), then *)
(* the inbound maximum (clamped to the minimum).  A throw at any of these  *)
(* returns false with what was already assigned kept.                      *)
Load ==
    /\ \/ /\ \/ ~file.readable
             \/ file.version = "malformed"
             \/ file.port = Malformed
          /\ result' = "failed"
          /\ UNCHANGED <<port, inbound_max>>
       \/ /\ file.readable
          /\ file.version = "ok"
          /\ file.port # Malformed
          /\ port' = ToPort16(Read(file.port, DefaultTcpPort))
          /\ IF file.inbound = Malformed
             THEN result' = "failed" /\ UNCHANGED inbound_max
             ELSE /\ inbound_max' =
                        ClampInbound(Read(file.inbound, TcpInboundMaximum))
                  /\ result' = "ok"
    /\ UNCHANGED file

(* save(): write the three fields.  The std::ofstream is never checked: if *)
(* it cannot be opened nothing is written and save() still returns true.   *)
Save ==
    /\ \/ file' = [readable |-> TRUE, version |-> "ok", port |-> Value(port),
                   inbound |-> Value(inbound_max), by_save |-> TRUE]
       \/ UNCHANGED file
    /\ result' = "ok"
    /\ UNCHANGED <<port, inbound_max>>

SetNetworkPortTcp(v) ==
    /\ port' = v
    /\ UNCHANGED <<inbound_max, file, result>>

(* Mutant of SetNetworkTcpInboundMaximum: the value is stored unclamped.   *)
SetNetworkTcpInboundMaximumUnclamped(v) ==
    /\ inbound_max' = v
    /\ UNCHANGED <<port, file, result>>

SetNetworkTcpInboundMaximum(v) ==
    /\ inbound_max' = ClampInbound(v)
    /\ UNCHANGED <<port, file, result>>

(* The user edits config.dat between runs.                                 *)
EditFile ==
    /\ file' \in UserFiles
    /\ UNCHANGED <<port, inbound_max, result>>

Next ==
    \/ Load
    \/ Save
    \/ \E v \in {DefaultTcpPort} \cup {ToPort16(p) : p \in FilePorts} :
          SetNetworkPortTcp(v)
    \/ \E v \in FileInbounds : SetNetworkTcpInboundMaximum(v)
    \/ EditFile

Spec == Init /\ [][Next]_vars

-----------------------------------------------------------------------------
(***************************************************************************)
(* Properties.                                                             *)
(***************************************************************************)

(* Whatever config.dat holds and whatever the setters are given, the       *)
(* inbound maximum handed to tcp_connection_manager::handle_accept is at   *)
(* least network::tcp_inbound_minimum (so never 0).                        *)
InboundAtLeastMinimum == inbound_max >= TcpInboundMinimum

(* A load() that succeeds on a file save() wrote restores exactly the      *)
(* values save() wrote: the 16-bit port and the clamp are no-ops on them.  *)
LoadRestoresSaved ==
    [][Load /\ file.by_save /\ result' = "ok"
         => port' = file.port.n /\ inbound_max' = file.inbound.n]_vars

=============================================================================
