------------------------- MODULE ConfigurationProofs --------------------------
(***************************************************************************)
(* Proofs about the configuration, for every value of the constants that   *)
(* satisfies the assumptions of Configuration.                             *)
(*                                                                         *)
(* IInv adds one fact to the checked invariants: a file save() wrote holds *)
(* an inbound maximum at or above the minimum (save() writes the clamped   *)
(* member).  A user's file need not, so load() has to clamp; a saved file  *)
(* is then read back unchanged.                                            *)
(***************************************************************************)
EXTENDS Configuration, TLAPS

(* A saved config.dat holds a clamped inbound maximum.                     *)
SavedInboundClamped ==
    IsSavedFile(file) => file.inbound.n >= TcpInboundMinimum

IInv ==
    /\ TypeOK
    /\ InboundAtLeastMinimum
    /\ SavedInboundClamped

-----------------------------------------------------------------------------
(* pt.get followed by std::stoul yields a number for a field of a user's   *)
(* file that is not malformed.                                             *)
LEMMA ReadUserField ==
    ASSUME NEW values, values \subseteq Nat, NEW f \in Field(values),
           f # Malformed, NEW d \in Nat
    PROVE  Read(f, d) \in Nat
BY DEF Field, Value, Absent, Malformed, Read

(* A user's file is never taken for a saved one.                           *)
LEMMA UserNotSaved ==
    ASSUME NEW f \in UserFiles
    PROVE  ~f.by_save
<1>1. CASE f = Unreadable
  BY <1>1 DEF Unreadable
<1>2. CASE f # Unreadable
  <2>1. f \in [readable : {TRUE}, version : {"ok", "malformed"},
               port : Field(FilePorts), inbound : Field(FileInbounds),
               by_save : {FALSE}]
    BY <1>2 DEF UserFiles
  <2>. QED  BY <2>1
<1>. QED  BY <1>1, <1>2

(* The clamp yields at least the minimum, and leaves such a value alone.   *)
LEMMA ClampFacts ==
    ASSUME NEW v \in Nat
    PROVE  /\ ClampInbound(v) \in Nat
           /\ ClampInbound(v) >= TcpInboundMinimum
           /\ v >= TcpInboundMinimum => ClampInbound(v) = v
BY DefaultsAssumption DEF ClampInbound

(* The 16-bit store keeps a value that fits and yields one that fits.      *)
LEMMA Port16Facts ==
    ASSUME NEW v \in Nat
    PROVE  /\ ToPort16(v) \in 0 .. Port16 - 1
           /\ v \in 0 .. Port16 - 1 => ToPort16(v) = v
<1>1. Port16 \in Nat \ {0}
  BY DEF Port16
<1>. QED  BY <1>1, SMT DEF ToPort16

LEMMA DefaultPortNat == DefaultTcpPort \in Nat
BY DefaultsAssumption DEF Port16

LEMMA InitIInv == Init => IInv
BY DefaultsAssumption, UserNotSaved
   DEF Init, IInv, TypeOK, InboundAtLeastMinimum, SavedInboundClamped,
       IsSavedFile

(* A load() from the current file keeps IInv.                              *)
LEMMA LoadIInv ==
    ASSUME IInv, Load
    PROVE  IInv'
<1>. USE DEF IInv, TypeOK, InboundAtLeastMinimum, SavedInboundClamped
<1>1. UNCHANGED file /\ result' \in {"none", "ok", "failed"}
  BY DEF Load
<1>2. CASE file \in UserFiles
  <2>1. ~IsSavedFile(file)
    BY <1>2, UserNotSaved DEF IsSavedFile
  <2>2. ASSUME file.readable, file.port # Malformed
        PROVE  Read(file.port, DefaultTcpPort) \in Nat
    <3>1. file # Unreadable
      BY <2>2 DEF Unreadable
    <3>2. file.port \in Field(FilePorts)
      BY <1>2, <3>1 DEF UserFiles
    <3>. QED  BY <3>2, DefaultPortNat, <2>2, FileValuesAssumption,
                 ReadUserField
  <2>3. ASSUME file.readable, file.inbound # Malformed
        PROVE  Read(file.inbound, TcpInboundMaximum) \in Nat
    <3>1. file # Unreadable
      BY <2>3 DEF Unreadable
    <3>2. file.inbound \in Field(FileInbounds)
      BY <1>2, <3>1 DEF UserFiles
    <3>. QED  BY <3>2, <2>3, DefaultsAssumption, FileValuesAssumption,
                 ReadUserField
  <2>. QED  BY <1>1, <2>1, <2>2, <2>3, ClampFacts, Port16Facts DEF Load
<1>3. CASE IsSavedFile(file)
  <2>1. Read(file.port, DefaultTcpPort) = file.port.n
        /\ Read(file.inbound, TcpInboundMaximum) = file.inbound.n
    BY <1>3 DEF IsSavedFile, Read, Absent
  <2>2. file.port.n \in Nat /\ file.inbound.n \in Nat
    BY <1>3 DEF IsSavedFile
  <2>. QED  BY <1>1, <1>3, <2>1, <2>2, ClampFacts, Port16Facts DEF Load
<1>. QED  BY <1>2, <1>3

(* save() writes the current, clamped values, or nothing.                  *)
LEMMA SaveIInv ==
    ASSUME IInv, Save
    PROVE  IInv'
<1>. USE DEF IInv, TypeOK, InboundAtLeastMinimum, SavedInboundClamped
<1>1. CASE UNCHANGED file
  BY <1>1 DEF Save
<1>2. CASE file' = [readable |-> TRUE, version |-> "ok", port |-> Value(port),
                    inbound |-> Value(inbound_max), by_save |-> TRUE]
  BY <1>2 DEF Save, IsSavedFile, Value
<1>. QED  BY <1>1, <1>2 DEF Save

LEMMA NextIInv ==
    ASSUME IInv, [Next]_vars
    PROVE  IInv'
<1>. USE DEF IInv, TypeOK, InboundAtLeastMinimum, SavedInboundClamped
<1>1. CASE Load
  BY <1>1, LoadIInv
<1>2. CASE Save
  BY <1>2, SaveIInv
<1>3. ASSUME NEW v \in {DefaultTcpPort} \cup {ToPort16(p) : p \in FilePorts},
             SetNetworkPortTcp(v)
      PROVE  IInv'
  <2>1. \A p \in FilePorts : ToPort16(p) \in 0 .. Port16 - 1
    BY FileValuesAssumption, Port16Facts
  <2>2. v \in 0 .. Port16 - 1
    BY <2>1, DefaultsAssumption
  <2>. QED  BY <1>3, <2>2 DEF SetNetworkPortTcp
<1>4. ASSUME NEW v \in FileInbounds, SetNetworkTcpInboundMaximum(v)
      PROVE  IInv'
  BY <1>4, FileValuesAssumption, ClampFacts DEF SetNetworkTcpInboundMaximum
<1>5. CASE EditFile
  BY <1>5, UserNotSaved DEF EditFile, IsSavedFile
<1>6. CASE UNCHANGED vars
  BY <1>6 DEF vars, IsSavedFile
<1>. QED  BY <1>1, <1>2, <1>3, <1>4, <1>5, <1>6 DEF Next

-----------------------------------------------------------------------------
(* The inductive invariant holds in every reachable state.                 *)
THEOREM ConfigurationInvariant == Spec => []IInv
BY InitIInv, NextIInv, PTL DEF Spec

(* Whatever config.dat holds and in whatever order load(), save() and the  *)
(* setters run, the inbound maximum never falls below the minimum.         *)
THEOREM InboundAtLeastMinimumHolds == Spec => []InboundAtLeastMinimum
BY ConfigurationInvariant, PTL DEF IInv

(* A load() that succeeds on a file save() wrote restores the values that  *)
(* save() wrote.                                                           *)
LEMMA LoadRestoresSavedStep ==
    ASSUME IInv, Load, file.by_save, result' = "ok"
    PROVE  port' = file.port.n /\ inbound_max' = file.inbound.n
<1>1. IsSavedFile(file)
  BY UserNotSaved DEF IInv, TypeOK
<1>2. Read(file.port, DefaultTcpPort) = file.port.n
      /\ Read(file.inbound, TcpInboundMaximum) = file.inbound.n
  BY <1>1 DEF IsSavedFile, Read, Absent
<1>3. file.port.n \in 0 .. Port16 - 1 /\ file.inbound.n \in Nat
      /\ file.inbound.n >= TcpInboundMinimum
  BY <1>1 DEF IInv, SavedInboundClamped, IsSavedFile
<1>4. ToPort16(file.port.n) = file.port.n
  BY <1>3, Port16Facts
<1>5. ClampInbound(file.inbound.n) = file.inbound.n
  BY <1>3, ClampFacts
<1>. QED  BY <1>1, <1>2, <1>4, <1>5 DEF Load, IsSavedFile, Malformed

THEOREM LoadRestoresSavedHolds == Spec => LoadRestoresSaved
<1>1. IInv /\ [Next]_vars
      => [Load /\ file.by_save /\ result' = "ok"
            => port' = file.port.n /\ inbound_max' = file.inbound.n]_vars
  BY LoadRestoresSavedStep
<1>. QED  BY ConfigurationInvariant, <1>1, PTL DEF LoadRestoresSaved, Spec
=============================================================================
