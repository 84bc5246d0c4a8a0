-------------------------- MODULE DeviceRegistry --------------------------
(***************************************************************************)
(* The control plane's device table and the licence that bounds it:        *)
(* DeviceService.register, HeartbeatService.report as far as it changes a  *)
(* device, and EntitlementService.  One tenant.  A device is named by its  *)
(* fingerprint, which is unique within the tenant.                         *)
(*                                                                         *)
(* Every route is a coroutine that does not wait inside a use case, and    *)
(* the control plane is one process, so a request is one step: the count   *)
(* of devices and the insert that follows it are not interleaved.          *)
(*                                                                         *)
(* No code of the repository changes a licence or revokes a device:        *)
(* operators do it in the database.  Those steps are external; renewing a  *)
(* licence is left out.                                                    *)
(***************************************************************************)
EXTENDS Naturals, FiniteSets

CONSTANTS
    Devices,       \* fingerprints
    MaxDevices,    \* license.max_devices
    GraceDays,     \* LICENSE_OFFLINE_GRACE_DAYS
    LastDay        \* bound: days that pass

ASSUME RegistryAssumption ==
    /\ IsFiniteSet(Devices)
    /\ MaxDevices \in Nat
    /\ GraceDays \in Nat
    /\ LastDay \in Nat

VARIABLES
    today,     \* the UTC date
    license,   \* the tenant's one licence row
    device     \* the status of each device row, or "ABSENT"

registryVars == <<today, license, device>>

License == [status : {"ACTIVE", "REVOKED"}, expires : 0..LastDay]

Statuses == {"ABSENT", "REGISTERED", "ONLINE", "REVOKED"}

RegistryTypeOK ==
    /\ today \in 0..LastDay
    /\ license \in License
    /\ device \in [Devices -> Statuses]

\* seed_demo: a licence, no device yet.
RegistryInit ==
    /\ today = 0
    /\ license = [status |-> "ACTIVE", expires |-> 0]
    /\ device = [d \in Devices |-> "ABSENT"]

-----------------------------------------------------------------------------
(***************************************************************************)
(* The licence                                                             *)
(***************************************************************************)

\* get_active_license finds only an ACTIVE row, so a revoked licence is
\* judged MISSING.
ActiveLicense == {l \in {license} : l.status = "ACTIVE"}

Entitlement ==
    IF ActiveLicense = {} THEN "MISSING"
    ELSE IF today <= license.expires THEN "ACTIVE"
    ELSE IF today <= license.expires + GraceDays THEN "GRACE"
    ELSE "EXPIRED"

Allowed == Entitlement \notin {"EXPIRED", "REVOKED", "MISSING"}

-----------------------------------------------------------------------------
(***************************************************************************)
(* Registration and heartbeat                                              *)
(***************************************************************************)

\* list_devices and count_registered_devices
Rows    == {d \in Devices : device[d] # "ABSENT"}
Counted == {d \in Rows : device[d] # "REVOKED"}

\* _require_device; the heartbeat asks the same.
Usable(d) == device[d] \notin {"ABSENT", "REVOKED"}

SaveDevice(d, status) == device' = [device EXCEPT ![d] = status]

\* A new fingerprint is registered.
RegisterNew(d) ==
    /\ Allowed /\ device[d] = "ABSENT"
    /\ Cardinality(Counted) < MaxDevices
    /\ SaveDevice(d, "REGISTERED")
    /\ UNCHANGED <<today, license>>

\* A known one registers again: only its name and version change.
RegisterAgain(d) ==
    /\ Allowed /\ Usable(d)
    /\ UNCHANGED registryVars

\* The ways a registration is refused; no row changes.
RegisterDenied(d) ==
    /\ \/ ~Allowed
       \/ device[d] = "REVOKED"
       \/ device[d] = "ABSENT" /\ Cardinality(Counted) >= MaxDevices
    /\ UNCHANGED registryVars

\* A heartbeat: a REGISTERED device goes ONLINE.  No licence is asked.
Report(d) ==
    /\ Usable(d)
    /\ SaveDevice(d, "ONLINE")
    /\ UNCHANGED <<today, license>>

-----------------------------------------------------------------------------
(***************************************************************************)
(* Time and operators                                                      *)
(***************************************************************************)

NewDay ==
    /\ today < LastDay
    /\ today' = today + 1
    /\ UNCHANGED <<license, device>>

\* External: the licence is revoked for good.
RevokeLicense ==
    /\ license.status = "ACTIVE"
    /\ license' = [license EXCEPT !.status = "REVOKED"]
    /\ UNCHANGED <<today, device>>

\* External: a device is revoked; the row stays.
RevokeDevice(d) ==
    /\ Usable(d)
    /\ SaveDevice(d, "REVOKED")
    /\ UNCHANGED <<today, license>>

Operators == NewDay \/ RevokeLicense
                \/ \E d \in Devices : RevokeDevice(d)

-----------------------------------------------------------------------------

\* The devices that count against the licence never exceed its limit,
\* whatever is registered, registered again, revoked or left unanswered.
RegisteredWithinLicense == Cardinality(Counted) <= MaxDevices
=============================================================================
