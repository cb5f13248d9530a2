----------------------------- MODULE IoTDevices -----------------------------
(***************************************************************************)
(* The doors of iot_integration.rs: a device asks whether it may open for  *)
(* a user, and the answer rests on the access tokens of LesseeAccess.      *)
(*                                                                         *)
(* The code keeps every device under the one key LeaseInstance(0) and      *)
(* looks no identifier up, so there is one device, and it excludes a lease *)
(* with the id 0.  A grant is an answer and an event; the variable `grant` *)
(* keeps the last one.  Locations, versions, times of contact,             *)
(* instructions, audit flags, the verification code and the access level   *)
(* decide nothing and are left out, as are the queries that return an      *)
(* empty list.                                                             *)
(***************************************************************************)
EXTENDS LesseeAccess

CONSTANTS
    Durations,          \* durations of a grant, one per urgency
    OfferedStatuses     \* statuses offered to update_device_status

DeviceStatus == {"Online", "Offline", "Maintenance", "Error", "Decommissioned"}

ASSUME IoTAssumption ==
    0 \notin LeaseIds /\ Durations \subseteq Nat /\ OfferedStatuses \subseteq DeviceStatus

VARIABLES
    device,     \* the registered device, or None
    grant       \* observed: the last grant, or None

iot_vars == <<device, grant>>

AccessMethod == {"MobileApp", "Voice"}

IoTDevice ==
    [owner : Parties, supports_remote : BOOLEAN, status : DeviceStatus]

IoTInit == device = None /\ grant = None

register_device(owner, supports_remote) ==
    /\ device = None
    /\ device' = [owner |-> owner, supports_remote |-> supports_remote, status |-> "Online"]
    /\ UNCHANGED <<now, lease_vars, access_vars, grant>>

\* Every method but voice works on every device.
is_access_method_supported(d, method) == method = "Voice" => d.supports_remote

\* Wrong: the state of the token is not looked at.
get_user_access_token_X(user) == {tid \in lessee_tokens[user] : TRUE}

\* The first valid token listed for the user; the lessee in the token is not compared.
get_user_access_token(user) ==
    {tid \in lessee_tokens[user] :
       tid \in DOMAIN access_token /\ is_token_valid(access_token[tid])}

\* The end of the grant is not limited by the end of the token.
process_access_request(user, method, duration) ==
    /\ device # None
    /\ device.status = "Online"
    /\ is_access_method_supported(device, method)
    /\ get_user_access_token(user) # {}
    /\ grant' = [user |-> user, expires_at |-> now + duration]
    /\ UNCHANGED <<now, lease_vars, access_vars, device>>

\* Nobody signs: the requester only has to be the owner.  A decommissioned device may be
\* set online again.
update_device_status(new_status, requester) ==
    /\ device # None
    /\ device.owner = requester
    /\ device' = [device EXCEPT !.status = new_status]
    /\ UNCHANGED <<now, lease_vars, access_vars, grant>>

\* query_token_validity verifies the token of another system.
query_token_validity(tid) == verify_access_token(tid) /\ UNCHANGED iot_vars

IoTNext ==
    \/ AccessNext /\ UNCHANGED iot_vars
    \/ \E tid \in DOMAIN access_token : query_token_validity(tid)
    \/ \E p \in Parties :
          \/ \E b \in BOOLEAN : register_device(p, b)
          \/ \E m \in AccessMethod, d \in Durations : process_access_request(p, m, d)
          \/ \E s \in OfferedStatuses : update_device_status(s, p)

IoTTypeOK ==
    /\ AccessTypeOK
    /\ device \in IoTDevice \cup {None}
    /\ grant \in [user : Parties, expires_at : Nat] \cup {None}

-----------------------------------------------------------------------------
(* Properties. *)

\* The door opens for the lessee of a token that is valid at that moment, and for nobody
\* who has handed the token on or had it revoked, although the request is answered from
\* the list of the user's tokens and never from the lessee in the token.
DoorOpensForLessee ==
    [][grant' # grant =>
          \E tid \in DOMAIN access_token :
             is_token_valid(access_token[tid]) /\ access_token[tid].lessee = grant'.user]_grant

\* Access follows the token: it ends for good with a revocation, comes back after an
\* expiry only by a renewal, and at any moment the door opens for its lessee alone.
AccessFollowsToken == AccessEndsForGood /\ DoorOpensForLessee
=============================================================================
