------------------------------ MODULE Devices -------------------------------
(* The devices of one account: DeviceId of src/crdt/mod.rs, random bytes    *)
(* that name a device and nothing else.                                    *)
CONSTANT Device
=============================================================================
