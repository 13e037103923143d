-------------------------- MODULE MCDeviceIdentity --------------------------
(* The instance of DeviceIdentity that TLC checks. *)
EXTENDS DeviceIdentity, TLC
MCAddresses == {1, 2}
MCSymmetry == Permutations(Units) \cup Permutations(Models)
=============================================================================
