---------------------------- MODULE MCDeviceAuth ----------------------------
(* Instances of DeviceAuth for TLC. *)
EXTENDS DeviceAuth, TLC

\* Ids, texts and threads are interchangeable: no definition chooses among them.
AuthSymmetry ==
  Permutations(Device) \cup Permutations(Code) \cup Permutations(Challenge)
    \cup Permutations(Token) \cup Permutations(KeyText) \cup Permutations(Request)
    \cup Permutations(Act)
=============================================================================
