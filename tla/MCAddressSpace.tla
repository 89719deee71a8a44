--------------------------- MODULE MCAddressSpace ---------------------------
(* Instances of AddressSpace for TLC. *)
EXTENDS AddressSpace

CONSTANTS f1, f2, f3, f4
ThreeFrames == {f1, f2, f3}
FourFrames == {f1, f2, f3, f4}
Interchangeable == Permutations(FourFrames)

OneKind == {"KernelVm"}
OneRange == [k \in OneKind |-> [base |-> 1, size |-> 5]]

=============================================================================
