------------------------------- MODULE MCVmm -------------------------------
(* Two pages of two units, and one frame more than is needed or one less:     *)
(* areas may share a page, and a fault may find no frame left.                *)
EXTENDS Vmm
MCFlags == {{"VM_READ"}, {"VM_WRITE"}, {"VM_READ", "VM_WRITE"}}
=============================================================================
