---------------------------- MODULE MCPageTables ----------------------------
(* An instance of PageTables for TLC. *)
EXTENDS PageTables, TLC

\* Two pages of one table, one that needs a table of its own, one inside the boot
\* loader's huge page and one that shares only the boot loader's table with it.
FivePages ==
    {<<0, 0, 0, 0>>, <<0, 0, 0, 1>>, <<0, 0, 1, 0>>, <<1, 1, 0, 0>>, <<1, 0, 1, 1>>}

KernelFlags == {{"READ", "WRITE", "GLOBAL"}, {"READ", "EXECUTE", "USER"}}

CONSTANTS f1, f2, f3, f4, f5, f6, pml4, boot
SixFrames == {f1, f2, f3, f4, f5, f6, pml4, boot}
Interchangeable == Permutations({f1, f2, f3, f4, f5, f6})

=============================================================================
