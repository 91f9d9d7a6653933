----------------------------- MODULE MC_BootPxe -----------------------------
EXTENDS BootPxe

\* Base memory, extended memory in use, a small and a large free piece of it,
\* and a piece above 4 GB whose address and size are both cut.
MCRegions ==
  {[base |-> 0, size |-> 2, type |-> 1], [base |-> 2, size |-> 6, type |-> 2],
   [base |-> 2, size |-> 2, type |-> 1], [base |-> 4, size |-> 3, type |-> 1],
   [base |-> 9, size |-> 11, type |-> 1]}
=============================================================================
