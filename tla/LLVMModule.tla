------------------------------ MODULE LLVMModule ------------------------------
\* The module itself.  No component changes it; what each reads of it is said
\* where the component is.
EXTENDS LLVMValues, Maps

VARIABLE M
=============================================================================
