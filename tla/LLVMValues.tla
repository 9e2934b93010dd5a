------------------------------ MODULE LLVMValues ------------------------------
\* The values of the LLVM module that all components of the program work on.
CONSTANTS
  Function,     \* its functions, declarations included
  Site          \* its call sites: the instructions that are a CallBase
=============================================================================
