---------------------------- MODULE MCExceptions -----------------------------
EXTENDS Exceptions

\* Below, in and above the range of the kernel calls, and 0.
SomeNumbers == -12..2
=============================================================================
