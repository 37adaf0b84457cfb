------------------------------ MODULE MCDevices ------------------------------
EXTENDS Devices

\* A flash device, a printer and a terminal.
SomeRegisters == {<<4, 1>>, <<6, 0>>, <<7, 0>>}
=============================================================================
