----------------------------- MODULE MCDumpHardware -----------------------------
EXTENDS DumpHardware, MCHardwareFiles
=============================================================================
