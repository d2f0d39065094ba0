---------------------------- MODULE MCHardwareTools ----------------------------
EXTENDS HardwareTools, MCHardwareFiles
=============================================================================
