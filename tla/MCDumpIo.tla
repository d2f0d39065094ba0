------------------------------ MODULE MCDumpIo ------------------------------
EXTENDS DumpIo, MCIoFile
=============================================================================
