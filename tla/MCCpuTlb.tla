------------------------------ MODULE MCCpuTlb ------------------------------
EXTENDS CpuTlb
=============================================================================
