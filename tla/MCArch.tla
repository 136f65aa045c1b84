------------------------------- MODULE MCArch -------------------------------
EXTENDS Arch
=============================================================================
